------------------------------ MODULE StateStores ------------------------------
(***************************************************************************)
(* The two representations of the chain state and their databases: the one *)
(* of objects (state/in-memory-state.ts, InMemoryStates of                 *)
(* database/states.ts), and the one of serialized entries                  *)
(* (state-merkleization/serialized-state.ts, database/leaf-db.ts,          *)
(* database/serialized-states-db.ts), which get the same updates.          *)
(*                                                                         *)
(* A key of an entry is a term and encodings are exact.  A value is a      *)
(* tuple; the ones in LargeValue do not fit a leaf.  An in-memory state is *)
(*   [basic, statistics, services],                                        *)
(* a service [info, preimages, lookups, storage].  Its statistics are no   *)
(* value but an object, which every copy of the state shares and which the *)
(* transition of a block changes (transition/statistics.ts); what is said  *)
(* of them goes for the last root of the recent blocks as well, which is   *)
(* set in a shared object too (transition/recent-history.ts).              *)
(* An update is one the transition of a block may make: it creates only    *)
(* new services, touches existing ones, provides missing preimages and     *)
(* removes services whose data it has removed.                             *)
(***************************************************************************)
EXTENDS Integers, Sequences, SequencesExt, FiniteSetsExt, TLC

CONSTANTS
    StateHeader,    \* blocks, of which GenesisState is the first
    GenesisState,
    ServiceId,
    Preimage,       \* preimages by hash; Size[h] is the length of the one of h
    Size,
    StorageKey,
    Basic,          \* the parts of the state that are no services and no statistics
    EpochStart,     \* the blocks that begin an epoch
    MaxDecoded,     \* bound: entries of the state in use that are cached
    SmallValue,
    LargeValue,
    Absent          \* `null`

VARIABLES
    objects,    \* InMemoryStates.db
    tallies,    \* the validators' statistics of an epoch, by the block that created them:
                \* the blocks counted in them
    lastCounted,\* the block of the statistics of cores and services, which all share
    recounted,  \* history: states whose statistics may have counted a block of another
    tries,      \* InMemorySerializedStates.db: leaves by key
    valuesDb,   \* its values that fit no leaf
    inUse,      \* the states a block is imported on: [header, object, leaves]
    dataCache,  \* SerializedState.dataCache of it, decoded entries by key
    viewCache,  \* and viewCache
    view        \* a SerializedStateView: [leaves, own], own is the cache it alone has

heapVars == <<tallies, lastCounted, recounted>>
storesVars == <<objects, tries, valuesDb, inUse, dataCache, viewCache, view, heapVars>>

Without(f, S) == [k \in DOMAIN f \ S |-> f[k]]

-----------------------------------------------------------------------------
(* The state of objects.                                                   *)

At(lookups, length) == {i \in DOMAIN lookups : lookups[i].length = length}
\* history.splice(index, ...): in the place of the item of this length, or
\* before the last one.
Spliced(lookups, item) ==
    IF At(lookups, item.length) # {}
    THEN [i \in DOMAIN lookups |-> IF lookups[i].length = item.length THEN item ELSE lookups[i]]
    ELSE IF lookups = <<>> THEN <<item>>
    ELSE Front(lookups) \o <<item, Last(lookups)>>
HistoryOf(service, h) == IF h \in DOMAIN service.lookups THEN service.lookups[h] ELSE <<>>
Appended(service, h, item) == (h :> Spliced(HistoryOf(service, h), item)) @@ service.lookups

\* updateServices: an account that is created has at most one lookup.
UpdateServices(services, updated) ==
    [s \in DOMAIN updated |->
        IF updated[s].kind = "update" THEN [services[s] EXCEPT !.info = updated[s].info]
        ELSE [info |-> updated[s].info, preimages |-> {}, storage |-> <<>>,
              lookups |-> IF updated[s].lookup = Absent THEN <<>>
                          ELSE updated[s].lookup.hash :> <<updated[s].lookup.item>>]] @@ services

\* updatePreimages, one update.
UpdatePreimage(service, p) ==
    CASE p.kind = "provide" ->
            [service EXCEPT !.preimages = @ \cup {p.hash},
                            !.lookups = Appended(service, p.hash, [length |-> Size[p.hash], slots |-> p.slots])]
      [] p.kind = "remove" ->
            [service EXCEPT !.preimages = @ \ {p.hash},
                            !.lookups = [h \in DOMAIN @ |->
                                IF h # p.hash THEN @[h]
                                ELSE SelectSeq(@[h], LAMBDA item : item.length # p.length)]]
      [] p.kind = "updateOrAdd" ->
            [service EXCEPT !.lookups = Appended(service, p.hash, [length |-> p.length, slots |-> p.slots])]
UpdateStorage(service, u) ==
    IF u.value = Absent THEN [service EXCEPT !.storage = Without(@, {u.key})]
    ELSE [service EXCEPT !.storage = (u.key :> u.value) @@ @]

ForEach(services, updates, Op(_, _)) ==
    [s \in DOMAIN updates |-> FoldLeft(Op, services[s], updates[s])] @@ services
ApplyUpdate(state, u) ==
    [basic |-> u.basic @@ state.basic,
     statistics |-> u.statistics,
     services |-> Without(ForEach(ForEach(UpdateServices(state.services, u.updated), u.preimages, UpdatePreimage),
                                  u.storage, UpdateStorage),
                          u.removed)]

\* copyFrom(state, intoServicesData()): of the services what the enumeration
\* finds; a hash whose last lookup is gone is not found.  The statistics are
\* the same objects as before.
CopyFrom(state) ==
    [state EXCEPT !.services = [s \in DOMAIN @ |->
        [@[s] EXCEPT !.lookups = [h \in {h \in DOMAIN @ : @[h] # <<>>} |-> @[h]]]]]

\* Statistics.transition: a block is counted in the object of its epoch, in
\* place, and a new one is made for a new epoch; the statistics of cores and
\* services are overwritten in place.
Created(h, statistics) ==
    IF h \in EpochStart THEN [current |-> h, previous |-> statistics.current] ELSE statistics
Count(h) ==
    /\ tallies' = IF h \in EpochStart THEN [tallies EXCEPT ![h] = <<h>>]
                  ELSE [tallies EXCEPT ![inUse.object.statistics.current] = Append(@, h)]
    /\ lastCounted' = h
    /\ recounted' = {g \in StateHeader : objects[g] # Absent}
                      \cup (IF inUse.header \in recounted THEN {h} ELSE {})
TallyOf(creator) == IF creator = Absent THEN <<>> ELSE tallies[creator]
\* The same of the entry, which is decoded, changed and encoded again.
Counted(h, value) ==
    <<IF h \in EpochStart THEN <<h>> ELSE Append(value[1], h),
      IF h \in EpochStart THEN value[1] ELSE value[2], h>>

-----------------------------------------------------------------------------
(* The state of entries.                                                   *)

InfoKey(s) == <<"info", s>>
StorageOf(s, k) == <<"storage", s, k>>
PreimageKey(s, h) == <<"preimage", s, h>>
LookupKey(s, h, length) == <<"lookup", s, h, length>>
BasicKey(f) == <<"basic", f>>
StatisticsKey == BasicKey("statistics")
Blob(h) == <<"blob", h>>

Insert(key, value) == <<key, value>>
Drop(key) == <<key, Absent>>

\* convertInMemoryStateToDictionary.
Serialized(state) ==
    LET OfService(s) ==
            LET service == state.services[s] IN
            {Insert(InfoKey(s), service.info)}
              \cup {Insert(PreimageKey(s, h), Blob(h)) : h \in service.preimages}
              \cup {Insert(StorageOf(s, k), service.storage[k]) : k \in DOMAIN service.storage}
              \cup UNION {{Insert(LookupKey(s, h, service.lookups[h][i].length), service.lookups[h][i].slots) :
                              i \in DOMAIN service.lookups[h]} : h \in DOMAIN service.lookups}
    IN  {Insert(BasicKey(f), state.basic[f]) : f \in DOMAIN state.basic}
          \cup {Insert(StatisticsKey, <<TallyOf(state.statistics.current), TallyOf(state.statistics.previous), lastCounted>>)}
          \cup UNION {OfService(s) : s \in DOMAIN state.services}

SerializeService(s, update) ==
    <<Insert(InfoKey(s), update.info)>> \o
        IF update.kind = "create" /\ update.lookup # Absent
        THEN <<Insert(LookupKey(s, update.lookup.hash, update.lookup.item.length), update.lookup.item.slots)>>
        ELSE <<>>
SerializePreimage(s, p) ==
    CASE p.kind = "provide" -> <<Insert(PreimageKey(s, p.hash), Blob(p.hash)),
                                 Insert(LookupKey(s, p.hash, Size[p.hash]), p.slots)>>
      [] p.kind = "updateOrAdd" -> <<Insert(LookupKey(s, p.hash, p.length), p.slots)>>
      [] p.kind = "remove" -> <<Drop(PreimageKey(s, p.hash)), Drop(LookupKey(s, p.hash, p.length))>>
SerializeStorage(s, u) == <<<<StorageOf(s, u.key), u.value>>>>
Each(updates, s, Op(_, _)) == FlattenSeq([i \in DOMAIN updates[s] |-> Op(s, updates[s][i])])
InTurn(updates, Op(_)) == FlattenSeq([i \in 1..Cardinality(DOMAIN updates) |-> Op(SetToSeq(DOMAIN updates)[i])])
SerializeBasicKeys(u) == InTurn(u.basic, LAMBDA f : <<Insert(BasicKey(f), u.basic[f])>>)
SerializeRemovedServices(u) == [i \in 1..Cardinality(u.removed) |-> Drop(InfoKey(SetToSeq(u.removed)[i]))]
SerializeStateUpdate(u) ==
    SerializeBasicKeys(u)
      \o <<Insert(StatisticsKey, u.encoded)>>
      \o InTurn(u.updated, LAMBDA s : SerializeService(s, u.updated[s]))
      \o InTurn(u.preimages, LAMBDA s : Each(u.preimages, s, SerializePreimage))
      \o InTurn(u.storage, LAMBDA s : Each(u.storage, s, SerializeStorage))
      \o SerializeRemovedServices(u)

\* A leaf holds a value that fits, or the hash of one that does not.
Embeds(value) == value \notin LargeValue \cup {Blob(h) : h \in Preimage}
LeafOf(value) == IF Embeds(value) THEN <<"value", value>> ELSE <<"hash", value>>
UpdateLeafs(leaves, updates) ==
    FoldLeft(LAMBDA now, u : IF u[2] = Absent THEN Without(now, {u[1]}) ELSE (u[1] :> LeafOf(u[2])) @@ now,
             leaves, updates)
ValuesOf(updates) == {u[2] : u \in {u \in ToSet(updates) : u[2] # Absent /\ ~Embeds(u[2])}}

\* LeafDb.get: a value that is not in the database cannot be read.
Readable(leaf) == leaf[1] = "hash" => leaf[2] \in valuesDb
IntoStateEntries(leaves) == {Insert(k, leaves[k][2]) : k \in DOMAIN leaves}

-----------------------------------------------------------------------------
(* The databases.                                                          *)

Open(h) ==
    /\ inUse' = [header |-> h, object |-> CopyFrom(objects[h]), leaves |-> tries[h]]
    /\ dataCache' = <<>> /\ viewCache' = <<>> /\ view' = Absent
    /\ UNCHANGED <<objects, tries, valuesDb, heapVars>>
GetState(h) == objects[h] # Absent /\ Open(h)

CanCache == Cardinality(DOMAIN dataCache) + Cardinality(DOMAIN viewCache) < MaxDecoded
\* A getter of the state or of a service: any entry it asks for is kept.
Read(key) == IF key \in DOMAIN dataCache THEN dataCache[key] ELSE inUse.leaves[key][2]
RetrieveOptional(key) ==
    /\ inUse # Absent /\ key \in DOMAIN inUse.leaves
    /\ CanCache
    /\ dataCache' = (key :> Read(key)) @@ dataCache
    /\ UNCHANGED <<objects, tries, valuesDb, inUse, viewCache, view, heapVars>>

TakeView ==
    /\ inUse # Absent
    /\ view' = [leaves |-> inUse.leaves, own |-> Absent]
    /\ UNCHANGED <<objects, tries, valuesDb, inUse, dataCache, viewCache, heapVars>>
\* retrieveView: in the cache of the state, until the state gets a new one.
RetrieveView(f) ==
    /\ view # Absent
    /\ LET read == BasicKey(f) :> view.leaves[BasicKey(f)][2] IN
       IF view.own = Absent
       THEN CanCache /\ viewCache' = viewCache @@ read /\ UNCHANGED view
       ELSE view' = [view EXCEPT !.own = @ @@ read] /\ UNCHANGED viewCache
    /\ UNCHANGED <<objects, tries, valuesDb, inUse, dataCache, heapVars>>

KeepingCaches == UNCHANGED <<dataCache, viewCache, view>>
\* A view of the state before keeps the cache, the state gets new ones.
UpdateBackend ==
    /\ dataCache' = <<>> /\ viewCache' = <<>>
    /\ view' = IF view = Absent THEN Absent
               ELSE [view EXCEPT !.own = IF @ = Absent THEN viewCache ELSE @]

\* updateAndSetState of both: the state in use becomes the one of the block.
UpdateAndSetState(h, u) ==
    LET updates == SerializeStateUpdate(u)
        leaves == UpdateLeafs(inUse.leaves, updates)
        object == ApplyUpdate(inUse.object, u)
    IN  /\ objects' = [objects EXCEPT ![h] = CopyFrom(object)]
        /\ tries' = [tries EXCEPT ![h] = leaves]
        /\ valuesDb' = valuesDb \cup ValuesOf(updates)
        /\ inUse' = [header |-> h, object |-> object, leaves |-> leaves]
        /\ Count(h)
        /\ UpdateBackend

-----------------------------------------------------------------------------
Slots == {<<>>, <<1>>}
LookupItem == [length : {1, 2}, slots : Slots]
AnyValue == CHOOSE v \in SmallValue : TRUE
\* What a block may do to one service.
ServiceUpdate(state, s) ==
    IF s \in DOMAIN state.services
    THEN {[kind |-> "update", info |-> v] : v \in SmallValue \ {state.services[s].info}}
    ELSE [kind : {"create"}, info : {AnyValue},
          lookup : {Absent} \cup {[hash |-> h, item |-> [length |-> Size[h], slots |-> <<>>]] : h \in Preimage}]
PreimageUpdate(service) ==
    {[kind |-> "provide", hash |-> h, slots |-> <<1>>] : h \in Preimage \ service.preimages}
      \cup {[kind |-> "updateOrAdd", hash |-> h, length |-> i.length, slots |-> i.slots] :
               h \in Preimage, i \in LookupItem}
      \cup {[kind |-> "remove", hash |-> h, length |-> n] : h \in DOMAIN service.lookups, n \in {1, 2}}
StorageUpdate(service) ==
    {[key |-> k, value |-> v] : k \in StorageKey, v \in LargeValue \cup {AnyValue}}
      \cup {[key |-> k, value |-> Absent] : k \in DOMAIN service.storage}
OneOf(s, S) == {<<>>} \cup {s :> <<x>> : x \in S}
Removable(state) ==
    {s \in DOMAIN state.services :
        LET service == state.services[s] IN
        service.preimages = {} /\ service.storage = <<>> /\ \A h \in DOMAIN service.lookups : service.lookups[h] = <<>>}

NoUpdate == [basic |-> <<>>, updated |-> <<>>, preimages |-> <<>>, storage |-> <<>>, removed |-> {}]
\* The statistics come from what each representation has of them.
WithStatistics(h, u) ==
    u @@ [statistics |-> Created(h, inUse.object.statistics), encoded |-> Counted(h, Read(StatisticsKey))]
Import(h, s) ==
    /\ inUse # Absent /\ objects[h] = Absent
    /\ \E f \in Basic, touched \in {<<>>} \cup {s :> x : x \in ServiceUpdate(inUse.object, s)} :
       LET basic == f :> CHOOSE v \in SmallValue : v # inUse.object.basic[f]
           begun == WithStatistics(h, [NoUpdate EXCEPT !.basic = basic, !.updated = touched])
           first == ApplyUpdate(inUse.object, begun)
       IN  /\ s \in DOMAIN first.services
           /\ \E p \in OneOf(s, PreimageUpdate(first.services[s])), w \in OneOf(s, StorageUpdate(first.services[s])) :
              (p = <<>> \/ w = <<>>) /\ LET whole == [begun EXCEPT !.preimages = p, !.storage = w] IN
              \E gone \in SUBSET (Removable(ApplyUpdate(inUse.object, whole)) \cap {s}) :
                 UpdateAndSetState(h, [whole EXCEPT !.removed = gone])

StoresInit(state, leaves) ==
    /\ objects = [h \in StateHeader |-> IF h = GenesisState THEN state ELSE Absent]
    /\ tries = [h \in StateHeader |-> IF h = GenesisState THEN leaves ELSE Absent]
    /\ valuesDb = ValuesOf(SetToSeq(Serialized(state)))
    /\ inUse = Absent /\ dataCache = <<>> /\ viewCache = <<>> /\ view = Absent

\* insertInitialState, of one service with a large value that has asked for
\* its preimages.
Init ==
    LET state == [basic |-> [f \in Basic |-> AnyValue],
                  statistics |-> [current |-> GenesisState, previous |-> Absent],
                  services |-> (CHOOSE s \in ServiceId : TRUE) :>
                      [info |-> AnyValue, preimages |-> {},
                       lookups |-> [h \in Preimage |-> <<[length |-> Size[h], slots |-> <<>>]>>],
                       storage |-> [k \in StorageKey |-> CHOOSE v \in LargeValue : TRUE]]]
    IN  /\ tallies = [h \in StateHeader |-> <<>>] /\ lastCounted = GenesisState /\ recounted = {}
        /\ StoresInit(state, UpdateLeafs(<<>>, SetToSeq(Serialized(state))))

StoresNext ==
    \/ \E h \in StateHeader : GetState(h)
    \/ \E key \in UNION {DOMAIN tries[h] : h \in {h \in StateHeader : tries[h] # Absent}} : RetrieveOptional(key)
    \/ TakeView
    \/ \E f \in Basic \cup {"statistics"} : RetrieveView(f)
    \/ \E h \in StateHeader, s \in ServiceId : Import(h, s)

-----------------------------------------------------------------------------
CacheOf(leaves, cache) == \A k \in DOMAIN cache : k \in DOMAIN leaves /\ cache[k] = leaves[k][2]
Disregarding(keys, entries) == {e \in entries : e[1] \notin keys}
\* Both databases hold the same state for every block, however it got there
\* and whatever other blocks did since, and its values can be read; only
\* statistics differ, and only of a state on which, or beside which, a block
\* was imported, or which was built on such a one.  The state in use is the one
\* of its block; and neither it nor a view that was taken of it gives out what
\* another state had cached.
StoresAgree ==
    /\ \A h \in StateHeader : objects[h] # Absent =>
        /\ LET shared == IF h \in recounted THEN {StatisticsKey} ELSE {} IN
           Disregarding(shared, Serialized(objects[h])) = Disregarding(shared, IntoStateEntries(tries[h]))
        /\ \A k \in DOMAIN tries[h] : Readable(tries[h][k])
    /\ inUse # Absent =>
        /\ Serialized(inUse.object) = Serialized(objects[inUse.header])
        /\ inUse.leaves = tries[inUse.header]
        /\ CacheOf(inUse.leaves, dataCache) /\ CacheOf(inUse.leaves, viewCache)
    /\ view # Absent =>
        IF view.own = Absent THEN view.leaves = inUse.leaves ELSE CacheOf(view.leaves, view.own)
=============================================================================
