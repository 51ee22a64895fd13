# A TLA+ model of typeberry

typeberry is a JAM node in TypeScript: it imports blocks, executes their state
transition, keeps the states in a database, authors blocks and talks to peers.
This directory holds TLA+ modules of it, the TLC configurations that check them on
small instances, and TLAPS proofs of the most important properties.
Paths below are relative to `src/packages/` unless they begin with `src/`.

Contents: 1 the system, 2 the modules, 3 the runs, 4 fairness, 5 the proofs,
6 where code and comments disagree, 7 what is not modelled, 8 the plan,
9 how to run it.

## 1. The system

The node is one process with worker threads. `jam/node` starts the workers and
connects their message ports; a worker is a single event loop, so what runs
between two awaits is atomic, and everything else interleaves.

    peers <-> network worker <--tickets--> authorship worker --tasks--> worker pool
                  |   blocks                    |  own blocks
                  v                             v
              importer worker: Importer -> OnChain (transition) -> Finalizer
                  |                            |  PVM programs of services
                  v                            v
              databases: blocks, serialized states, large values (Fjall / memory)
                  ^                            ^
                  |  RPC server, clients       |  fuzzing session (local socket)

| component | state it keeps | operations | what is hard | what makes it correct | module |
|---|---|---|---|---|---|
| **Block import** `workers/importer/importer.ts` | one state object and `currentHash`; the databases | `importBlock`, `open`, background prune | imports interleave at every await; forks switch the shared state object; writes fail; the process dies between four writes | state object = state of `currentHash`; what is stored is posterior; a stored header has a state; the best block can be built on after any crash | `Importer` |
| **Finalizer** `workers/importer/finality.ts` | the last finalized block, the chains above it | `onBlockImported`, construction | forks that share a prefix, orphans, restart | finality moves forward; it prunes what is dead and nothing else; commits a gapless path | `DummyFinalizer`, `Finality` |
| **Large values** `jam/database/value-refs.ts`, `jam/database-fjall/hybrid-states.ts` | leafs per header, value counters and deltas, values on disk, queued removals | `updateAndSetState`, `commitFinalized`, `markUnused`, background removals | a removal races the write of the same value on another fork; partial failure of a batch | a loadable state never lacks a value; no value stays for good | `ValueRefs`, `HybridStates` |
| **States** `jam/state`, `jam/state-merkleization`, `jam/database` | objects or sorted leaves per header, caches, a view | apply an update, read, merkleize, mark unused | two representations, order of entries, caches that outlive an update | both hold the same state after every update | `StateStores` |
| **Work reports** `jam/transition/{assurances,reports,accumulate,recent-history}` | reports on cores, accumulation queue, recently accumulated packages, recent history | one block: assurances, guarantees, accumulation, history | reports that need one another, gas that ends in the queue, ring buffers indexed by slots, timeouts | a package is in one place and accumulated at most once, after what it needs | `WorkReports`, `ReportLifecycle` |
| **Disputes** `jam/transition/disputes` | judged reports, punished keys, cores | verdicts, culprits, faults of a block | votes of two epochs, reports on cores | judged once, by votes that were cast; nobody punished without a statement | `Disputes` |
| **Guarantors, statistics, authorization** `jam/transition/{statistics,authorization,reports}` | records per validator, core and service, pools and queues of authorizers | one block | epochs and rotations change between guarantee and block; cached statistics changed in place | the records are what the blocks add up to; an authorizer is spent as often as it was queued | `Activity` |
| **Accumulation** `jam/transition/{accumulate,externalities}`, `jam/jam-host-calls/externalities` | partial states, checkpoints, transfers, privileges | rounds, host calls, merge, preimages | panic after a checkpoint, copies that know nothing of each other | exact and paid footprints, no money made, roles move by right | `PartialState`, `Accumulation` |
| **Host call handlers** `jam/jam-host-calls` | none: registers and memory | every handler | lengths, cut values, faults at the edge of memory | the answer tells what was done | `HostCalls` |
| **Refinement** `jam/in-core` | a package under way, inner machines | authorize, refine, host calls of both | one item fails after others exported; inner machines resumed | segments at the indices the report says; machines go on where they stopped | `Refinement` |
| **PVM** `core/pvm-interpreter`, `core/pvm-host-calls` | registers, memory, gas, counter | every instruction, host calls | widths, wrap-around of addresses, gas at zero, jumps | an instruction computes what it means; only instructions run | `PvmOps`, `PvmMemory`, `Pvm` |
| **Safrole** `jam/safrole` | entropy, validator sets, ticket accumulator, sealing series | one block, the seal | skipped epochs, contest boundaries | one sealer per slot, tickets sorted and unique | `Safrole` |
| **Authorship** `workers/block-authorship` | epoch data, verified tickets, the clock | main loop, ticket generation | the best block and the epoch move between two awaits | our blocks are accepted | `Authorship` |
| **Ticket distribution** `jam/ticket-pool`, `jam/jamnp-s/tasks/ticket-distribution.ts` | verified pool, pending pool, sent indices per peer | receive, generate, validate, replace, redistribute, connect, disconnect | epoch changes between a check and its effect; reconnects; failed sends; dumps | only verified tickets spread; each reaches every peer | `TicketDistribution` |
| **Networking** `core/networking`, `jam/jamnp-s` | connections, streams, handlers' maps, aux data | connect, dial, retry, streams, UP 0 | late disconnects and stream errors, reused ids | the registries agree with live connections | `Network` |
| **Sync** `jam/jamnp-s/tasks/sync.ts`, CE 128 | the best header seen per peer | announce, request, answer, import | stale announcements, off by one in ranges | what is asked for attaches to what is known | `Network` |
| **Worker channels** `workers/api` | pending responses, pending messages | request, respond, close | a handler that throws or comes late | every request is served once, in order | `Channels` |
| **Worker pool** `core/concurrent` | workers, free ones, queue of tasks | run, destroy | failing start, destroy with queued tasks | a task is with one worker and settles once | `WorkerPool` |
| **RPC** `jam/rpc`, `jam/rpc-client` | subscriptions, last results, the client's emitters | call, subscribe, poll, notify, lose a connection | a poll among imports; answers and notifications in one packet | a subscriber hears each change once, in order | `Rpc` |
| **Fuzzing** `jam/fuzz-proto`, `jam/node/main-fuzz.ts`, `extensions/ipc` | the running node, key spaces, files | handshake, initialize, import, get state, shutdown | resets and shutdown between any two awaits | nothing outlives its session | `FuzzSession` |
| **Collections, trie, codec** `core/{collections,trie,mmr,codec}` | — | insert, remove, convert, hash, encode, skip, view | conversions at a threshold, last leaves, offsets | equal to their definitions | `BlobDictionary`, `SortedCollections`, `Trie`, `MountainRange`, `Descriptors`, `Codec` |
| **Erasure coding** `core/erasure-coding` | — | encode data to chunks, deal them to validators, decode | padding, interleaving, chunks dealt twice | enough chunks, whoever holds them, give the data back | `Erasure` |
| **The rest** importer worker and node wiring, root database, JSON forms, configuration, cryptography, `ananas` bindings, tools | | | | | none, see section 7 |

`PROJECT.json` lists the components with their sources and, under `hazards`, the
lines at which these difficulties bite, with the property that watches each one.

## 2. The modules

Reports, messages or blocks are not modelled byte by byte: a hash is what it was
computed from, a signature or a proof is good or bad, a root stands for its contents,
unless the module is about just that (trie, codec, PVM).

`MCChain`, `MCData`, `MCProgress` and `MCParts` put modules side by side that share
nothing in the models: a variable `part` chooses one of them in the initial state, only
that one runs, and the others stay in an initial state. A property of such a run is
about its own part. This is a choice of presentation, not of composition; where
components do interact they are composed in the module itself (`HybridStates` drives
`DummyFinalizer` and `ValueRefs` in one action, as the importer does; `Authorship` runs
`Safrole`; `WorkReports` runs all the sub-transitions of a block; `Accumulation` runs on
`PartialState`; `Pvm` on `PvmMemory` and `PvmOps`; `Network` has the connections, the
streams, the announcements and the sync task of one worker).

`MCChain` and `MCParts` extend the components that theorems are about, and instantiate the others
(`MCInstances` and `MCAccumulation` hold their constants). That is why `DummyFinalizer`, `Network`, `FuzzSession`, `WorkReports`,
`Disputes` and `WorkerPool` name their initial and next-state predicates after themselves (`FinalizerInit`, `PoolNext`, ...).

Some modules also define an operator next to the one used by the specification
that differs from it in one respect (`LoadHashOnly` beside `LoadParent`,
`IsTwiceAsDeep` beside `IsDeepEnough`, ...). The specification does not use them:
each is a plausible mistake, and `PROJECT.json` (`mutants`) says which property
notices it when it takes the place of the real operator.

### Finality, DummyFinalizer
`Finality` (abstract) has one variable for the tree, one for the finalized block and one
for the pruned blocks. An import either leaves finality alone or moves it to an
ancestor of the new block, and in that step exactly the blocks that do not
descend from the new finalized block are pruned.

`DummyFinalizer` keeps what the class keeps: `lastFinalized` (`lastFinalizedHash`)
and `unfinalized` (the field of that name, a set of sequences; the code's array order
matters only when one block is in several chains, where either choice gives the
same branch). `OnBlockImported(h)` is the whole method: attach at a tip, at the
finalized block or by copying a prefix, or ignore an orphan; then, when the extended
chain is longer than twice `Depth`, settle. The threshold is checked from both sides: no chain
waits longer (`ChainsAreShort`), and what is committed is `Depth + 1` blocks long
(`CommittingStep`). `Restart` is a new process: the importer
constructs the finalizer with the best block.

### ValueRefs, HybridStates
`ValueRefs` translates the four entry points (`onInitial`, `onImport`,
`commitFinalized`, `releaseUnfinalized`) as functions of the counters; the code's
clamped decrement is `BagMonus`. `HybridStates` splits `updateAndSetState` where
the code awaits: wait for removals and flush values (`InsertBatch`), `Persist`,
`SetState` in memory, and the importer's `FinishImport`, which calls the finalizer,
`commitFinalized` and `markUnused` in the order of `importer.ts`. It extends
`DummyFinalizer`, whose `OnBlockImported` is part of that step. `cleanup` is the
chain of promises `pendingCleanup`: its head is the batch of removals in flight,
which complete in any order. A removal that fails makes the batch settle at once
and leaves the others `stray`.

### StateStores
One update of a block, applied to the objects of `in-memory-state.ts` and to the
serialized entries, and stored by both databases for every block of a tree. The data
cache of `SerializedState`, the cache of its view and the backend of the leaves are
variables: a read of any entry fills them (`RetrieveOptional`, `RetrieveView`), an update drops them.
Updates are those a transition makes: it creates only new services, provides missing preimages, and
removes services whose data is gone. Statistics are not copied with a state of objects: `copyFrom` hands on the
objects, and the transition of a block counts in them in place. So a state has references to what is in
`tallies` and `lastCounted`, `Count` changes it there, and `recounted` remembers the states it may have changed for.

### Importer
The program counter of a task names the awaits of `importBlockInternal`: verified,
transition, storing, stored, inserting, best. `backend`, the leaves of the state object, and
`currentHash` are what the importer keeps for all imports, and `view` is how the state object reads through its
cache of decoded entries: executing a block counts it in the cached statistics in place
(`Counts`), replacing the backend drops the cache (`UpdateBackend`), and a failed write does neither, so that `view` and
`backend` part (`unwritten`; `misread` has the blocks executed on such a state, and their descendants). `writes` has the writes of
headers and roots under way, which go on when the import that started them was rejected. `db` is what a read returns,
`durable` what the last `persist` made safe; a crash keeps any part of the
difference, except that the journal keeps the best hash behind the header and the
root it was written after (`IsOrdered`). A state is a value that blocks are
executed on: `Update(s, h)` is what block `h` computes from what it read, `Write`
applies it. In the instance a state is the set of blocks it has seen, with a mark once a block was
counted in memory alone, so that a mixture of two branches is a different state, and so is what was counted twice. The finalizer is any that satisfies
`Finality` (none at all without `--dev`).

### ReportLifecycle, WorkReports
One action, `ImportBlock`, is one block: verdicts clear cores, keys rotate at an
epoch boundary, assured reports leave their cores, guarantees are checked against
the state **before** the block and placed on cores **after** the assurances, the
queue and the newly available reports are accumulated up to a gas limit, and the
recent history records the reported packages. The operators carry the order in
which `chain-stf.ts` calls the sub-transitions and which of them sees which field.
A service may use less gas than its report allows, so the number of accumulated
reports is any between the static cutoff and all. Signatures are taken to be good.
`ReportLifecycle` (abstract) has the `stage` of every report; the mapping `Stage` reads
it from cores, queue and history.

### Disputes
A block brings up to two verdicts, culprits and faults; statements are records
`[key, says, report]`, and the constant `Signatures` says which were signed. `records` is
`disputesRecords`, `cores` the availability assignment. The error of a refused block is
left out: it changes nothing.

### Activity
`Import` is a block as far as guarantors, statistics and authorizers go: who is assigned
to which core (`GuarantorAssignment`, over rotations and epochs), all checks of a
guarantee but its context, the records per validator, core and service, the pools. The
statistics object is decoded once and kept by the state's cache; a block of the same
epoch changes it **in place** before the new state is written, so `WriteFails`, a block
whose state cannot be written, leaves `cached` ahead of `stored` (`UpdateBackend` drops
the cache). `imported`, `lost` and `miscounted` are history: the blocks that were imported, how many the cached object
alone has counted, and the epochs in which such a count was stored with a later block.

### PartialState, Accumulation
`PartialState` is `AccumulationStateUpdate` over the state: every read looks at the
update first, every write goes there, `Merge` makes one update of those of a round, and
`Apply` is the update of the state when the block is over. `Accumulation` has the
phases of the transition: preimages of the extrinsic, rounds of services within a gas limit
(`BeginRound`, `Accumulate`, `Halt`, `Panic`, `EndRound`), one action per host call that
changes something, `EndBlock`. A service may provide a preimage that another asked for: it is noted for both, and the merge hands
it over and drops the note. `mixed` is history: the services that had dropped the request in the same round, or
took the note for their own. A panic returns to `checkpoint`. Copies of a round share
nothing, so running its services one after the other gives the results of running them
in parallel.

### HostCalls
One call per behaviour: `HostNext` chooses a call and registers, the handler reads memory,
asks what is behind it (any answer its interface allows) and puts a code, a length or a
part of a value where the caller wanted it. `effects` notes what was asked for and done.
What the state behind it does is in `Accumulation`.
An accumulation's `fetch` has four kinds (`FetchKinds`); of what it lists, the transfers
come before the operands (`TransferOrOperand`), and all other kinds fetch nothing.

### Refinement
`Authorize` and `Refine` check and start programs, which make host calls until they end
(`ProgramEnds`), one item after the other; `Amalgamate` makes the report. `machines` are
the inner PVMs of the item that runs, with sequences of instructions as programs.
`exported` is what the running program was told of indices, `offset` what earlier items
exported. Which kinds of `fetch` an authorization and a refinement are offered is `Offered`.

### PvmOps, PvmMemory, Pvm
`PvmOps` has the operations of `ops/*` on registers of eight bytes of `ByteBits` bits, and
beside each group the meaning it is compared with. `PvmMemory` has pages, ranges
that wrap around, the heap and the ways a program's memory is laid out. `Pvm` fetches,
decodes arguments, executes, spends gas, and hands host calls over (`HostCall`, `Return`).

### Safrole, Authorship
`Safrole` has pure operators on the part of the state it reads: `Transition` (keys,
entropy, series, marks, accumulator) with all of its refusals, and the seal.
`Authorship` is the loop of the worker, cut at its awaits (`worker.pc`), over `best` (the
state of the best block), the data of the epoch, the pool of verified tickets and the
generator; blocks of others are imported between any two steps.

### TicketDistribution
The authorship worker's state is `verified`, `stateEpoch` and `epochData`; the network
worker's `tickets`, `currentEpoch`, `connected` and `aux`. `wire` is the port between
them, a FIFO. `Distribute` is one round of `maintainDistribution` over all peers,
where opening a stream may fail for each ticket. `ReceiveTicket` starts a validation
and `FinishValidation` ends it any time later, when the epoch may have moved.

### Network
`conn` is what QUIC knows; `peers` and `peerInfo` are the registries of
`PeersManagement` and `Connections`; `io` has the streams with what stream manager, UP 0
and CE 128 keep under their ids; `othersBest`, `chain` and `arriving` belong to the sync
task. The library, the peers and the importer are the environment. A stream is known to
the code by peer and number; the model keeps the connection too, to tell what the code
cannot.

### WorkerPool, Channels
`pool` is the `Executor`; per thread `ports` has what was posted, who listens and what
was answered; `tasks` is what became of the promises. `RunOnWorker` is `run`, `Finished` the listener of
`runTask` with what waits for it: the worker is free, and the next entry of the queue is processed in the
same step. `Channels` has both kinds of ports (`direct`), requests with their ids,
handlers that are set late, answer or throw, and closing; `port` has, for each end, the
listeners, the messages that wait for one (`pendingMessages`, by event) and those on their way.

### Rpc
One message is one step of the server, since a handler reads without waiting; a poll goes
over the subscriptions one by one while the database moves on (`Import`, `Prune`). A client
handles all messages of a packet before what awaits their answers goes on (`resolved`).
`told`, `heard` and `missed` are history.

### FuzzSession
A step ends where the code awaits. `task` is the request worked on, with the way through
a reset as its states: closing the node, deleting the partitions or wiping files, opening
the key space, building the node; each may fail. `closing` is the shutdown, which may begin
anywhere.

### BlobDictionary, SortedCollections, Trie, MountainRange, Descriptors, Codec, Erasure
The structures with the ways they are built, next to what they should hold (`held`,
`leaves`, `appended`, or the set of key-values). The dictionary tells chunks of a key apart by
their number (`BytesAsU48`, with the length in it), and its nodes convert from lists
to maps at a threshold, the sorted array is searched by halving, the trie is computed
both by insertion and from sorted leaves with a stack, a view skips to the field it is
asked for and remembers where each began. `Erasure` deals the chunks of some data to the
validators (`Distribute`) and makes it from any of them again (`Restore`); its library takes the
values of a polynomial.

## 3. The runs

| run | module, configuration | shows |
|---|---|---|
| `chain` | `MCChain` | import: `StateOfCurrentHash`, `PosteriorsAreStored`, `HeadersHaveStates`, `BestIsComplete`; reports: `PackageInOnePlace`, `DependenciesFirst`, `NoEntryWaitsForThePast`, `NeverDropped`, and the refinement of the lifecycle, `ImplementsLifecycle` |
| `progress` | `MCProgress` | liveness: a ticket in the pool reaches every peer that stays (`ReachesPeers`), imports and removals end (`ImportsEnd`, `RemovalsEnd`); only verified tickets of the pool's epoch spread (`OnlyVerifiedSpread`) |
| `data` | `MCData` | large values: `ValuesAvailable`, `CountsAreExact`, `NothingLeaks`; the structures below: `StructuresAreExact`, `CodecIsExact`; the two representations of the state: `StoresAgree` |
| `parts` | `MCParts` | finalizer: `PruningIsExact`, `CommitsThePath`, the refinement `ImplementsFinality`; accumulation: `AccountsAreConsistent`, `NothingMinted`, `RolesMoveByRight`; PVM: `InstructionsAreExact`, `OnlyInstructionsRun`; network: `RegistriesAgree`, `SyncBatchesAttach`; workers: `WorkIsShared`, `RequestsAreServed`; authorship: `BlocksPass`; refinement: `ExportsAreIndexed`, `MachinesGoOn`; host calls: `CallsTellTheTruth`; transition: `VerdictsAreJust`, `ActivityIsTrue`; sessions: `NothingOutlives`, `SubscribersAreTold` |
| `hybrid_removal_failure` | `MCData`, the database alone, one failing removal | **violation** of `FailedRemovalOnlyLeaks` |
| `importer_concurrent` | `MCChain`, `MCImporterConcurrent.cfg`, two imports in flight, no failures | **violation** of `StateOfCurrentHash` |
| `tickets_indices` | `MCProgress`, `MCTicketsIndices.cfg`, three good tickets, two dumps | **violation** of `SeenMeansSent` |
| `work_reports_offenders` | `MCChain`, `MCWorkReportsOffenders.cfg`, 4 blocks | **violation** of `NoGuaranteeOfOffenders` |
| `accumulation_assertions` | `MCAccumulation`, `MCAccumulationGas.cfg` | **violation** of `NoAssertionFails` |
| `announced_before_handshake` | `MCParts`, `MCNetworkHandshake.cfg` | **violation** of `AnnouncedAfterHandshake` |
| `state_root` | `MCData`, `MCStateRoot.cfg` | **violation** of `StateRootIsTrieRoot` |
| `importer_failed_write` | `MCChain`, `MCImporterFailedWrite.cfg`, one import at a time, one failure | **violation** of `RetrievesPosteriors` |

The violations are explained in section 6. Each property of a passing run comes with a
mutation of the model that violates it under the same configuration, so none holds for
want of the interesting case.

**What the deeper properties say.**
- `StateOfCurrentHash`, `PosteriorsAreStored`: what is stored and what the next block reads is posterior, **but for** blocks
  executed after a state could not be written and before another was loaded, and their descendants. Those are the
  violation `RetrievesPosteriors`, the same claim without the exception.
- `AccountsAreConsistent`: footprints are exact and paid for, available preimages are there, an ejected service leaves
  nothing, **but for** the services in `mixed`; section 6 says what happens to them.
- `ActivityIsTrue`: the records equal a tally over the imported blocks themselves, each counted once, **but for** an epoch
  in which a block whose state could not be written stayed counted in memory; a guarantor is one
  that the assignment of its rotation names; an authorizer is spent at most as often as it
  was taken from the queue.
- `VerdictsAreJust`: what changed in the records can be justified from signed statements.
- `BlocksPass`: a block of our own is accepted by the transition and the seal **as long as**
  the validator sets did not change, the state it was made on is still the one read, and the
  data of the epoch is current. Each hypothesis is needed: section 6 tells what happens
  without it.
- `SubscribersAreTold`: what a client heard and what is under way to it is, but for what was
  in the packet of the answer, all the server told; nobody else hears of it.
- `NothingOutlives`: one open node on an open key space, files deleted only under no node,
  and after the shutdown nothing is open and nothing will be.
- `RegistriesAgree`: both registries of peers always name the same connection, and one that has not
  ended. `SyncBatchesAttach`: a batch attaches to a known block, as long as our best block was on the way
  and the peer may send that many.
- `InstructionsAreExact`: every instruction compared with its meaning, memory included.
- `StoresAgree`: objects, entries, caches and views agree after any updates and forks, **but for** the statistics of states
  of objects that share theirs with a block imported later (section 6).

**Bounds and why they are enough.**
- *finalizer*: a chain must exceed `2 * Depth = 4` to settle, so seven blocks give two
  settlements in a row on one branch, or one with two side branches that share a
  prefix; one restart anywhere. `Depth` 2 tells `Depth` from `2 * Depth` and from 1. The
  instances number the blocks in the order of their import: names mean nothing to the code.
- *database* (in `data`): `Depth` 1 settles at the third block; with four blocks, two keys
  and two values a removal queued by finality meets the insertion of the same value by a
  later block and by a fork; one failing write. In `progress`: one value under two keys,
  one failing removal.
- *importer*: four blocks contain the two switches that matter, between siblings and
  back; one import at a time, one failure, and two crashes, because the second one meets a
  database that is itself a remainder.
- *tickets*: tickets of two consecutive epochs and a bad one, three epochs, one peer (peers
  share no state but the pool), two messages in flight (`MaxWire` delays the sender, never
  drops), one dump.
- *reports*: three packages that need one another, a second report of one, a report that asks
  for too much; 2 cores, 6 blocks. The constants keep the relations of the real chain specs:
  `History + GracePeriod <= EpochLength + 1` (8 + 5 <= 12 + 1 in the tiny one, with
  equality; the instance uses 2 + 2 <= 3 + 1), a block's gas below that of all queued
  reports, and slots that can skip more than one phase of the queue (`MaxSkip` 2).
- *accumulation*: three services, of which one is the manager, one has other roles and a
  preimage of any history, and one may be ejected; three host calls, one amount. Where the calls are about
  preimages of other services (`provideFor`), the first service asks for one, and the second may too (`Matched`): requests,
  provisions and forgetting of both meet in one round, in either order of the merge. More calls
  multiply the states and meet the same merges.
- *pvm*: bytes of one bit, so that a register has 8, an address 4 and all operands can be tried;
  eight pages of two bytes; a program for every family of instructions, and branching ones.
- *links*: one peer with two connections and a stream in each direction, no blocks; *sync*: one
  connection, a peer with blocks of slots 0, 1 and 3, our own fork of slot 2, batches of two,
  three streams of ours.
- *pool*: four tasks, one to two workers, a queue that starts a worker at its second task.
  *channels*: one call, two requests in each direction.
- *authorship*: two validators of which one is ours, two epochs of three slots, contests of two.
- *refinement*: gas of 1 to 4 is the number of calls; two items, two exports each, two inner programs.
- *host calls*: registers of 64 values, addresses of 8, two readable and two writable bytes.
- *disputes*: epochs of one slot, three of them, so that votes of the last epoch and of an older
  one occur; a majority of three, a third of one; three reports on two cores.
- *activity*: four validators, two cores, epochs of four slots with two rotations, eight slots, two
  blocks and a failing one out of five bodies.
- *fuzzing*: three messages of one client for each of the three backends, a key space rebuilt at
  every second reset. *rpc*: one client with two requests and one with one, two polls, one new block,
  the database moving during polls.
- *structures*: six keys of three letters with a threshold of one; three ranks of two marks, lists of
  three; a trie of three bits, six keys and two values; 17 hashes (two carries past the fourth
  peak); eleven chunks of which two suffice, for one to three pieces and 2 to 6 or 11 validators; bytes of three bits, so that every length of a natural occurs; *states*: three headers, of which the last begins
  an epoch, so that blocks of one epoch are imported on one another and beside one another; two
  services, a preimage, a storage key, two values that fit a leaf and one that does not, updates that
  touch one service at a time, one cached entry at a time (`MaxDecoded`), which is enough to give out a stale one.

`CHECK_DEADLOCK FALSE` in all configurations: the numbers of blocks, failures,
messages or slots are bounded, so a behaviour ends when they are used up.

## 4. Fairness

- `HybridStates`: weak fairness on the import going on and on the removals. Every
  await there is for a Fjall operation or for `pendingCleanup`; a Fjall promise
  settles, either way, and the event loop runs what waits for it. Success is not
  assumed: failing is one way of going on.
- `TicketDistribution`: weak fairness on handling a message (the port delivers), and
  strong fairness, per peer and ticket, on a round that sends that ticket. The network
  worker repeats `maintainDistribution` forever; strong fairness says that a stream
  that can be opened again and again works some time. Nothing is assumed about
  validation, epochs or connections, and `ReachesPeers` is about tickets and peers
  that stay.
- The other modules state safety only. Several would-be liveness properties are false of the
  code for reasons section 6 gives (a handler that throws is never answered, a pool with no
  minimum of workers may wait forever, a node far behind never gets a batch).

## 5. The proofs

Each `*Proofs` module extends the module it is about. What it proves holds for every value of the constants that
the named assumptions allow: any number of blocks, peers, tickets, reports, messages, failures, restarts. TLC
evaluates the assumptions in the runs, whose root modules extend the components.

| module | theorem | property of a run |
|---|---|---|
| `ImporterProofs` | `TypeCorrect`, `SequentialImport`, `SequentialPosteriors`, `StatesPrecedeHeaders`, `BestSurvives` | `TypeOK`, `StateOfCurrentHash`, `PosteriorsAreStored`, `HeadersHaveStates`, `BestIsComplete` |
| `DummyFinalizerProofs` | `TypeCorrect`, `PruningCorrect`, `PathCommitted`, `RefinesFinality` | `PruningIsExact`, `CommitsThePath`, `ImplementsFinality` |
| `HybridStatesProofs` | `StatesTypeCorrect`, `CountsCorrect`, `LeaksNothing`, `AvailableUntilRemovalFails`, `AvailableWithoutRemovalFailures` | `CountsAreExact`, `NothingLeaks`, `ValuesAvailable` |
| `TicketDistributionProofs` | `TypeCorrect`, `SpreadOnceVerified`, `PooledOnceVerified` | `OnlyVerifiedSpread` |
| `NetworkProofs` | `RegistriesStayInStep`, `ToldSubscribers` | `RegistriesAgree`, `SubscribersAreTold` |
| `FuzzSessionProofs` | `NothingOutlivesTheSession` | `NothingOutlives` |
| `PartsProofs` | `JustVerdicts`, `SharedWork`, `ServedRequests` | `VerdictsAreJust`, `WorkIsShared`, `RequestsAreServed` |
| `WorkReportsProofs` | `ReportsTypeCorrect`, `OnePlaceForAPackage`, `NeedsComeFirst`, `NothingDropped`, `LifecycleImplemented` | `PackageInOnePlace`, `DependenciesFirst`, `NeverDropped`, `ImplementsLifecycle` |

**Importer.** None of the properties is inductive: between two awaits the truth is in the locals of the import.
`SequentialInv` adds what they hold: during the transition the state object is the parent's and, unless a write failed since it was
loaded, reads as the parent's (`ViewIsBackend`), afterwards `held` is the
posterior state of the block, and so are the roots that are still being written (`EntriesArePosterior`). All of it is said of
blocks that are not `misread`: after a failed write it is the exception that the theorems state too. `durable` is included because a crash brings it back. `StateFirstInv`, which needs no
order of imports, says that a state is safe (in `db` and in `durable`) for every header stored anywhere and for every
import that may go on to write its header, and that only states given up are ever pruned. `BestInv` says what each
step of an import has already stored, in which of the two databases, and that the best block of each has its header,
state and root there. The assumptions are `BlockAssumption` (types), `PosteriorAssumption` (executing a block on its
parent's posterior state gives its posterior state) and `WriteAssumption` (writing an update gives a state, whatever
it was computed from, and what the cached entries say is that of some state; nothing is assumed of how a state reads
in which a block was counted, `Counts`). `SequentialImport`, `SequentialPosteriors` and `BestSurvives` have `OneImportAtATime` (at most one
task) as a hypothesis of the theorem; the run `importer_concurrent` shows that it is needed. One lemma per
group of actions; that of the crash uses that every entry that survives comes from `db` or from `durable`
(`LeftoverEntries`).

**DummyFinalizer** (`GenesisAssumption`, `DepthAssumption`). The ancestors of a block are a recursive function of the
tree, of which nothing can be proved by induction here. The way out: a tree that grows at its leaves keeps that function
where it was defined (`TreeGrows`), so the invariant says what the ancestors of the blocks of a chain are, and every
step preserves it. `IInv` has the tree with that function (`IsTree`), the chains as branches above the finalized
block (`ChainsAbove`), no longer than twice the depth (a block makes only the chain it extends longer, which then settles:
`ShortBut`, `RemainingAreShort`), pruned blocks apart from them, and, without a restart, nothing survives but them. `IsTree` also says that no
other function satisfies the equation of `Lineage`; TLC cannot evaluate that conjunct, as it quantifies over all
functions, and checks the rest. The step that settles is worked out once (`Finalizing`): what is left of the chains, and
that `Prunable` is the rest of them. The refinement uses `Finality` as its abstract specification.

**HybridStates** (`ValueAssumption`, `AbsenceAssumption`, `BoundAssumption`, and those of the finalizer). `StatesIInv` stands on
`IInv` of the finalizer and adds four parts, which TLC checked on the instance of `data` before they were proved:
- `Counted`: a state can be loaded for the blocks the finalizer follows and the one being imported, no others; each but
  the finalized one has a delta that *tells* the counts of its leaves from those of its parent's; `finalized` counts the
  leaves of the finalized state, and `pending` is the number of the insertions of all deltas;
- `ImportIsReady`: the delta of the block being imported tells its leaves from those of a block that is followed;
- `DiskHolds`: until a removal fails, what is counted or just flushed is on disk and in no queued batch of removals, and
  before any failure nothing else is on disk but what is queued;
- `Shape`: types, and no empty batch in the queue.

Along the path that finality hands over the deltas telescope (`Commits`): the clamped sums end exactly at the leaves of
the new finalized state. That and `PathCommitted`'s argument make `finalized` right; dead forks give their deltas back
in whatever order they are listed (`Releases`); `HandsOver` says that what either of them stops counting is queued, and nothing
that is counted. A value of a state is counted because the first block on the path to it that has the value inserted it
(`ReferencedIsHeld`). `updateLeafs`, `commitFinalized` and the loop over `markUnused` are recursive functions over a
list; `Recursion` and `UpTo`, proved from the well-foundedness of the numbers, stand in for induction.
`AvailableWithoutRemovalFailures` has `MaxRemovalFailures = 0` as a hypothesis; the run `hybrid_removal_failure` shows that
it is needed, and `AvailableUntilRemovalFails` says the same without it. Restarts are not steps of this module: its states are in memory.

**TicketDistribution** (`TicketAssumption`). `IInv`: what is pooled or under way as a message between the workers
was accepted by the validator (`everVerified`), and pools and messages hold tickets of their one epoch, none twice.
The accidents of the code (late answers, pools cleared by old tickets, changed indices) are all among the steps.

**Network.** `IInv`: types, both registries name the same connection for the same peers, that connection is the peer's and has
not ended, and a connection that is unused or closed is nobody's, so that a name that is used again cannot stand in a registry.

**FuzzSession** (`UnsetAssumption`). `IInv`: `OneOwner` (an open node or key space is the one in the session's field or the one the
request under way holds), `Exclusive` (what a stage of a reset may assume to be closed) and `AnswersLast`. The
shutdown may begin between any two steps of a reset.

**WorkReports** (`ReportAssumption`, `ContextAssumption`, `SpecAssumption`, `NoReportAssumption`). `IInv` is the
types, `PackageInOnePlace`, `NeverDropped`, and four parts:
- `NeedsMet(Packages(accumulated))`: a package that an entry of the queue needs and no longer waits for was accumulated, as
  was all that the node remembers as recently accumulated;
- `Ordered({}, accumulated)`: reports were accumulated after what they need;
- `HistoryKnown`: the recent history has the last blocks without a gap, and a report that was guaranteed is found in it
  for as long as its anchor is;
- `PipelineKnown`: a report on a core, in the queue or accumulated was guaranteed, and those on cores keep to the gas limit.

`HistoryKnown` is what makes uniqueness hold: `verifyWorkPackagesUniqueness` reads the state from before the block, and a report
can be guaranteed again only while its anchor is in the history, where its package is found. `SpecAssumption` is where the
chain's constants come in (`History + GracePeriod <= EpochLength + 1`, the gas of all cores fits a block). The folds
of `pruneQueue` and `enqueueReports` are opened with lemmas on subsequences (`Those`), and the greedy order of
`enqueueReports` by induction over the number of reports still waiting. `MODULE ReportLifecycle` is implemented step by step:
each block moves every report along its stages, with `Stage` as the refinement mapping.

**Disputes** (`DisputesAssumption`). `DisputesInv`: a report is judged in one way, and what is on a core belongs there and was
reported. `VerdictsAreJust` is an action property: it compares the records after a block with what was signed, so most of the proof
is about the checks of one block (`Checked`). Votes that are sorted by index next to one another have different indices
everywhere (`VotersDiffer`, from the least counterexample), so that the number of votes is the number of
validators; a sum that was accepted is one of three (`SumsAreThree`), and each goes with the culprits and faults that
`AreEnough` asks for. What is on a core is found by the report's own core, so a verdict clears that core only.

**WorkerPool** (`PoolAssumption`, `TaskAssumption`). `PoolInv` has five parts about the pool with its ports: a thread is in the
pool once (`ThreadsInOrder`), who listens to an open port gives back the worker the port belongs to (`ListenersInOrder`), who
is free has no task (`FreeInOrder`, until the pool is destroyed and its queue empty), a thread has what its listener waits for or has
answered it (`WorkInOrder`), and a pending task is in one place (`TasksInOrder`). `NoneWaits`, that no task waits for a free
worker, is what `processEntryFromTaskQueue` has to restore: it takes one task only, so the steps before it may leave one
task or one worker too many and no more (`OneWaits`). The lemmas say what each piece of a step makes of any pool and
are then put together as the code calls them. `destroy` closes the ports one by one
(`ClosedUpTo`), so that all of them are closed when the list of workers is emptied.

**Channels** (`ChannelAssumption`: no method has the name of a response's event). `ChannelInv` follows the requests of each method
at each end: those handled, those that wait for the handler and those on their way are numbered in the order they were made,
each group before the next (`LinesOk`), and while the ports are open they are all that was made (`MadeOk`). Whatever has an answer was
handled, wherever the answer is: in a handler, on its way or given (`AnswersOk`); and a request between direct ports has its answer or
its promise is among those that closing rejects (`PromisesOk`). The lemmas `Line...` say what taking, keeping, flushing and losing
messages does to such a line; a step is put together from them for the state its pieces leave.

**Rpc** (`RpcAssumption`: an unsubscription is sent through `unsubscribe`). `RpcInv` says who owns an id: whoever has the answer that
brings it under way, the id just resolved, or the emitter (`Owns`), and that an id one client owns or is told of is nobody else's (`IsAlone`).
Until the emitter is there nothing was heard and nothing asked to end it (`IsEarly`), so what comes too early is the beginning of what was
told: what is missed, heard and under way are always three consecutive parts of it (`Hears`, `IsServed`), for which it matters that a lost
connection loses all that is under way. `Placed` follows the calls: each that awaits its answer is asked, worked at or answered,
and only there. A step concerns one client; `OthersStay` and `OneActs` are why it leaves the others in order. TLC checked `RpcInv` on the
part `rpc` and on a larger instance first.

**Only model-checked.**
- Liveness (`ReachesPeers`, `ImportsEnd`, `RemovalsEnd`): fairness and ENABLED are out of the prover's reach.
- `NoEntryWaitsForThePast` does not hold for all constants: a package accumulated more than an epoch ago can be reported again
  by another report, and be waited for once more. The instance is too short for that, and the code drops
  the memory of it on purpose.
- What rests on recursive operators (`Accumulation`, `Codec`, `Descriptors`, `MountainRange`, `Trie`, `PvmOps`, `PvmMemory`,
  `Pvm`), and what a recursive definition computes for every input.
- `SyncBatchesAttach`, `BlocksPass`, `ExportsAreIndexed`, `MachinesGoOn`, `CallsTellTheTruth`, `ActivityIsTrue`,
  `StoresAgree`: not proved. Most of them are about what is computed from lists of any length (folds, `SelectSeq`, `FlattenSeq`, a
  recursive `Line`), so each would begin with facts about these operators that take an induction over sequences.

## 6. Where code and comments disagree

Found while modelling. The eight violation runs:

1. *A failed removal can take a value that is in use* (`hybrid_removal_failure`).
   `hybrid-states.ts:237` says that it only leaks one. `Promise.all` rejects at the first
   failure and `pendingCleanup` settles while other removals of the batch run. A write
   that comes next inserts a value that one of them deletes afterwards.
2. *Imports are not serialised* (`importer_concurrent`). `currentHash` is documented as
   the block whose posterior state is in `state` (`importer.ts:61`). The worker's
   handler (`workers/importer/main.ts:79`) starts an import while another awaits, which
   switches the state object under the first. Senders that wait for each answer never
   see this.
3. *Indices are not stable within an epoch* (`tickets_indices`).
   `pending-ticket-pool.ts:10` says they are; `replace` for the same epoch reorders the
   pool, and a ticket never sent counts as sent.
4. *Offenders of earlier blocks can guarantee* (`work_reports_offenders`). The reports
   transition gets only the offenders of this block (`chain-stf.ts:292`), while its input is
   documented as all of them (`reports/input.ts:55`). It ends when the epochs have
   rotated the key out of the current set.
5. *An assertion fails in accumulation* (`accumulation_assertions`). The gas of transfers is
   spent by the services of a round but added to the limit only after all that was used is
   subtracted (`accumulate.ts:335`): with a limit nearly used up the difference is negative.
6. *Announcements before the handshake* (`announced_before_handshake`). An error on one
   stream closes the connection; the other streams close locally, which the handlers
   are not told (`stream-manager.ts:152`), and the next connection reuses their ids, so UP 0
   believes that it greeted. `up-0-block-announcement.ts:38` says a handshake comes first.
7. *The state root of a lone first leaf* (`state_root`). `computeStateRoot` puts a zero
   beside the only leaf with a clear first bit (`trie.ts:70`) instead of the other
   leaves. A real state has several such entries.
8. *What comes after a failed write is not posterior* (`importer_failed_write`). The transition counts the block in
   the decoded statistics that the state object caches (`transition/statistics.ts:203`). When `updateAndSetState`
   then fails, the importer returns (`importer.ts:208`) and leaves both the cache and `currentHash`: the next block on the
   same parent, the same one tried again too, starts from statistics that count the refused block, and its state is stored
   with a wrong root, so that its children are rejected. `jam/database/states.ts:39` promises the posterior
   state. It ends when another state is loaded into the object, or the process restarts.

Smaller ones, met on the way and not run:

*Import, finality, values.*
- `finality.ts:96` describes hysteresis at `2 * depth`; a chain must be longer than that, and
  the settlement takes `depth + 1` blocks off it.
- `jam/database/blocks.ts:20` says insert *and flush*; `FjallBlocks.insertBlock` does not
  persist (the importer does, later, with `setBestHeaderHash`).
- A failing write of the header or of the root rejects the import while the other one goes on
  (`Promise.all`, `importer.ts:227`) and may complete at any later time.
- A crash between the header and the post-state root leaves a block that is reported as
  already imported and whose children are rejected. `HeadersHaveStates` is about
  the state, which is there; the root is not.
- Forks that were stored before a restart are orphans for the new finalizer and are
  never pruned.
- `HybridStates.close` waits for `pendingCleanup`, and a failed batch leaves removals running
  under the closed session.

*Tickets and authorship.*
- `VerifiedTicketPool.add` clears a newer epoch when a late ticket of an older one arrives.
- The index of our validator comes from the set before the transition; `isEpochStart` asks for
  phase zero, so an epoch entered later gets the wrong entropy and ring; the validator of
  tickets uses the old ring for tickets of the next epoch; the data of the epoch stays old when a block of
  the new epoch is imported before the loop wakes up (`epoch-tracker.ts:12` says otherwise).

*Transition.*
- `jam/state/assurances.ts:28` calls `timeout` the slot at which the report becomes
  obsolete; `reports.ts` stores the slot of the guarantee and `assurances.ts:142` adds
  the grace period.
- A fault that says its vote was not valid is not compared with the verdict (`disputes.ts:126`), so
  a validator that voted honestly can be punished. `checkOffendersMatch` compares a set's size with a
  list's length. The previous epoch is the one before the last block's, not before the block's.
- Two reports of a block by the
  same guarantor count once, though the record is called the number of reports guaranteed (`jam/state/statistics.ts:47`).
  The queue of authorizers read is the one before the block. Guarantors of the previous epoch
  get no credit unless their key is also current (`statistics.ts:237`), and a guarantee
  signed in an epoch that gets no block is refused.
- A service that forgets a preimage it had asked for while a service of a higher id provides it in the same round gets
  the blob and its history back, with its footprint reduced: `mergePreimages` appends the provision to the removal
  (`accumulation-result-merge-utils.ts:232`). What a service provides for another is noted for itself too until the merge
  (`accumulate-externalities.ts:683`): when it forgets the preimage after that, it keeps a history that it never paid for.
  Both are what `AccountsAreConsistent` excepts (`mixed`).
- `mergePrivilegedServices` loses a handover made in the same round; `mergePreimages` drops what a lower id provided for
  a service with updates of its own in the round; duplicate created ids are never found
  (`accumulate.ts:553`); an
  account that is created, paid and provided for in one call sequence can get a negative count
  of storage (`state-update.ts:342`). `Preimages.integrate` works on the prior state.
- `jam/database/states.ts:122` says that every state is a full, independent copy. `InMemoryState.copyFrom` hands on the
  statistics object (`in-memory-state.ts:247`), which the transition changes in place, and the recent blocks, in the last of which
  it sets the root: importing a block changes the stored state of its parent, of the blocks built on it before and of all others
  that come from them. `StoresAgree` excepts the statistics of such states (`recounted`).
- `InMemoryState.updateStorage` asserts that removed keys exist; `getEntries` of a service
  reports the first length of a hash only; an update refused halfway leaves a partly changed state,
  and the serialized store refuses nothing; a view taken before an update keeps the old backend
  and cache.

*PVM, host calls, refinement.*
- A jump table's offsets wrap in a `Uint8Array` at gaps of 256 (`mask.ts:40`), which its comment
  rules out; `OnlyInstructionsRun` is stated for programs below that limit.
- `safeAllocUint8Array` shortens lengths beyond about two gigabytes silently; a transfer takes its gas
  after it is noted; the second run of zero pages behind the arguments fails an assertion for arguments
  above some eight megabytes.
- `historical_lookup` of "current" looks up service 2^32 - 1, and an id of more than 32 bits means the
  item's own service; an inner machine out of gas executes one instruction at each later invoke and
  reports out of gas again; exports of a program that ran out of gas or panicked are kept when their
  count matches, because the count is looked at before the status; `pages`, `peek` and `poke` are not
  implemented and refuse the whole refinement; roots and lengths in the report are zero.

*Network and workers.*
- A dialed connection replaces an incoming one, whose late disconnect then removes the live one from both
  registries. A node more than 128 slots behind (`MAX_BLOCK_SEQUENCE`), or on a fork whose last block is late, never gets a
  batch that attaches. Entries of finished CE-128 streams are never removed; a local close never
  rejects a pending request; `maintainSync` can throw out of its loop; a `false` of `bufferAndSend` is
  ignored.
- A worker whose start fails leaves `isWorkerInitializing` set; without a minimum of workers, tasks up to
  the threshold wait forever; `destroy` leaves promises unsettled; the queue serves the newest task
  first. `Port.onClose` is documented as "via error or not" (`workers/api/port.ts:25`), and `ThreadPort` listens
  to errors only; a handler that throws answers nothing.

*Data.*
- The skipper of a dictionary skips all keys and then all values (`core/codec/descriptors.ts:367`), but they are written in
  turns: with two entries of variable length it ends in a wrong place, though `core/codec/skip.ts:5` says that it skips all bytes
  of the value. `CodecIsExact` excepts the skipping of such dictionaries (`HasLooseDictionary`).
- Blob dictionaries with keys of different lengths can lose an update (hashes have one length). Values that
  differ in padding only leave a stale leaf among the nodes of the trie. `encoded()` of a view
  of an empty sequence returns no bytes; the size hint of `bitVecFixLen` is rounded down; naturals in a longer form
  than needed are accepted. `shardsToChunks` computes the size of a chunk from all shards, though some chunks
  are dealt twice (`erasure-coding.ts:374`): when the surplus comes to a byte per chunk the shards are cut in the wrong places
  (six validators have three chunks too many, which is enough from 171 pieces on); `DataIsRestored` is stated for less.

*Fuzzing and RPC.*
- Messages in one chunk, or of two clients, are handled at the same time (`pause()` stops later chunks
  only): two resets overlap and the first node is orphaned. A reset during the shutdown answers a zero
  root as a success; nothing asks for a handshake first; `close()` does not wait for an import in flight.
- `finalizedBlock` is the best block (a todo). A notification in the packet of the answer that
  brought the id is lost until the value changes again. Missing states and services are answered with
  an error by some methods and with null by others.

## 7. What is not modelled

Within the modelled parts:
- *Importer*: the cache that `prepareForNextEpoch` fills, `initGenesisFromAncestry`,
  `pruneBlocks` (off in the node), closing. A rejected block changes nothing in the model, as
  in the code.
- *HybridStates*: sessions shared by several instances and `close()`; the key spaces of the fuzz target
  are in `FuzzSession`.
- *TicketDistribution*: batches of several tickets, the VRF proof itself (`Valid` says
  which tickets are good).
- *WorkReports*: state roots and lookup anchors, signatures; what accumulation does to services is in
  `Accumulation`, authorizers and guarantors are in `Activity`.
- *Disputes, Activity*: bytes of signatures; shuffles are made from constant randoms.
- *Accumulation*: yields, lookups, numbers in the statistics. *Refinement*: erasure and segment
  roots, which the code leaves zero. *PVM*: decoding of program blobs, basic block gas costs, the debugger.
- *Network*: certificates, framing, the bounded buffer of a stream, CE 129 to CE 135 but for tickets.
- *Data*: malformed input, contexts, textual and JSON codecs; `HashSet`, `MultiMap`, `ArrayView` and other thin
  wrappers; the parts of the state that are no services are opaque values.
- *Fuzzing*: framing, messages handled at the same time. *RPC*: batches, requests without an id, shapes of
  parameters.

Components without a module: the worker around the importer and the node's wiring and shutdown (planned); the
root database (its users are modelled); JSON forms, configuration, cryptography and hashing (external: a hash
is what it was computed from); the WebAssembly interpreter's bindings; utilities, tools, benchmarks.

## 8. The plan

Done, in the order of importance: finality and value storage, block import with crashes, ticket distribution,
work reports; accumulation, the PVM, networking and sync, workers and channels, Safrole and authorship; the data
structures and the two forms of the state; refinement, host calls, disputes, guarantors and statistics, fuzzing
and RPC. Proved: import, finality with its refinement, tickets, the registries of the network, sessions, work
reports with the refinement of their lifecycle, the reference counts of large values, the verdicts of disputes,
the worker pool and its channels, the rpc subscriptions.

What is left of the system: the importer worker and the node's shutdown (closing with an import in flight),
CE 129 to CE 135, the decoding of programs.

What is left to prove: `SyncBatchesAttach` first. Its inductive invariant speaks of what is left of a list once the unknown
is taken out (`SelectSeq`, `Line`), so it rests on lemmas about those operators for lists of any length, which need
inductions over sequences.

## 9. Running it

    tlc -workers 2 -config MCImporterConcurrent.cfg MCChain   # a run: its .cfg and module
    tlapm ImporterProofs.tla                                     # the proofs

`PROJECT.json` lists which configuration belongs to which module. The four passing runs take one to four minutes
each, a violation is found in seconds, and the proofs from nothing take some fifteen minutes, most of them
in `WorkReportsProofs`, `HybridStatesProofs` and `DummyFinalizerProofs`.
