------------------------------- MODULE Activity -------------------------------
(***************************************************************************)
(* Who may report work, and what the state remembers of it: the guarantors *)
(* of a core (packages/jam/transition/reports), the activity of            *)
(* validators, cores and services, and the authorizers a core may still    *)
(* use (statistics.ts and authorization.ts of packages/jam/transition).    *)
(*                                                                         *)
(* The statistics of the last state are decoded once and kept; the         *)
(* transition of a block of the same epoch changes them in place, before   *)
(* the new state is written.                                               *)
(***************************************************************************)
EXTENDS Integers, Sequences, FiniteSets, SequencesExt, FiniteSetsExt, Functions

CONSTANTS
    Bodies,            \* the blocks that may be imported
    KeysOf,            \* KeysOf[k][v]: key of validator v of the k-th set of validators
    Randoms,           \* Randoms[k]: the numbers that follow from the entropy that comes with it
    Cores,             \* 0, 1, ...
    RotationPeriod, MaxItems, MaxDependencies, MaxOutput,
    InitialPools, InitialQueues,  \* authorizers of each core
    EpochLength, QueueSize, MaxPool, SegmentSize, MaxSlot, MaxBlocks, MaxLost

VARIABLES
    slot,       \* of the last block
    sets,       \* the current and the previous set of validators
    stored,     \* statistics of the last state in the database
    cached,     \* the decoded object the transition works on
    pools, queues,
    imported,   \* history: the blocks whose state was stored, see Imported
    lost,       \* history: blocks counted in the cached object alone
    miscounted, \* history: epochs in which such a count was stored with a later block
    spent       \* history: authorizers used and pushed so far, by core

activityVars == <<slot, sets, stored, cached, pools, queues, imported, lost, miscounted, spent>>

Epoch(s) == s \div EpochLength
Validator == DOMAIN KeysOf[0]
CeilDiv(a, b) == (a + b - 1) \div b
Total(f) == FoldFunction(LAMBDA a, b : a + b, 0, f)

------------------------------------------------------------------------------
(* The guarantors.  A guarantee is made `age` slots before the block.      *)

Tip == [slot |-> slot, sets |-> sets]
Rotation(s) == s \div RotationPeriod

\* However many epochs have passed, the set that was next is the current one.
SetsAt(tip, s) ==
    IF Epoch(s) = Epoch(tip.slot) THEN tip.sets ELSE [current |-> tip.sets.current + 1, previous |-> tip.sets.current]

\* fisherYatesShuffle: what is taken is replaced by the last one left.
Shuffled(cores, randoms) ==
    LET take(all, r) ==
            LET j == (r % Len(all.left)) + 1
            IN  [taken |-> Append(all.taken, all.left[j]),
                 left |-> Front([i \in DOMAIN all.left |-> IF i = j THEN Last(all.left) ELSE all.left[i]])]
    IN  FoldLeft(take, [taken |-> <<>>, left |-> cores], randoms).taken

\* permute: the cores of the validators of a set at a slot.
CoreAssignment(k, s) ==
    LET initial == [i \in 1..Cardinality(Validator) |-> ((i - 1) * Cardinality(Cores)) \div Cardinality(Validator)]
        shuffled == Shuffled(initial, Randoms[k])
    IN  [v \in Validator |-> (shuffled[v + 1] + Rotation(s % EpochLength)) % Cardinality(Cores)]

\* getGuarantorAssignment: one period before the block is in the rotation of
\* the guarantee, and may be in the epoch before.
GuarantorAssignment(tip, s, g) ==
    LET at == IF Rotation(s) > Rotation(g) THEN s - RotationPeriod ELSE s
        known == SetsAt(tip, s)
        k == IF Epoch(at) # Epoch(s) THEN known.previous ELSE known.current
        assigned == CoreAssignment(k, at)
    IN  [v \in Validator |-> [core |-> assigned[v], key |-> KeysOf[k][v]]]

IsOfThisRotationOrTheLast(s, g) == g <= s /\ g >= Max({0, Rotation(s) - 1}) * RotationPeriod

AreVerifiedCredentials(tip, s, g) ==
    /\ Len(g.signers) \in 2..3
    /\ IsOfThisRotationOrTheLast(s, s - g.age)
    /\ \A i \in 2..Len(g.signers) : g.signers[i - 1] < g.signers[i]
    /\ LET assigned == GuarantorAssignment(tip, s, s - g.age)
       IN  \A i \in DOMAIN g.signers : g.signers[i] \in DOMAIN assigned /\ assigned[g.signers[i]].core = g.core

\* Somebody who signed two reports of a block is one reporter.
Reporters(tip, s, body) ==
    UNION {LET g == body.guarantees[i]
               assigned == GuarantorAssignment(tip, s, s - g.age)
           IN  {assigned[v].key : v \in ToSet(g.signers)} : i \in DOMAIN body.guarantees}

AreInOrder(guarantees) ==
    /\ \A i \in DOMAIN guarantees : guarantees[i].core \in Cores
    /\ \A i \in 2..Len(guarantees) : guarantees[i - 1].core < guarantees[i].core

\* A result without output failed.
IsBasic(g) ==
    /\ Len(g.results) \in 1..MaxItems
    /\ g.dependencies <= MaxDependencies
    /\ g.output + FoldSeq(LAMBDA r, n : r.output + n, 0, g.results) <= MaxOutput

------------------------------------------------------------------------------
(* The records.                                                            *)

NoValidatorStatistics == [blocks |-> 0, tickets |-> 0, preImages |-> 0, preImagesSize |-> 0, guarantees |-> 0, assurances |-> 0]
NoCoreStatistics == [load |-> 0, popularity |-> 0, imports |-> 0, exports |-> 0, size |-> 0, gasUsed |-> 0]
EmptyStatistics ==
    [current |-> [v \in Validator |-> NoValidatorStatistics], previous |-> [v \in Validator |-> NoValidatorStatistics],
     cores |-> [c \in Cores |-> NoCoreStatistics], services |-> <<>>]

\* Of the work results: gas, imported and exported segments.
RefineScore(results) ==
    LET sum(Of(_)) == FoldSeq(LAMBDA r, n : Of(r) + n, 0, results)
    IN  [gasUsed |-> sum(LAMBDA r : r.gas), imports |-> sum(LAMBDA r : r.imports), exports |-> sum(LAMBDA r : r.exports)]

\* A package that is available takes its length and its exports, with a
\* segment of proofs for every 64 of them.
DAScoreCore(report) == report.length + SegmentSize * CeilDiv(report.exported * 65, 64)

SizeOf(preimages) == FoldSeq(LAMBDA p, n : p.size + n, 0, preimages)

ValidatorsAfter(current, body, s) ==
    [v \in Validator |->
        LET own == v = body.author
            ours == KeysOf[SetsAt(Tip, s).current] IN
        [blocks |-> current[v].blocks + (IF own THEN 1 ELSE 0),
         tickets |-> current[v].tickets + (IF own THEN body.tickets ELSE 0),
         preImages |-> current[v].preImages + (IF own THEN Len(body.preimages) ELSE 0),
         preImagesSize |-> current[v].preImagesSize + (IF own THEN SizeOf(body.preimages) ELSE 0),
         guarantees |-> current[v].guarantees + (IF ours[v] \in Reporters(Tip, s, body) THEN 1 ELSE 0),
         assurances |-> current[v].assurances + (IF v \in DOMAIN body.assurances THEN 1 ELSE 0)]]

\* The first guarantee and the first available report of a core.
CoresAfter(body) ==
    [c \in Cores |->
        LET reports == SelectSeq(body.guarantees, LAMBDA g : g.core = c)
            available == SelectSeq(body.available, LAMBDA r : r.core = c)
            score == RefineScore(IF reports = <<>> THEN <<>> ELSE Head(reports).results)
        IN  [load |-> IF available = <<>> THEN 0 ELSE DAScoreCore(Head(available)),
             popularity |-> Cardinality({v \in DOMAIN body.assurances : c \in body.assurances[v]}),
             imports |-> score.imports, exports |-> score.exports, gasUsed |-> score.gasUsed,
             size |-> IF reports = <<>> THEN 0 ELSE Head(reports).length]]

AllResults(body) == FlattenSeq([i \in DOMAIN body.guarantees |-> body.guarantees[i].results])

CollectedServiceIds(body) ==
    {body.preimages[i].to : i \in DOMAIN body.preimages}
    \cup {AllResults(body)[i].service : i \in DOMAIN AllResults(body)} \cup DOMAIN body.accumulated

ServicesAfter(body) ==
    [id \in CollectedServiceIds(body) |->
        LET results == SelectSeq(AllResults(body), LAMBDA r : r.service = id)
            provided == SelectSeq(body.preimages, LAMBDA p : p.to = id)
            done == IF id \in DOMAIN body.accumulated THEN body.accumulated[id] ELSE [count |-> 0, gas |-> 0]
        IN  [refined |-> Len(results), score |-> RefineScore(results),
             provided |-> Len(provided), providedSize |-> SizeOf(provided), accumulated |-> done]]

------------------------------------------------------------------------------
(* A block.                                                                *)

\* A plausible bug: a new epoch forgets the last one.
StatisticsAnew(s) ==
    IF Epoch(s) = Epoch(slot) THEN cached ELSE [cached EXCEPT !.current = [v \in Validator |-> NoValidatorStatistics]]

\* getStatistics: of the same epoch, what is cached itself.
StatisticsFor(s) ==
    IF Epoch(s) = Epoch(slot) THEN cached
    ELSE [cached EXCEPT !.current = [v \in Validator |-> NoValidatorStatistics], !.previous = cached.current]

\* Statistics.transition
StatisticsAfter(s, body) ==
    [StatisticsFor(s) EXCEPT !.current = ValidatorsAfter(@, body, s), !.cores = CoresAfter(body), !.services = ServicesAfter(body)]

\* What the transition leaves in the cached object: a new epoch has records of
\* its own, cores and services are always those of the object.
CachedAfter(s, body) ==
    IF Epoch(s) = Epoch(slot) THEN StatisticsAfter(s, body)
    ELSE [cached EXCEPT !.cores = CoresAfter(body), !.services = ServicesAfter(body)]

\* getUsedAuthorizerHashes
Used(body, c) == {body.guarantees[i].authorizer : i \in {i \in DOMAIN body.guarantees : body.guarantees[i].core = c}}

\* Only the first occurrence of a used authorizer goes.
WithoutUsed(pool, used) ==
    LET first == {i \in DOMAIN pool : pool[i] \in used /\ \A j \in 1..(i - 1) : pool[j] # pool[i]}
        kept == SetToSortSeq(DOMAIN pool \ first, <)
    IN  [i \in DOMAIN kept |-> pool[kept[i]]]

\* The authorizer of the slot is that of the queue before the block; what is
\* too much leaves from the front.
PoolAfter(s, c, body) ==
    LET filled == Append(WithoutUsed(pools[c], Used(body, c)), queues[c][(s % QueueSize) + 1])
    IN  SubSeq(filled, Max({1, Len(filled) - MaxPool + 1}), Len(filled))

IsAuthorized(g) == g.authorizer \in ToSet(pools[g.core])

\* The checks of Reports.transition in their order.
IsAcceptable(s, body) ==
    /\ AreInOrder(body.guarantees)
    /\ \A i \in DOMAIN body.guarantees : LET g == body.guarantees[i] IN
        IsBasic(g) /\ AreVerifiedCredentials(Tip, s, g) /\ IsAuthorized(g)

\* A block that was imported, and who reported in it.
Imported(s, body) == [slot |-> s, sets |-> SetsAt(Tip, s), body |-> body, reporters |-> Reporters(Tip, s, body)]

ActivityInit ==
    /\ slot = 0 /\ sets = [current |-> 1, previous |-> 0]
    /\ stored = EmptyStatistics /\ cached = stored
    /\ pools = InitialPools /\ queues = InitialQueues
    /\ imported = <<>> /\ lost = 0 /\ miscounted = {}
    /\ spent = [c \in Cores |-> [used |-> <<>>, pushed |-> InitialPools[c]]]

Import(s, body) ==
    /\ IsAcceptable(s, body)
    /\ slot' = s /\ sets' = SetsAt(Tip, s)
    /\ stored' = StatisticsAfter(s, body) /\ cached' = stored'
    /\ pools' = [c \in Cores |-> PoolAfter(s, c, body)]
    /\ queues' = body.queues @@ queues
    /\ imported' = Append(imported, Imported(s, body)) /\ lost' = 0
    /\ miscounted' = IF lost = 0 THEN miscounted ELSE miscounted \cup {Epoch(slot)}
    /\ spent' = [c \in Cores |->
                    [used |-> spent[c].used \o SetToSeq(Used(body, c)),
                     pushed |-> Append(spent[c].pushed, queues[c][(s % QueueSize) + 1])]]

\* The new state cannot be written: the block is refused after its transition.
WriteFails(s, body) ==
    /\ IsAcceptable(s, body)
    /\ lost < MaxLost
    /\ cached' = CachedAfter(s, body)
    /\ lost' = IF Epoch(s) = Epoch(slot) THEN lost + 1 ELSE lost
    /\ UNCHANGED <<slot, sets, stored, pools, queues, imported, miscounted, spent>>

\* A restart, or a block of another branch in between: the state is read anew.
UpdateBackend ==
    /\ cached # stored
    /\ cached' = stored /\ lost' = 0
    /\ UNCHANGED <<slot, sets, stored, pools, queues, imported, miscounted, spent>>

ActivityNext ==
    \/ \E s \in (slot + 1)..MaxSlot, body \in Bodies : Len(imported) < MaxBlocks /\ Import(s, body)
    \/ \E s \in (slot + 1)..MaxSlot, body \in Bodies : WriteFails(s, body)
    \/ UpdateBackend

------------------------------------------------------------------------------
(* Properties.                                                             *)

\* What the blocks of an epoch add up to, counted from the blocks.
Tally(blocks, e, v) ==
    LET all == SelectSeq(blocks, LAMBDA b : Epoch(b.slot) = e)
        count(Is(_)) == Len(SelectSeq(all, Is))
        own == SelectSeq(all, LAMBDA b : b.body.author = v)
    IN  [blocks |-> Len(own),
         tickets |-> FoldSeq(LAMBDA b, n : b.body.tickets + n, 0, own),
         preImages |-> FoldSeq(LAMBDA b, n : Len(b.body.preimages) + n, 0, own),
         preImagesSize |-> FoldSeq(LAMBDA b, n : SizeOf(b.body.preimages) + n, 0, own),
         guarantees |-> count(LAMBDA b : KeysOf[b.sets.current][v] \in b.reporters),
         assurances |-> count(LAMBDA b : v \in DOMAIN b.body.assurances)]

Occurrences(a, s) == Cardinality({i \in DOMAIN s : s[i] = a})

\* The records of the validators are what the imported blocks of this epoch,
\* and of the one before the last change of epochs, add up to, each counted
\* once (state/statistics.ts:39): those that are stored, and those in memory
\* that the next block starts from.  A block whose state could not be written
\* is not counted in any of them, unless it was counted in memory and the next
\* block was imported before the state was read anew (transition/statistics.ts
\* 203-249, serialized-state.ts 110-122): only the records of such an epoch may
\* be wrong.  Guarantees are told by block: one for every block in which the
\* validator guaranteed.  Cores and services tell the last block alone and
\* agree on the gas of its reports.
ActivityIsTallied ==
    LET at(e) == [v \in Validator |-> Tally(imported, e, v)]
        earlier == ({0} \cup {Epoch(imported[i].slot) : i \in DOMAIN imported}) \ {Epoch(slot)}
        gasOf(records) == Total([x \in DOMAIN records |-> records[x]])
    IN  imported # <<>> =>
        /\ Epoch(slot) \notin miscounted =>
            /\ stored.current = at(Epoch(slot))
            /\ lost = 0 => cached.current = at(Epoch(slot))
        /\ earlier = {} => stored.previous = [v \in Validator |-> NoValidatorStatistics]
        /\ earlier # {} /\ Max(earlier) \notin miscounted => stored.previous = at(Max(earlier))
        /\ gasOf([c \in Cores |-> stored.cores[c].gasUsed]) = gasOf([id \in DOMAIN stored.services |-> stored.services[id].score.gasUsed])
        /\ \A id \in DOMAIN stored.services :
            stored.services[id].refined + stored.services[id].provided + stored.services[id].accumulated.count > 0

\* An authorizer is used at most as often as it was put into the pool, and is
\* in the pool at most as often as it is left; whatever is put there comes
\* from the queue, one in a block, and a pool is never too long
\* (authorization.ts:58).
AuthorizersAreSpent ==
    \A c \in Cores :
        /\ Len(pools[c]) <= MaxPool
        /\ \A a \in ToSet(spent[c].pushed) \cup ToSet(pools[c]) \cup ToSet(spent[c].used) :
            Occurrences(a, pools[c]) + Occurrences(a, spent[c].used) <= Occurrences(a, spent[c].pushed)
        /\ pools[c] # <<>> /\ slot > 0 => Last(pools[c]) = Last(spent[c].pushed)

\* Who signs at a slot, with the state of that time, is who a later block of
\* this rotation or the next takes for the guarantors of that slot, over the
\* change of an epoch and over slots without blocks (reports.ts:241): unless
\* there is no block in all of the epoch of the signatures.
AssignmentsLast ==
    \A g \in 0..MaxSlot, s \in (slot + 1)..MaxSlot :
        LET tips == <<[slot |-> 0, sets |-> [current |-> 1, previous |-> 0]]>> \o imported
            seen == tips[Max({i \in DOMAIN tips : tips[i].slot <= g})]
        IN  IsOfThisRotationOrTheLast(s, g) /\ Epoch(g) \in {Epoch(s)} \cup {Epoch(tips[i].slot) : i \in DOMAIN tips}
            => GuarantorAssignment(Tip, s, g) = GuarantorAssignment(seen, g, g)

ActivityIsTrue == ActivityIsTallied /\ AuthorizersAreSpent /\ AssignmentsLast
=============================================================================
