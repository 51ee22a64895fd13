----------------------------- MODULE Accumulation -----------------------------
(***************************************************************************)
(* The accumulation of a block (transition/accumulate/accumulate.ts): in   *)
(* rounds, every service that has work results, transfers or the privilege *)
(* to run each block is executed on a copy of what the earlier rounds left *)
(* and makes host calls (transition/externalities and jam-host-calls), the *)
(* copies are merged, and the transfers of a round start the next one.     *)
(*                                                                         *)
(* The program of a service is any sequence of host calls: it may halt or  *)
(* panic (run out of gas, fault) at any point.  The programs of a block use *)
(* all gas they are given (those that "burn") or, in this model, none.     *)
(* A refused host call only answers with a code and is no step here.  The  *)
(* copies share nothing, so running the services of a round one by one     *)
(* gives the results of running them in parallel.                          *)
(***************************************************************************)
EXTENDS PartialState, FiniteSets, Functions

CONSTANTS
    Initial,         \* states before the block: [accounts, privileges]
    Reports,         \* work reports to accumulate: sequences of [service, gas]
    GasLimit,        \* getGasLimit
    AutoGas,         \* gas of the services that accumulate in every block
    MinPublic,       \* MIN_PUBLIC_SERVICE_INDEX
    IdSpan,          \* size of the range of public ids
    Bump,            \* step from a new id to the next candidate, 42
    Candidate,       \* Candidate[s]: generateNextServiceId
    Expunge,         \* chainSpec.preimageExpungePeriod
    MaxBalance,      \* 2^64 - 1
    TransferMinGas,  \* onTransferMinGas of every service
    Programs,        \* sets of host calls: a block has programs with calls of one of them
    Amount,          \* amounts transferred
    Gas,             \* gas given to a transfer
    Code,            \* code hashes asked for by upgrade
    Assignee,        \* assigners asked for by assign
    Value,           \* lengths of values written
    Gratis,          \* gratis storage asked for
    Roles,           \* privileges asked for by bless
    MaxCalls         \* bound: host calls that change something, in a block

VARIABLES
    state,        \* the accounts
    privileges,   \* privilegedServices of the state
    phase,        \* "extrinsic", "rounds", "round", "done", "invalid" or "threw"
    integrated,   \* preimages of the extrinsic
    reports,      \* reports not accumulated yet
    gasLimit,     \* gas left for the rounds to come
    transfers,    \* transfers that start the round
    auto,         \* services that accumulate without work, first round only
    in,           \* update the earlier rounds left
    todo,         \* services of the round still to run, by id
    order,        \* all services of the round, by id
    gasOf,        \* what each may use
    results,      \* results of the services that ran
    accumulated,  \* services in the statistics
    mixed,        \* history: services whose preimages others' provisions got mixed up with
    current,      \* service running, or None
    x,            \* its update
    checkpoint,   \* the update to return to when it panics
    nextId,       \* next id of a new service
    calls,        \* host calls made
    program       \* host calls the programs of the block make

roundVars == <<reports, gasLimit, transfers, auto, in, todo, order, gasOf, results, accumulated, mixed>>
blockVars == <<state, privileges, phase, integrated, program>>
runVars == <<current, x, checkpoint, nextId, calls>>
vars == <<blockVars, roundVars, runVars>>

Info(s) == GetServiceInfo(state, x, s)
Own == Info(current)

\* getNextAvailableServiceId
RECURSIVE NextAvailable(_, _)
NextAvailable(update, id) ==
    IF GetServiceInfo(state, update, id) = None THEN id
    ELSE NextAvailable(update, ((id - MinPublic + 1 + IdSpan) % IdSpan) + MinPublic)

\* bumpServiceId
BumpServiceId(id) == MinPublic + ((id - MinPublic + Bump + IdSpan) % IdSpan)

Init ==
    /\ \E s \in Initial : state = s.accounts /\ privileges = s.privileges
    /\ phase = "extrinsic" /\ integrated = [s \in Service |-> <<>>]
    /\ reports \in Reports /\ gasLimit = GasLimit /\ transfers = <<>>
    /\ auto = privileges.auto
    /\ in = EmptyUpdate /\ todo = <<>> /\ order = <<>> /\ gasOf = <<>> /\ results = <<>>
    /\ accumulated = {} /\ mixed = {}
    /\ current = None /\ x = EmptyUpdate /\ checkpoint = EmptyUpdate /\ nextId = None /\ calls = 0
    /\ program \in Programs

\* Preimages.integrate: against the state before the block.
IntegratePreimages ==
    /\ phase = "extrinsic"
    /\ \E wanted \in SUBSET {<<s, h>> \in Service \X Hash :
                               /\ state[s].info # None /\ h \notin state[s].blobs
                               /\ h \in DOMAIN state[s].lookup /\ state[s].lookup[h] = <<>>} :
          integrated' = [s \in Service |->
              SetToSeq({[kind |-> "provide", hash |-> w[2], for |-> s] :
                          w \in {v \in wanted : v[1] = s}})]
    /\ phase' = "rounds"
    /\ UNCHANGED <<state, privileges, program, roundVars, runVars>>

-----------------------------------------------------------------------------
(* Rounds.                                                                 *)

SumOf(seq, f(_)) == FoldLeft(LAMBDA sum, e : sum + f(e), 0, seq)
GasAsked(seq) == LET gas(e) == e.gas IN SumOf(seq, gas)

\* findReportCutoffIndex
Cutoff == Max({i \in 0 .. Len(reports) : GasAsked(SubSeq(reports, 1, i)) <= gasLimit})

TransfersTo(s) == LET isTo(t) == t.destination = s IN SelectSeq(transfers, isTo)
ReportsOf(seq, s) == LET isOf(r) == r.service = s IN SelectSeq(seq, isOf)

\* AccumulateData: who accumulates, and the gas everybody is given.
ServiceIds(batch) ==
    {batch[i].service : i \in DOMAIN batch} \cup auto \cup {transfers[i].destination : i \in DOMAIN transfers}
GasLimitOf(batch, s) ==
    GasAsked(ReportsOf(batch, s)) + GasAsked(TransfersTo(s)) + (IF s \in auto THEN AutoGas ELSE 0)

\* The first half of accumulateSequentially.
BeginRound ==
    LET batch == SubSeq(reports, 1, Cutoff)
        services == ServiceIds(batch)
    IN  /\ phase = "rounds" /\ services # {}
        /\ order' = SetToSortSeq(services, LAMBDA a, b : a < b)
        /\ todo' = order'
        /\ gasOf' = [s \in services |-> GasLimitOf(batch, s)]
        /\ results' = <<>> /\ phase' = "round"
        /\ UNCHANGED <<state, privileges, integrated, program, runVars, reports, gasLimit, transfers, auto,
                       in, accumulated, mixed>>

Incoming(s) == LET amount(t) == t.amount IN SumOf(TransfersTo(s), amount)

\* The update of s with the balance its transfers bring.
Credited(s) ==
    LET info == GetServiceInfo(state, in, s)
    IN  IF info = None THEN in
        ELSE UpdateServiceInfo(in, s, [info EXCEPT !.balance = @ + Incoming(s)])

Overflows(s) ==
    LET info == GetServiceInfo(state, in, s)
    IN  info # None /\ info.balance + Incoming(s) > MaxBalance

HasCode(s) ==
    LET info == GetServiceInfo(state, in, s)
    IN  info # None /\ info.code \in Hash /\ GetPreimage(state, in, s, info.code)

\* accumulateSingleService: it cannot run.  The transfers are kept, unless
\* they overflow the balance.
CannotAccumulate ==
    /\ phase = "round" /\ current = None /\ todo # <<>>
    /\ LET s == Head(todo)
       IN  /\ Overflows(s) \/ ~HasCode(s)
           /\ results' = (s :> [update |-> IF Overflows(s) THEN in ELSE Credited(s), gas |-> 0])
                            @@ results
    /\ todo' = Tail(todo)
    /\ UNCHANGED <<blockVars, runVars, reports, gasLimit, transfers, auto, in, order, gasOf,
                   accumulated, mixed>>

\* accumulateSingleService and pvmAccumulateInvocation up to the run.
Accumulate ==
    /\ phase = "round" /\ current = None /\ todo # <<>>
    /\ LET s == Head(todo)
       IN  /\ ~Overflows(s) /\ HasCode(s)
           /\ current' = s
           /\ x' = Credited(s) /\ checkpoint' = x'
           /\ nextId' = NextAvailable(x', Candidate[s])
    /\ todo' = Tail(todo)
    /\ UNCHANGED <<blockVars, calls, reports, gasLimit, transfers, auto, in, order, gasOf, results,
                   accumulated, mixed>>

Return(update) ==
    /\ phase = "round" /\ current # None
    /\ results' = (current :> [update |-> update,
                               gas |-> IF "burn" \in program THEN gasOf[current] ELSE 0]) @@ results
    /\ current' = None /\ x' = EmptyUpdate /\ checkpoint' = EmptyUpdate /\ nextId' = None
    /\ UNCHANGED <<blockVars, calls, reports, gasLimit, transfers, auto, in, todo, order, gasOf,
                   accumulated, mixed>>

\* A plausible bug: the transfers of a program that panics are still made.
PanicKeepingTransfers == Return([checkpoint EXCEPT !.transfers = x.transfers])

Halt == Return(x)
Panic == Return(checkpoint)

\* updateStatistics: of the services with reports in the round or gas used.
Accounted(batch) ==
    {s \in DOMAIN results : ReportsOf(batch, s) # <<>> \/ results[s].gas > 0}

\* What a result notes of a preimage of its own service; a provision for
\* another is noted there too, until the merge drops it.
Notes(s, h) == UpdatesOf(results[s].update, s, h)
IsForOther(p, s) == p.kind = "provide" /\ p.for # s
\* It took a preimage it had provided for another service for its own.
TakesForItsOwn(s, h) ==
    \E i, j \in DOMAIN Notes(s, h) : i < j /\ IsForOther(Notes(s, h)[i], s) /\ Notes(s, h)[j].kind # "provide"
\* It dropped a request that a service merged after it has answered.
ForgetsWhatIsProvided(s, h) ==
    LET own == SelectSeq(Notes(s, h), LAMBDA p : ~IsForOther(p, s)) IN
    /\ own # <<>> /\ Last(own).kind = "remove"
    /\ \E other \in DOMAIN results : other > s /\ \E p \in ToSet(Notes(other, h)) : IsForOther(p, other) /\ p.for = s

\* The second half of accumulateSequentially.  The gas of the transfers is
\* added after what was used is subtracted, and the difference must be a
\* number of its own.
EndRound ==
    LET merged == Merge(in, privileges, results, order)
        left == gasLimit - merged.gas
    IN  /\ phase = "round" /\ current = None /\ todo = <<>>
        /\ accumulated' = accumulated \cup Accounted(SubSeq(reports, 1, Cutoff))
        /\ phase' = IF left < 0 THEN "threw" ELSE "rounds"
        /\ gasLimit' = left + GasAsked(transfers)
        /\ reports' = SubSeq(reports, Cutoff + 1, Len(reports))
        /\ in' = merged.out /\ transfers' = merged.transfers /\ auto' = {}
        /\ order' = <<>> /\ gasOf' = <<>> /\ results' = <<>>
        /\ mixed' = mixed \cup {s \in DOMAIN results :
                                 \E h \in Hash : TakesForItsOwn(s, h) \/ ForgetsWhatIsProvided(s, h)}
        /\ UNCHANGED <<state, privileges, integrated, program, runVars, todo>>

\* hasDuplicatedServiceIdCreated
HasDuplicates(created) == Cardinality(ToSet(created)) # Len(created)

\* The lastAccumulation of the accumulated services (getAccumulationStateUpdate).
Stamp(update, s) ==
    LET info == GetServiceInfo(state, update, s)
    IN  IF info = None THEN update ELSE UpdateServiceInfo(update, s, [info EXCEPT !.last = Slot])

\* The preimages of the extrinsic come before those of accumulation.
ConcatPreimages == [s \in Service |-> integrated[s] \o PreimageUpdates(in, s)]

EndBlock ==
    LET update == FoldSet(LAMBDA s, u : Stamp(u, s), in, accumulated)
    IN  /\ phase = "rounds" /\ transfers = <<>> /\ auto = {} /\ Cutoff = 0
        /\ IF HasDuplicates(in.created)
           THEN phase' = "invalid" /\ UNCHANGED <<state, privileges>>
           ELSE /\ phase' = "done"
                /\ state' = Apply(state, update, ConcatPreimages)
                /\ privileges' = GetPrivileges(privileges, in)
        /\ UNCHANGED <<integrated, program, roundVars, runVars>>

-----------------------------------------------------------------------------
(* Host calls of the service that runs.                                    *)

Calling(call) == current # None /\ call \in program /\ calls < MaxCalls /\ phase = "round"

Called == /\ calls' = calls + 1
          /\ UNCHANGED <<blockVars, roundVars, current>>

\* The footprint of the service becomes items and bytes (or an assertion
\* fails), and its update what `change` makes of it.
Resize(items, bytes, change(_)) ==
    IF items < 0 \/ bytes < 0
    THEN /\ phase' = "threw" /\ calls' = calls + 1
         /\ UNCHANGED <<state, privileges, integrated, program, roundVars, current, x, checkpoint, nextId>>
    ELSE /\ Covered(Own, items, bytes)
         /\ x' = change(UpdateUtilisation(x, current, items, bytes, Own))
         /\ UNCHANGED <<checkpoint, nextId>> /\ Called

Checkpoint ==
    /\ Calling("checkpoint")
    /\ checkpoint' = x /\ UNCHANGED <<x, nextId>> /\ Called

\* The balance is reduced; the gas is paid after that, and who cannot pay
\* runs out of it (Panic).
Transfer(destination, amount, gas) ==
    /\ Calling("transfer")
    /\ Info(destination) # None /\ gas >= TransferMinGas
    /\ Own.balance - amount >= ThresholdOf(Own)
    /\ x' = UpdateServiceInfo(
                [x EXCEPT !.transfers =
                    Append(@, [destination |-> destination, amount |-> amount, gas |-> gas])],
                current, [Own EXCEPT !.balance = @ - amount])
    /\ UNCHANGED <<checkpoint, nextId>> /\ Called

\* newService: the footprint of the new service is its requested code.
NewService(code, gratis, wanted) ==
    LET items == 2
        bytes == LookupEntryBytes + PreimageBytes
        cost == Threshold(items, bytes, gratis)
        account == [code |-> code, balance |-> cost, items |-> items, bytes |-> bytes,
                    gratis |-> gratis, last |-> 0]
        paid == [Own EXCEPT !.balance = @ - cost]
        isChosen == wanted < MinPublic /\ current = GetPrivileges(privileges, x).registrar
        create(id) == x' = UpdateServiceInfo(CreateService(x, id, account, code), current, paid)
    IN  /\ Calling("new")
        /\ gratis = 0 \/ current = GetPrivileges(privileges, x).manager
        /\ Own.balance - cost >= ThresholdOf(Own)
        /\ IF isChosen
           THEN Info(wanted) = None /\ create(wanted) /\ UNCHANGED nextId
           ELSE create(nextId) /\ nextId' = NextAvailable(x', BumpServiceId(nextId))
        /\ UNCHANGED checkpoint /\ Called

Upgrade(code) ==
    /\ Calling("upgrade")
    /\ x' = UpdateServiceInfo(x, current, [Own EXCEPT !.code = code])
    /\ UNCHANGED <<checkpoint, nextId>> /\ Called

SetLookup(update, h, slots) ==
    UpdatePreimage(update, current, [kind |-> "set", hash |-> h, slots |-> slots])
RemovePreimage(update, s, h) == UpdatePreimage(update, s, [kind |-> "remove", hash |-> h])

IsExpired(slot) == slot < Slot - Expunge

\* requestPreimage: something new, or what was forgotten.
Solicit(h) ==
    LET slots == GetLookupHistory(state, x, current, h)
        items == IF slots = None THEN 2 ELSE 0
        bytes == IF slots = None THEN PreimageBytes + LookupEntryBytes ELSE 0
        ask(update) == SetLookup(update, h, IF slots = None THEN <<>> ELSE Append(slots, Slot))
    IN  /\ Calling("solicit")
        /\ slots # None => Len(slots) = 2
        /\ Resize(Own.items + items, Own.bytes + bytes, ask)

\* forgetPreimage: requests and expired preimages go, available ones become
\* unavailable.
Forget(h) ==
    LET slots == GetLookupHistory(state, x, current, h)
        remove(update) == RemovePreimage(update, current, h)
        mark(kept) == x' = SetLookup(x, h, <<kept, Slot>>) /\ UNCHANGED <<checkpoint, nextId>> /\ Called
    IN  /\ Calling("forget") /\ slots # None
        /\ \/ /\ Len(slots) = 0 \/ (Len(slots) = 2 /\ IsExpired(slots[2]))
              /\ Resize(Own.items - 2, Own.bytes - PreimageBytes - LookupEntryBytes, remove)
           \/ Len(slots) = 1 /\ mark(slots[1])
           \/ Len(slots) = 3 /\ IsExpired(slots[2]) /\ mark(slots[3])

\* providePreimage: for another service the update is noted twice.
Provide(s, h) ==
    LET update == [kind |-> "provide", hash |-> h, for |-> s]
        noted == UpdatePreimage(x, s, update)
    IN  /\ Calling(IF s = current THEN "provide" ELSE "provideFor")
        /\ Info(s) # None
        /\ GetLookupHistory(state, x, s, h) = <<>>
        /\ ~HasPreimage(state, x, s, h)
        /\ x' = IF s = current THEN noted ELSE UpdatePreimage(noted, current, update)
        /\ UNCHANGED <<checkpoint, nextId>> /\ Called

\* eject: a service whose code hash spells the caller, and whose only
\* preimage is forgotten and expired.
Eject(s, h) ==
    LET info == Info(s)
        slots == GetLookupHistory(state, x, s, h)
        ejected == [x EXCEPT !.removed = @ \cup {s}]
    IN  /\ Calling("eject") /\ s # current
        /\ info # None /\ info.code = current
        /\ info.items = 2 /\ info.bytes = LookupEntryBytes + PreimageBytes
        /\ slots # None /\ Len(slots) = 2 /\ IsExpired(slots[2])
        /\ Own.balance + info.balance <= MaxBalance
        /\ x' = RemovePreimage(
                    UpdateServiceInfo(ejected, current, [Own EXCEPT !.balance = @ + info.balance]),
                    s, h)
        /\ UNCHANGED <<checkpoint, nextId>> /\ Called

\* write: a value of that length, or nothing (None).
Write(k, value) ==
    LET old == GetStorage(state, x, current, k)
        length(v) == IF v = None THEN 0 ELSE v
        entries == (IF value = None THEN 0 ELSE 1) - (IF old = None THEN 0 ELSE 1)
        store(update) == UpdateStorage(update, current, k, IF value = None THEN Removed ELSE value)
    IN  /\ Calling("write")
        /\ Resize(Own.items + entries,
                  Own.bytes + length(value) - length(old) + entries * (StorageEntryBytes + KeyBytes),
                  store)

\* updatePrivilegedServices: asked of anyone, sorted out in the merge.
Bless(roles) ==
    /\ Calling("bless")
    /\ x' = [x EXCEPT !.privileges = roles]
    /\ UNCHANGED <<checkpoint, nextId>> /\ Called

\* updateAuthorizationQueue: by the assigner of the core.
Assign(c, assigner) ==
    LET now == GetPrivileges(privileges, x)
    IN  /\ Calling("assign") /\ now.assigners[c] = current
        /\ x' = [x EXCEPT !.queues = (c :> current) @@ @,
                          !.privileges = [now EXCEPT !.assigners[c] = assigner]]
        /\ UNCHANGED <<checkpoint, nextId>> /\ Called

\* updateValidatorsData: by the delegator.
Designate ==
    /\ Calling("designate") /\ GetPrivileges(privileges, x).delegator = current
    /\ x' = [x EXCEPT !.validators = current]
    /\ UNCHANGED <<checkpoint, nextId>> /\ Called

Next ==
    \/ IntegratePreimages \/ BeginRound \/ CannotAccumulate \/ Accumulate \/ Halt \/ Panic
    \/ EndRound \/ EndBlock
    \/ Checkpoint \/ Designate
    \/ \E s \in Service, amount \in Amount, gas \in Gas : Transfer(s, amount, gas)
    \/ \E code \in Code \cap Hash, gratis \in Gratis, wanted \in {0, MinPublic} : NewService(code, gratis, wanted)
    \/ \E code \in Code : Upgrade(code)
    \/ \E h \in Hash : Solicit(h) \/ Forget(h)
    \/ \E s \in Service, h \in Hash : Provide(s, h) \/ Eject(s, h)
    \/ \E k \in Key, value \in Value \cup {None} : Write(k, value)
    \/ \E roles \in Roles : Bless(roles)
    \/ \E c \in DOMAIN privileges.assigners, s \in Assignee : Assign(c, s)

Spec == Init /\ [][Next]_vars

-----------------------------------------------------------------------------
(* Properties.                                                             *)

Keys(f) == Cardinality(DOMAIN f)

\* The footprint of an account is what it has, and its balance pays for it.
FootprintIsExact(account) ==
    /\ account.info.items = 2 * Keys(account.lookup) + Keys(account.storage)
    /\ account.info.bytes = Keys(account.lookup) * (LookupEntryBytes + PreimageBytes)
                              + Keys(account.storage) * (StorageEntryBytes + KeyBytes)
                              + SumFunction(account.storage)
    /\ account.info.balance >= ThresholdOf(account.info)

\* A preimage that is available by its history is there, and there is none
\* without a history.
AvailableIsThere(account) ==
    /\ \A h \in DOMAIN account.lookup : Len(account.lookup[h]) \in {1, 3} => h \in account.blobs
    /\ account.blobs \subseteq DOMAIN account.lookup

LeavesNothing(account) == account.lookup = <<>> /\ account.blobs = {} /\ account.storage = <<>>

(* However the services of a block call, provide, eject and create, the    *)
(* accounts are consistent when it is over: footprints are exact and paid  *)
(* for, available preimages are there, and an ejected service leaves       *)
(* nothing behind (only its info is removed, serialize-state-update.ts).   *)
(* That fails in just two cases, for a service that drops a request while  *)
(* one merged after it provides the preimage, and for one that takes up a  *)
(* preimage it provided for another.                                       *)
AccountsAreConsistent ==
    phase = "done" =>
        \A s \in Service \ mixed :
            IF state[s].info = None THEN LeavesNothing(state[s])
            ELSE FootprintIsExact(state[s]) /\ AvailableIsThere(state[s])

\* What all services and the transfers under way are worth.
Supply ==
    LET balance(s) == LET info == GetServiceInfo(state, in, s)
                      IN  IF info = None THEN 0 ELSE info.balance
        amount(t) == t.amount
    IN  MapThenSumSet(balance, Service) + SumOf(transfers, amount)

(* No round makes money: not a transfer that is taken back by a panic, an  *)
(* ejected service whose balance is paid in while it is removed, a new     *)
(* service, nor the merge of updates that know of each other's accounts    *)
(* only what they were before the round.                                   *)
NothingMinted == [][Supply' <= Supply]_vars

\* The service asked for the change in its result of this round.
Asked(s, role, holder) ==
    /\ s \in DOMAIN results /\ results[s].update.privileges # None
    /\ results[s].update.privileges[role] = holder

(* Bless and assign are taken from anyone, so only the merge keeps a role  *)
(* from moving to where neither the manager nor its holder wanted it, and  *)
(* the data of a role from being set by others than its holder.            *)
RolesMoveByRight ==
    [][LET now == GetPrivileges(privileges, in)
           new == GetPrivileges(privileges, in')
       IN  /\ \A role \in {"manager", "delegator", "registrar"} :
                 \/ new[role] = now[role]
                 \/ Asked(now.manager, role, new[role])
                 \/ Asked(now[role], role, new[role])
           /\ \A c \in DOMAIN now.assigners :
                 \/ new.assigners[c] = now.assigners[c]
                 \/ \E s \in {now.manager, now.assigners[c]} :
                       /\ s \in DOMAIN results /\ results[s].update.privileges # None
                       /\ results[s].update.privileges.assigners[c] = new.assigners[c]
           /\ in'.validators \in {in.validators, now.delegator}
           /\ \A c \in DOMAIN in'.queues :
                 (c \in DOMAIN in.queues /\ in'.queues[c] = in.queues[c])
                    \/ in'.queues[c] = now.assigners[c]]_vars

(* What the assertions of the code say: gas left is a number               *)
(* (numbers/index.ts), a footprint is never negative (state-update.ts).    *)
NoAssertionFails == phase # "threw"
=============================================================================
