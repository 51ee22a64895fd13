----------------------------- MODULE WorkReports -----------------------------
(***************************************************************************)
(* The way of a work report through the state transition of a block        *)
(* (transition/chain-stf.ts): guaranteed on a core (reports/), made        *)
(* available by assurances or timed out (assurances.ts), withdrawn by a    *)
(* verdict (disputes/), queued until what it needs is accumulated and      *)
(* accumulated (accumulate/), with the recent history (recent-history.ts)  *)
(* and the rotation of the validators (safrole/safrole.ts) that the checks *)
(* read.                                                                   *)
(*                                                                         *)
(* A block is one action: every sub-transition reads the prior state and   *)
(* the results of earlier ones, and the state changes at the end, or not   *)
(* at all when the block is invalid.  Signatures are good, authorizers are *)
(* in the pool of their core, and roots match.  What accumulation does to  *)
(* the services is left out but for the gas they may leave over.           *)
(*                                                                         *)
(* A report stands for its content: the package it was made from, the      *)
(* packages it needs (prerequisites and segment root lookups), its core,   *)
(* its anchor and the gas its results ask for are functions of it.         *)
(***************************************************************************)
EXTENDS Naturals, Sequences, SequencesExt, FiniteSets, FiniteSetsExt, Functions

CONSTANTS
    Report,        \* work reports
    Package,       \* work package hashes
    PackageOf,     \* PackageOf[r]: the package r was made from
    Needs,         \* Needs[r]: the packages to be accumulated before r
    GasOf,         \* GasOf[r]: gas its results ask for
    CoreOf,        \* CoreOf[r]: the core the report is for
    AnchorOf,      \* AnchorOf[r]: number of the block the report is anchored at
    CoresCount,    \* chainSpec.coresCount
    EpochLength,   \* chainSpec.epochLength
    Rotation,      \* chainSpec.rotationPeriod
    GracePeriod,   \* REPORT_TIMEOUT_GRACE_PERIOD
    History,       \* MAX_RECENT_HISTORY
    ReportGas,     \* G_A, the most a report may ask for
    MaxBlockGas,   \* chainSpec.maxBlockGas
    Validator,     \* ed25519 keys of the designated validators
    NoReport,      \* no report on the core
    MaxBlocks,     \* bound: blocks after the genesis block
    MaxSkip,       \* bound: slots from a block to the next
    MaxJudged      \* bound: verdicts

ASSUME ReportAssumption ==
    /\ PackageOf \in [Report -> Package]
    /\ Needs \in [Report -> SUBSET Package]
    /\ GasOf \in [Report -> Nat]

ASSUME ContextAssumption ==
    /\ CoreOf \in [Report -> 0 .. CoresCount - 1]
    /\ AnchorOf \in [Report -> Nat]

\* Both chain specs fulfil the last line; the tiny one (12, 8 and 5) barely.
ASSUME SpecAssumption ==
    /\ CoresCount \in Nat \ {0} /\ EpochLength \in Nat \ {0} /\ Rotation \in Nat \ {0}
    /\ History \in Nat \ {0} /\ GracePeriod \in Nat \ {0}
    /\ ReportGas \in Nat /\ MaxBlockGas \in Nat
    /\ History + GracePeriod <= EpochLength + 1

VARIABLES
    height,               \* number of the block
    slot,                 \* timeslot
    recent,               \* recentBlocks: number and reported packages of each block
    assignment,           \* availabilityAssignment
    queue,                \* accumulationQueue
    recentlyAccumulated,  \* recentlyAccumulated
    judged,               \* disputesRecords: good, bad and wonky reports
    punished,             \* disputesRecords.punishSet
    keys,                 \* the current, previous and next validators' keys
    reporters,            \* output: who signed the guarantees of the block
    \* history
    guaranteed,           \* reports that were ever guaranteed
    available,            \* reports that were ever made available
    accumulated           \* every report accumulated, in order

reportsVars == <<height, slot, recent, assignment, queue, recentlyAccumulated, judged,
          punished, keys, reporters, guaranteed, available, accumulated>>

------------------------------------------------------------------------------
(* The order in which available work reports are accumulated               *)
(* (accumulate-queue.ts), and how many of them the gas of a block pays for *)
(* (accumulate.ts).  An entry of the queue (`NotYetAccumulatedReport`) is  *)
(* a report with the needs that are still open.                            *)
Entry == [report : Report, needs : SUBSET Package]

Packages(reports) == {PackageOf[r] : r \in ToSet(reports)}

\* The elements of a sequence that were chosen, in their order.
Those(seq, chosen) ==
    LET those[n \in 0 .. Len(seq)] ==
            IF n = 0 THEN <<>>
            ELSE IF seq[n] \in chosen THEN Append(those[n - 1], seq[n]) ELSE those[n - 1]
    IN  those[Len(seq)]

\* pruneQueue: entries of the packages go, and so do the needs they fulfil.
PruneQueue(entries, packages) ==
    LET kept == Those(entries, {e \in ToSet(entries) : PackageOf[e.report] \notin packages})
    IN  [i \in DOMAIN kept |-> [kept[i] EXCEPT !.needs = @ \ packages]]

ToAccumulateImmediately(reports) == Those(reports, {r \in Report : Needs[r] = {}})

ToAccumulateLater(reports, history) ==
    LET waiting == Those(reports, {r \in Report : Needs[r] # {}})
    IN  PruneQueue([i \in DOMAIN waiting |->
                        [report |-> waiting[i], needs |-> Needs[waiting[i]]]], history)

Ready(entries) ==
    LET ready == Those(entries, {e \in ToSet(entries) : e.needs = {}})
    IN  [i \in DOMAIN ready |-> ready[i].report]

\* enqueueReports: what is ready goes first, then what that makes ready, and so
\* on.  A round that finds nothing ready changes nothing, so that as many rounds
\* as there are entries are enough.
EnqueueReports(entries) ==
    LET round[n \in 0 .. Len(entries)] ==
            IF n = 0 THEN [result |-> <<>>, open |-> entries]
            ELSE LET ready == Ready(round[n - 1].open)
                 IN  [result |-> round[n - 1].result \o ready,
                      open |-> PruneQueue(round[n - 1].open, Packages(ready))]
    IN  round[Len(entries)].result

\* GasUpTo(reports)[n]: the gas that the first n reports ask for.
GasUpTo(reports) ==
    LET gas[n \in 0 .. Len(reports)] == IF n = 0 THEN 0 ELSE gas[n - 1] + GasOf[reports[n]]
    IN  gas

\* findReportCutoffIndex: how many reports fit into the gas.
Cutoff(gas, reports) ==
    CHOOSE n \in 0 .. Len(reports) :
        /\ GasUpTo(reports)[n] <= gas
        /\ n < Len(reports) => GasUpTo(reports)[n + 1] > gas

\* accumulateSequentially: the reports that fit are accumulated together, and the
\* gas they did not use pays for more.  What the services use is up to them.
AccumulatedCounts(gas, reports) == Cutoff(gas, reports) .. Len(reports)

------------------------------------------------------------------------------
(* The state.                                                              *)

Core == 0 .. CoresCount - 1
Phase == 0 .. EpochLength - 1
Verdict == {"good", "bad", "wonky"}
Assignment == [report : Report, timeout : Nat]

\* An empty core is told from one with a report (null in availabilityAssignment).
ASSUME NoReportAssumption == NoReport \notin Assignment

Engaged(cores) == {c \in Core : cores[c] # NoReport}

ReportedIn(blocks) == UNION {b.reported : b \in ToSet(blocks)}
\* Broken form of RecentlyAccumulated: the oldest set is forgotten a block too early.
ForgottenTooEarly == UNION ToSet(Tail(recentlyAccumulated))

RecentlyAccumulated == UNION ToSet(recentlyAccumulated)
Queued == UNION {{e.report : e \in ToSet(queue[p])} : p \in Phase}
Pending == {assignment[c].report : c \in Engaged(assignment)}

EpochChanged(s) == s \div EpochLength > slot \div EpochLength

ReportsInit ==
    /\ height = 0 /\ slot = 0
    /\ recent = <<>>
    /\ assignment = [c \in Core |-> NoReport]
    /\ queue = [p \in Phase |-> <<>>]
    /\ recentlyAccumulated = [i \in 1 .. EpochLength |-> {}]
    /\ judged = [r \in {} |-> "good"]
    /\ punished = {}
    /\ keys = [current |-> Validator, previous |-> Validator, next |-> Validator]
    /\ reporters = {}
    /\ guaranteed = {} /\ available = {} /\ accumulated = <<>>

-----------------------------------------------------------------------------
(* Disputes.  `verdicts` maps the reports the block judges to the verdict,  *)
(* `offenders` are the culprits and the authors of faults.                  *)

Judging(verdicts, verdict) == {r \in DOMAIN verdicts : verdicts[r] = verdict}

\* Every bad report has two culprits of its own, every good one a fault of its own.
AreValidVerdicts(verdicts, offenders) ==
    /\ DOMAIN verdicts \cap DOMAIN judged = {}
    /\ offenders \subseteq (keys.current \cup keys.previous) \ punished
    /\ Cardinality(offenders) >= 2 * Cardinality(Judging(verdicts, "bad"))
    /\ Cardinality(offenders) >= Cardinality(Judging(verdicts, "good"))

\* getClearedCoreAssignment
ClearJudged(cores, verdicts) ==
    [c \in Core |->
        IF c \in Engaged(cores) /\ cores[c].report \in DOMAIN verdicts \ Judging(verdicts, "good")
        THEN NoReport ELSE cores[c]]

\* getUpdatedDisputesRecords
UpdateRecords(verdicts) ==
    [r \in DOMAIN judged \cup DOMAIN verdicts |->
        IF r \in DOMAIN verdicts THEN verdicts[r] ELSE judged[r]]

\* The validators of the next epoch enter without those punished so far.
RotateKeys(s, offenders) ==
    IF EpochChanged(s)
    THEN [current |-> keys.next, previous |-> keys.current, next |-> Validator \ offenders]
    ELSE keys

-----------------------------------------------------------------------------
(* Assurances.  `assured` are the cores with a supermajority of assurances. *)

AvailableReports(cores, assured) ==
    LET order == Those([i \in 1 .. CoresCount |-> i - 1], assured)
    IN  [i \in DOMAIN order |-> cores[order[i]].report]

IsTimedOut(s, pending) == s >= pending.timeout + GracePeriod

ClearAssured(cores, assured, s) ==
    [c \in Core |-> IF c \in assured \/ (c \in Engaged(cores) /\ IsTimedOut(s, cores[c]))
                    THEN NoReport ELSE cores[c]]

-----------------------------------------------------------------------------
(* Reports.  `guarantees` are the reports of the guarantees extrinsic.      *)

\* verifyWorkPackagesUniqueness looks at the state before the block.
InPipeline ==
    ReportedIn(recent) \cup RecentlyAccumulated
        \cup {PackageOf[r] : r \in Queued \cup Pending}

\* Broken form of HasRecentAnchor: any block of the chain will do.
HasAnyAnchor(r) == AnchorOf[r] <= height

HasRecentAnchor(r) == \E b \in ToSet(recent) : b.number = AnchorOf[r]

\* Broken form of CanBeGuaranteed: the gas is not looked at.
CanAskForAnyGas(r) == HasRecentAnchor(r) /\ PackageOf[r] \notin InPipeline

\* What is asked of a report alone: its gas, its context and that it is new.
CanBeGuaranteed(r) ==
    /\ GasOf[r] <= ReportGas
    /\ HasRecentAnchor(r)
    /\ PackageOf[r] \notin InPipeline

PackagesIn(guarantees) == {PackageOf[r] : r \in guarantees}

\* Broken form of AreValidGuarantees: one package may be guaranteed twice in a block.
AreOnFreeCores(guarantees, cores) ==
    /\ \A r, q \in guarantees : r # q => CoreOf[r] # CoreOf[q]
    /\ \A r \in guarantees :
           /\ CoreOf[r] \notin Engaged(cores)
           /\ Needs[r] \subseteq PackagesIn(guarantees) \cup ReportedIn(recent)

AreValidGuarantees(guarantees, cores) ==
    /\ \A r, q \in guarantees :
           r # q => CoreOf[r] # CoreOf[q] /\ PackageOf[r] # PackageOf[q]
    /\ \A r \in guarantees :
           /\ CoreOf[r] \notin Engaged(cores)
           /\ Needs[r] \subseteq PackagesIn(guarantees) \cup ReportedIn(recent)

\* A guarantee of the previous rotation may be signed by validators of the last epoch.
GuarantorsAt(s, rotated) ==
    rotated.current \cup
        (IF s >= Rotation /\ (s - Rotation) \div EpochLength # s \div EpochLength
         THEN rotated.previous ELSE {})

\* Only the offenders of this very block are refused (hasAnyOffenders).
AreValidReporters(signers, guarantors, offenders) ==
    /\ signers \subseteq guarantors
    /\ signers \cap offenders = {}

PlaceReports(cores, guarantees, s) ==
    [c \in Core |-> IF \E r \in guarantees : CoreOf[r] = c
                    THEN [report |-> CHOOSE r \in guarantees : CoreOf[r] = c, timeout |-> s]
                    ELSE cores[c]]

RecordBlock(guarantees) ==
    LET blocks == Append(recent, [number |-> height + 1, reported |-> PackagesIn(guarantees)])
    IN  IF Len(blocks) > History THEN Tail(blocks) ELSE blocks

-----------------------------------------------------------------------------
(* Accumulation of the reports the block made available.                    *)

\* getGasLimit, without services that are always accumulated
GasLimit == Max({MaxBlockGas, ReportGas * CoresCount})

\* getQueueFromState: from the oldest phase of the queue to the youngest.
QueueFromState(s) ==
    LET entries[n \in 0 .. EpochLength] ==
            IF n = 0 THEN <<>> ELSE entries[n - 1] \o queue[(s + n - 1) % EpochLength]
    IN  entries[EpochLength]

\* Broken form of Accumulatable: the queue comes before what needs nothing.
QueueFirst(reports, s) ==
    LET immediately == ToAccumulateImmediately(reports)
        later == ToAccumulateLater(reports, RecentlyAccumulated)
    IN  EnqueueReports(PruneQueue(QueueFromState(s) \o later, Packages(immediately)))
            \o immediately

Accumulatable(reports, s) ==
    LET immediately == ToAccumulateImmediately(reports)
        later == ToAccumulateLater(reports, RecentlyAccumulated)
    IN  immediately \o
            EnqueueReports(PruneQueue(QueueFromState(s) \o later, Packages(immediately)))

\* Entries of the slots since the last block are a whole epoch old.
IsExpired(phase, s) ==
    LET age == ((s % EpochLength) + EpochLength - phase) % EpochLength IN age < s - slot

UpdateQueue(reports, s, done) ==
    [p \in Phase |->
        IF p = s % EpochLength
        THEN PruneQueue(ToAccumulateLater(reports, RecentlyAccumulated), done)
        ELSE IF IsExpired(p, s) THEN <<>> ELSE PruneQueue(queue[p], done)]

Accumulate(reports, s, count) ==
    LET now == SubSeq(Accumulatable(reports, s), 1, count)
    IN  /\ queue' = UpdateQueue(reports, s, Packages(now))
        /\ recentlyAccumulated' = Append(Tail(recentlyAccumulated), Packages(now))
        /\ accumulated' = accumulated \o now
        /\ available' = available \cup ToSet(reports)

-----------------------------------------------------------------------------
ImportBlock(s, verdicts, offenders, assured, guarantees, signers) ==
    LET afterDisputes == ClearJudged(assignment, verdicts)
        afterAssurances == ClearAssured(afterDisputes, assured, s)
        reports == AvailableReports(afterDisputes, assured)
    IN  /\ AreValidVerdicts(verdicts, offenders)
        /\ assured \subseteq Engaged(afterDisputes)
        /\ AreValidGuarantees(guarantees, afterAssurances)
        /\ AreValidReporters(signers, GuarantorsAt(s, keys'), offenders)
        /\ \E count \in AccumulatedCounts(GasLimit, Accumulatable(reports, s)) :
               Accumulate(reports, s, count)
        /\ assignment' = PlaceReports(afterAssurances, guarantees, s)
        /\ recent' = RecordBlock(guarantees)
        /\ judged' = UpdateRecords(verdicts)
        /\ reporters' = signers
        /\ guaranteed' = guaranteed \cup guarantees

\* Inputs: a verdict at most, and guarantees signed by two or three validators.
Verdicts == {[r \in {} |-> "good"]} \cup
    (IF Cardinality(DOMAIN judged) < MaxJudged THEN UNION {[{r} -> Verdict] : r \in Report} ELSE {})

Signers(guarantees) ==
    IF guarantees = {} THEN {{}} ELSE {signers \in SUBSET Validator : Cardinality(signers) >= 2}

ReportsNext ==
    /\ height < MaxBlocks
    /\ height' = height + 1
    /\ \E s \in slot + 1 .. slot + MaxSkip, verdicts \in Verdicts, offenders \in SUBSET Validator :
        /\ slot' = s
        /\ punished' = punished \cup offenders
        /\ keys' = RotateKeys(s, punished')
        /\ \E assured \in SUBSET Engaged(assignment),
              guarantees \in SUBSET {r \in Report : CanBeGuaranteed(r)} :
               \E signers \in Signers(guarantees) :
                   ImportBlock(s, verdicts, offenders, assured, guarantees, signers)

ReportsSpec == ReportsInit /\ [][ReportsNext]_reportsVars

-----------------------------------------------------------------------------
\* Type invariant: every variable has the shape the state codecs give it.
ReportsTypeOK ==
    /\ height \in Nat /\ slot \in Nat
    /\ recent \in Seq([number : Nat, reported : SUBSET Package]) /\ Len(recent) <= History
    /\ assignment \in [Core -> Assignment \cup {NoReport}]
    /\ queue \in [Phase -> Seq(Entry)]
    /\ recentlyAccumulated \in [1 .. EpochLength -> SUBSET Package]
    /\ DOMAIN judged \subseteq Report /\ Range(judged) \subseteq Verdict
    /\ punished \subseteq Validator /\ reporters \subseteq Validator
    /\ keys \in [{"current", "previous", "next"} -> SUBSET Validator]
    /\ guaranteed \subseteq Report /\ available \subseteq guaranteed
    /\ accumulated \in Seq(Report)

\* verifyWorkPackagesUniqueness reads the state before the block, while disputes,
\* assurances and accumulation of the same block move packages: still a package
\* is in one place only, on one core, in one queue entry, or among those accumulated
\* in the last epoch of blocks.
PackageInOnePlace ==
    /\ \A c, d \in Engaged(assignment) :
           PackageOf[assignment[c].report] = PackageOf[assignment[d].report] => c = d
    /\ \A p, q \in Phase : \A i \in DOMAIN queue[p], j \in DOMAIN queue[q] :
           PackageOf[queue[p][i].report] = PackageOf[queue[q][j].report] => p = q /\ i = j
    /\ \A i, j \in 1 .. EpochLength :
           recentlyAccumulated[i] \cap recentlyAccumulated[j] # {} => i = j
    /\ LET onCores == {PackageOf[r] : r \in Pending}
           inQueue == {PackageOf[r] : r \in Queued}
       IN  /\ onCores \cap inQueue = {}
           /\ (onCores \cup inQueue) \cap RecentlyAccumulated = {}

\* A report is accumulated after everything it needs, also within one block and
\* when the gas of the block ends in the middle of the queue.
DependenciesFirst ==
    \A i \in DOMAIN accumulated :
        Needs[accumulated[i]] \subseteq Packages(SubSeq(accumulated, 1, i - 1))

\* No entry of the queue waits for a package that was accumulated already: the
\* packages of the last epoch of blocks are remembered (getAccumulationStateUpdate)
\* for as long as a report that needs one of them can still become available.
NoEntryWaitsForThePast ==
    \A p \in Phase : \A i \in DOMAIN queue[p] :
        queue[p][i].needs \cap Packages(accumulated) = {}

\* An available report without needs is not queued (getWorkReportsToAccumulateLater),
\* so it must be accumulated in the block that makes it available, whatever else is
\* ready: the gas limit of a report and of a block (verifyPostSignatureChecks and
\* getGasLimit) have to agree.
NeverDropped ==
    \A r \in available : Needs[r] = {} => r \in ToSet(accumulated)

\* Stages of ReportLifecycle.tla.
Stage ==
    [r \in Report |->
        IF r \in ToSet(accumulated) THEN "accumulated"
        ELSE IF r \in Queued THEN "queued"
        ELSE IF r \in Pending THEN "pending"
        ELSE IF r \in guaranteed THEN "gone" ELSE "new"]

Lifecycle == INSTANCE ReportLifecycle WITH stage <- Stage

\* Every block moves the reports as ReportLifecycle.tla says: a report that was
\* withdrawn by a verdict, timed out or expired never comes back, although nothing
\* but the recent history remembers that it was guaranteed.
LifecycleStep == UNCHANGED Stage \/ Lifecycle!Block
ImplementsLifecycle == Lifecycle!Init /\ [][LifecycleStep]_reportsVars

\* ReportsInput.offenders (reports/input.ts 55): "Ed25519 keys of validators that were
\* proven to judge incorrectly".  No guarantee is accepted from one of them.
NoGuaranteeOfOffenders == reporters \cap punished = {}
=============================================================================
