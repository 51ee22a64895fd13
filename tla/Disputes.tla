------------------------------- MODULE Disputes -------------------------------
(***************************************************************************)
(* What a block may say of disputed work reports, and what follows for     *)
(* reports, cores and validators (packages/jam/transition/disputes).       *)
(*                                                                         *)
(* Reports and keys are numbers, which are compared as the hashes and keys *)
(* of the program are.  A signature is good exactly when what it says is   *)
(* in `Signatures`; the error of a refused block is left out, one that is  *)
(* refused changes nothing.                                                *)
(***************************************************************************)
EXTENDS Integers, Sequences, FiniteSets, SequencesExt

CONSTANTS
    NoReport,
    Validators,        \* Validators[e][i]: the key of validator i in epoch e
    Signatures,        \* statements [key, says, report] that were signed
    CoreOf,            \* the core of each report
    Votes,             \* sequences of votes [index, valid] to try
    SuperMajority, Third, EpochLength, MaxSlot

\* Keys, reports and cores are compared as numbers; a verdict has as many
\* votes as a super majority has validators.
ASSUME DisputesAssumption ==
    /\ DOMAIN CoreOf \subseteq Nat /\ CoreOf \in [DOMAIN CoreOf -> Nat] /\ NoReport \notin DOMAIN CoreOf
    /\ \A e \in DOMAIN Validators : DOMAIN Validators[e] \subseteq Nat /\ \A i \in DOMAIN Validators[e] : Validators[e][i] \in Nat
    /\ Third \in Nat /\ SuperMajority \in Nat /\ 0 < Third /\ Third < SuperMajority
    /\ Votes \subseteq [1..SuperMajority -> [index : Nat, valid : BOOLEAN]]

VARIABLES
    slot,      \* of the last block
    records,   \* reports that were judged, keys that were punished
    cores,     \* the report that is to become available, or NoReport
    reported   \* reports that were on a core: none comes twice

disputesVars == <<slot, records, cores, reported>>

Judgeable == DOMAIN CoreOf
Epoch(s) == s \div EpochLength
ValidatorKeys(e) == ToSet(Validators[e])
Judged(r) == r.good \cup r.bad \cup r.wonky

\* prepareJudgementSignature, prepareFaultSignature, prepareCulpritSignature
IsSigned(key, says, report) == [key |-> key, says |-> says, report |-> report] \in Signatures
Says(valid) == IF valid THEN "valid" ELSE "invalid"

------------------------------------------------------------------------------
(* The extrinsic.                                                          *)

Verdict == [report : Judgeable, votesEpoch : DOMAIN Validators, votes : Votes]
Culprit == [report : Judgeable, key : UNION {ValidatorKeys(e) : e \in DOMAIN Validators}]
Fault == [report : Judgeable, key : UNION {ValidatorKeys(e) : e \in DOMAIN Validators}, valid : BOOLEAN]

\* isUniqueSortedBy, isUniqueSortedByIndex
IsUniqueSortedBy(items, field) == \A i \in 2..Len(items) : items[i - 1][field] < items[i][field]
UpToTwo(items, field) ==
    {s \in {<<>>} \cup {<<i>> : i \in items} \cup (items \X items) : IsUniqueSortedBy(s, field)}

\* The previous epoch is the one before the epoch of the last block, not of
\* the block that is imported.
IsGoodVerdict(v) ==
    /\ IsUniqueSortedBy(v.votes, "index")
    /\ v.votesEpoch \in {Epoch(slot), Epoch(slot) - 1}
    /\ \A i \in DOMAIN v.votes : LET j == v.votes[i] IN
        /\ j.index \in DOMAIN Validators[v.votesEpoch]
        /\ IsSigned(Validators[v.votesEpoch][j.index], Says(j.valid), v.report)

\* calculateVotesForWorkReports
VotesFor(verdicts) ==
    [r \in {verdicts[i].report : i \in DOMAIN verdicts} |->
        LET v == verdicts[CHOOSE i \in DOMAIN verdicts : verdicts[i].report = r]
        IN  Cardinality({i \in DOMAIN v.votes : v.votes[i].valid})]

DisputesRecordsNewItems(sums) ==
    [good |-> {r \in DOMAIN sums : sums[r] >= SuperMajority},
     bad |-> {r \in DOMAIN sums : sums[r] = 0},
     wonky |-> {r \in DOMAIN sums : sums[r] < SuperMajority /\ sums[r] >= Third /\ sums[r] # 0},
     punished |-> {}]

AreEnough(sums, culprits, faults) ==
    \A r \in DOMAIN sums :
        \/ /\ sums[r] = SuperMajority
           /\ \E i \in DOMAIN faults : faults[i].report = r
        \/ /\ sums[r] = 0 /\ sums[r] # SuperMajority
           /\ \E i, j \in DOMAIN culprits : i # j /\ culprits[i].report = r /\ culprits[j].report = r
        \/ sums[r] = Third

\* getValidatorKeys
UnpunishedKeys == (ValidatorKeys(Epoch(slot)) \cup ValidatorKeys(Epoch(slot) - 1)) \ records.punished

IsCulprit(c, newItems) ==
    c.key \in UnpunishedKeys /\ c.report \in newItems.bad /\ IsSigned(c.key, "guarantee", c.report)

\* Whoever called a report invalid is not held against the verdict.
IsFault(f, newItems) ==
    /\ f.key \in UnpunishedKeys
    /\ f.valid => f.report \in newItems.bad
    /\ IsSigned(f.key, Says(f.valid), f.report)

------------------------------------------------------------------------------
(* What follows.                                                           *)

Offenders(culprits, faults) ==
    {culprits[i].key : i \in DOMAIN culprits} \cup {faults[i].key : i \in DOMAIN faults}

UpdatedRecords(newItems, offenders) ==
    [good |-> records.good \cup newItems.good, bad |-> records.bad \cup newItems.bad,
     wonky |-> records.wonky \cup newItems.wonky, punished |-> records.punished \cup offenders]

\* A plausible bug: every report met counts, whether there is a verdict on it.
ClearedTooFew(sums) ==
    LET met(c) == Cardinality({b \in DOMAIN cores : b < c /\ cores[b] # NoReport})
    IN  [c \in DOMAIN cores |->
            IF met(c) < Cardinality(DOMAIN sums) /\ cores[c] \in DOMAIN sums /\ sums[cores[c]] < SuperMajority
            THEN NoReport ELSE cores[c]]

\* Cores are looked at until every verdict has met its report.
ClearedCores(sums) ==
    LET met(c) == Cardinality({b \in DOMAIN cores : b < c /\ cores[b] \in DOMAIN sums})
    IN  [c \in DOMAIN cores |->
            IF met(c) < Cardinality(DOMAIN sums) /\ cores[c] \in DOMAIN sums /\ sums[cores[c]] < SuperMajority
            THEN NoReport ELSE cores[c]]

Places(c, r) == r = NoReport \/ (CoreOf[r] = c /\ r \notin reported)

DisputesInit ==
    /\ slot = EpochLength
    /\ records = [good |-> {}, bad |-> {}, wonky |-> {}, punished |-> {}]
    /\ cores \in {f \in [{CoreOf[r] : r \in Judgeable} -> Judgeable \cup {NoReport}] : \A c \in DOMAIN f : f[c] = NoReport \/ CoreOf[f[c]] = c}
    /\ reported = {cores[c] : c \in DOMAIN cores} \ {NoReport}

\* A block with verdicts, culprits and faults, whose header names the offenders.
\* Cores that are free afterwards may take a report of the same block.
ImportDisputes(s, verdicts, culprits, faults) ==
    LET sums == VotesFor(verdicts)
        newItems == DisputesRecordsNewItems(sums)
        cleared == ClearedCores(sums)
    IN  /\ slot' = s
        /\ records' = UpdatedRecords(newItems, Offenders(culprits, faults))
        /\ cores' \in {f \in [DOMAIN cores -> Judgeable \cup {NoReport}] :
                        \A c \in DOMAIN f : f[c] = cleared[c] \/ (cleared[c] = NoReport /\ Places(c, f[c]))}
        /\ reported' = reported \cup ({cores'[c] : c \in DOMAIN cores} \ {NoReport})

DisputesNext ==
    \E s \in (slot + 1)..MaxSlot :
    \E verdicts \in UpToTwo({v \in Verdict : IsGoodVerdict(v) /\ v.report \notin Judged(records)}, "report") :
    LET newItems == DisputesRecordsNewItems(VotesFor(verdicts)) IN
    \E culprits \in UpToTwo({c \in Culprit : IsCulprit(c, newItems)}, "key") :
    \E faults \in UpToTwo({f \in Fault : IsFault(f, newItems)}, "key") :
        /\ AreEnough(VotesFor(verdicts), culprits, faults)
        /\ ImportDisputes(s, verdicts, culprits, faults)

DisputesSpec == DisputesInit /\ [][DisputesNext]_disputesVars

------------------------------------------------------------------------------
(* Properties.                                                             *)

\* Enough validators of one epoch, the last block's or the one before, signed
\* what the verdict says.
IsCarried(r, sum) ==
    \E e \in {Epoch(slot), Epoch(slot) - 1} : \E voters \in SUBSET DOMAIN Validators[e] :
        /\ Cardinality(voters) = SuperMajority
        /\ \E yes \in SUBSET voters :
            /\ Cardinality(yes) = sum
            /\ \A i \in voters : IsSigned(Validators[e][i], Says(i \in yes), r)

\* What a block may do to the records, seen from the state it is imported on.
IsJust ==
    LET new(judged) == records'[judged] \ records[judged]
        convicted == new("punished")
    IN  /\ \A kind \in {"good", "bad", "wonky", "punished"} : records[kind] \subseteq records'[kind]
        /\ \A kind, other \in {"good", "bad", "wonky"} : kind # other => records'[kind] \cap records'[other] = {}
        /\ \A r \in new("good") :
            IsCarried(r, SuperMajority) /\ \E k \in convicted : IsSigned(k, "invalid", r)
        /\ \A r \in new("bad") :
            /\ IsCarried(r, 0)
            /\ \E k, l \in convicted : k # l /\ IsSigned(k, "guarantee", r) /\ IsSigned(l, "guarantee", r)
        /\ \A r \in new("wonky") : IsCarried(r, Third)
        /\ \A k \in convicted :
            /\ k \in ValidatorKeys(Epoch(slot)) \cup ValidatorKeys(Epoch(slot) - 1)
            /\ \E r \in Judgeable :
                IsSigned(k, "invalid", r) \/ (r \in new("bad") /\ (IsSigned(k, "guarantee", r) \/ IsSigned(k, "valid", r)))
        /\ \A c \in DOMAIN cores : cores[c] # NoReport =>
            (cores'[c] # cores[c] <=> cores[c] \in new("bad") \cup new("wonky"))

\* A report is judged once, by votes that were cast; a bad one costs two
\* guarantors, a good one somebody who denied it; and nobody is punished
\* without a statement to answer for: a guarantee or a vote for a report that
\* this very block finds bad, or a vote against a report (the verdict on that one is not asked for,
\* disputes/disputes.ts:126).  A core loses its report to a verdict that does
\* not uphold it, and only then (disputes/disputes.ts:323).
VerdictsAreJust == [][IsJust]_disputesVars
=============================================================================
