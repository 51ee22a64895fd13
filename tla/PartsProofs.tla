----------------------------- MODULE PartsProofs -----------------------------
(***************************************************************************)
(* Proofs about parts of the node that share nothing: the verdicts of      *)
(* Disputes, for any validators, votes and reports, the pool of worker     *)
(* threads, for any tasks and numbers of workers, and the channels between *)
(* two ends, for any methods and numbers of requests.                      *)
(***************************************************************************)
EXTENDS Disputes, WorkerPool, Channels, TLAPS, WellFoundedInduction, FiniteSetTheorems, SequenceTheorems

(* Numbers and sets *)

\* A set of numbers that is not empty has a least one.
LEMMA LeastNumber ==
  ASSUME NEW T, T \subseteq Nat, T # {}
  PROVE  \E n \in T : \A m \in T : n <= m
<1> DEFINE less == {pair \in Nat \X Nat : pair[1] < pair[2]}
<1>1. IsWellFoundedOn(less, Nat)
  BY NatLessThanWellFounded, Zenon DEF OpToRel
<1>2. PICK n \in T : \A m \in T : ~(<<m, n>> \in less)
  <2> HIDE DEF less
  <2> QED
    BY <1>1, WFMin, Zenon
<1>3. ASSUME NEW m \in T PROVE n <= m
  <2>1. m \in Nat /\ n \in Nat
    OBVIOUS
  <2>2. m < n => <<m, n>> \in less
    BY <2>1
  <2> HIDE DEF less
  <2>3. ~(m < n)
    BY <2>2, <1>2
  <2> QED
    BY <2>1, <2>3
<1> QED
  BY <1>3

\* Different elements of S have different images under f.
LEMMA ImageSize ==
  ASSUME NEW S, IsFiniteSet(S), NEW f, \A x, y \in S : f[x] = f[y] => x = y
  PROVE  IsFiniteSet({f[x] : x \in S}) /\ Cardinality({f[x] : x \in S}) = Cardinality(S)
<1> DEFINE T == {f[x] : x \in S}
           g == [x \in S |-> f[x]]
<1>1. g \in Bijection(S, T)
  BY DEF Bijection, Injection, Surjection, IsInjective
<1>2. ExistsBijection(S, T)
  BY <1>1 DEF ExistsBijection
<1> HIDE DEF T, g
<1>3. IsFiniteSet(T) /\ Cardinality(T) = Cardinality(S)
  BY <1>2, FS_Bijection
<1> QED
  BY <1>3 DEF T

------------------------------------------------------------------------------
(* Votes *)

\* What is sorted and unique next to one another is so everywhere.
LEMMA VotersDiffer ==
  ASSUME NEW votes \in Votes, IsUniqueSortedBy(votes, "index")
  PROVE  \A i, j \in 1 .. SuperMajority : votes[i].index = votes[j].index => i = j
<1>1. votes \in [1 .. SuperMajority -> [index : Nat, valid : BOOLEAN]] /\ SuperMajority \in Nat
  BY DisputesAssumption
<1>2. Len(votes) = SuperMajority
  BY <1>1
<1>3. \A i \in 2 .. SuperMajority : votes[i - 1].index < votes[i].index
  BY <1>2 DEF IsUniqueSortedBy
<1>4. ASSUME NEW i \in 1 .. SuperMajority, NEW j \in 1 .. SuperMajority, i < j
      PROVE  votes[i].index < votes[j].index
  <2> DEFINE Late == {k \in 1 .. SuperMajority : i < k /\ ~(votes[i].index < votes[k].index)}
  <2> SUFFICES ASSUME Late # {} PROVE FALSE
    BY <1>4
  <2>1. Late \subseteq Nat
    OBVIOUS
  <2>2. PICK k \in Late : \A m \in Late : k <= m
    <3> HIDE DEF Late
    <3> QED
      BY <2>1, LeastNumber
  <2>3. k \in 2 .. SuperMajority /\ k - 1 \in 1 .. SuperMajority /\ i <= k - 1
    BY <1>1
  <2>4. votes[k - 1].index < votes[k].index
    BY <1>3, <2>3
  <2>5. votes[i].index \in Nat /\ votes[k].index \in Nat /\ votes[k - 1].index \in Nat
    BY <1>1, <2>3
  <2>6. i = k - 1 \/ votes[i].index < votes[k - 1].index
    BY <2>2, <2>3
  <2> QED
    BY <2>4, <2>5, <2>6
<1>5. ASSUME NEW i \in 1 .. SuperMajority, NEW j \in 1 .. SuperMajority, votes[i].index = votes[j].index
      PROVE  i = j
  <2>1. votes[i].index \in Nat /\ votes[j].index \in Nat
    BY <1>1
  <2>2. ~(i < j) /\ ~(j < i)
    BY <1>4, <1>5, <2>1
  <2> QED
    BY <2>2
<1> QED
  BY <1>5

\* What an extrinsic lists, of what may be listed.
LEMMA UpToTwoFacts ==
  ASSUME NEW items, NEW field, NEW s \in UpToTwo(items, field)
  PROVE  /\ DOMAIN s = {} \/ DOMAIN s = {1} \/ DOMAIN s = {1, 2}
         /\ \A i \in DOMAIN s : s[i] \in items
         /\ IsUniqueSortedBy(s, field)
<1>1. s = <<>> \/ (\E i \in items : s = <<i>>) \/ s \in items \X items
  BY DEF UpToTwo
<1>2. IsUniqueSortedBy(s, field)
  BY DEF UpToTwo
<1>3. CASE s = <<>>
  <2>1. DOMAIN s = {}
    BY <1>3
  <2> QED
    BY <1>2, <2>1
<1>4. CASE \E i \in items : s = <<i>>
  BY <1>2, <1>4
<1>5. CASE s \in items \X items
  <2>1. s[1] \in items /\ s[2] \in items /\ DOMAIN s = {1, 2}
    BY <1>5
  <2> QED
    BY <1>2, <2>1
<1> QED
  BY <1>1, <1>3, <1>4, <1>5

Upheld(v) == {i \in DOMAIN v.votes : v.votes[i].valid}

AreSums(sums, verdicts, items) ==
    /\ DOMAIN sums = {verdicts[i].report : i \in DOMAIN verdicts}
    /\ IsFiniteSet(DOMAIN sums)
    /\ \A r \in DOMAIN sums : \E v \in items : v.report = r /\ sums[r] = Cardinality(Upheld(v))

\* A sum is that of a verdict that is in the extrinsic.
LEMMA SumsFacts ==
  ASSUME NEW items, NEW verdicts \in UpToTwo(items, "report")
  PROVE  AreSums(VotesFor(verdicts), verdicts, items)
<1> DEFINE met == {verdicts[i].report : i \in DOMAIN verdicts}
           at(r) == CHOOSE i \in DOMAIN verdicts : verdicts[i].report = r
<1>1. VotesFor(verdicts) = [r \in met |-> Cardinality(Upheld(verdicts[at(r)]))]
  BY DEF VotesFor, Upheld
<1>2. IsFiniteSet(met)
  <2>1. DOMAIN verdicts = {} \/ DOMAIN verdicts = {1} \/ DOMAIN verdicts = {1, 2}
    BY UpToTwoFacts
  <2>2. CASE DOMAIN verdicts = {}
    <3>1. met = {}
      BY <2>2
    <3> HIDE DEF met
    <3> QED
      BY <3>1, FS_EmptySet
  <2>3. CASE DOMAIN verdicts = {1}
    <3>1. met = {verdicts[1].report}
      BY <2>3
    <3> HIDE DEF met
    <3> QED
      BY <3>1, FS_Singleton
  <2>4. CASE DOMAIN verdicts = {1, 2}
    <3>1. met = {verdicts[1].report} \cup {verdicts[2].report}
      BY <2>4
    <3>2. IsFiniteSet({verdicts[1].report})
      BY FS_Singleton
    <3> HIDE DEF met
    <3> QED
      BY <3>1, <3>2, FS_AddElement
  <2> QED
    BY <2>1, <2>2, <2>3, <2>4
<1>3. ASSUME NEW r \in met
      PROVE  \E v \in items : v.report = r /\ VotesFor(verdicts)[r] = Cardinality(Upheld(v))
  <2>1. PICK j \in DOMAIN verdicts : verdicts[j].report = r
    OBVIOUS
  <2>2. at(r) \in DOMAIN verdicts /\ verdicts[at(r)].report = r
    BY <2>1
  <2>3. verdicts[at(r)] \in items
    BY <2>2, UpToTwoFacts
  <2>4. VotesFor(verdicts)[r] = Cardinality(Upheld(verdicts[at(r)]))
    BY <1>1
  <2> HIDE DEF at
  <2> QED
    BY <2>2, <2>3, <2>4
<1> HIDE DEF met
<1>4. DOMAIN VotesFor(verdicts) = met
  BY <1>1
<1> QED
  BY <1>2, <1>3, <1>4 DEF met, AreSums

\* A verdict whose signatures are good is carried by as many validators as
\* there are votes.
LEMMA VerdictIsCarried ==
  ASSUME NEW v \in Verdict, IsGoodVerdict(v)
  PROVE  IsCarried(v.report, Cardinality(Upheld(v)))
<1> DEFINE votes == v.votes
           e == v.votesEpoch
           all == 1 .. SuperMajority
           index == [i \in all |-> votes[i].index]
           voters == {index[i] : i \in all}
           yes == {index[i] : i \in Upheld(v)}
<1>1. votes \in Votes /\ votes \in [all -> [index : Nat, valid : BOOLEAN]] /\ SuperMajority \in Nat
  BY DisputesAssumption DEF Verdict
<1>2. \A i, j \in all : votes[i].index = votes[j].index => i = j
  BY <1>1, VotersDiffer DEF IsGoodVerdict
<1>3. IsFiniteSet(all) /\ Cardinality(all) = SuperMajority
  BY <1>1, FS_Interval
<1>4. Upheld(v) \in SUBSET all /\ DOMAIN votes = all
  BY <1>1 DEF Upheld
<1>5. IsFiniteSet(Upheld(v))
  BY <1>3, <1>4, FS_Subset
<1>6. \A i, j \in all : index[i] = index[j] => i = j
  BY <1>2
<1>7. Cardinality(voters) = SuperMajority
  <2> HIDE DEF all, index
  <2> QED
    BY <1>3, <1>6, ImageSize
<1>8. Cardinality(yes) = Cardinality(Upheld(v))
  <2>1. \A i, j \in Upheld(v) : index[i] = index[j] => i = j
    BY <1>4, <1>6
  <2> HIDE DEF index
  <2> QED
    BY <1>5, <2>1, ImageSize
<1>9. e \in {Epoch(slot), Epoch(slot) - 1} /\ voters \in SUBSET DOMAIN Validators[e]
  BY <1>4 DEF IsGoodVerdict
<1>10. yes \in SUBSET voters
  BY <1>4
<1>11. ASSUME NEW i \in voters PROVE IsSigned(Validators[e][i], Says(i \in yes), v.report)
  <2>1. PICK k \in all : i = votes[k].index
    OBVIOUS
  <2>2. (i \in yes) = votes[k].valid
    <3>1. votes[k].valid \in BOOLEAN
      BY <1>1
    <3>2. k \in Upheld(v) <=> votes[k].valid
      BY <1>4 DEF Upheld
    <3>3. i \in yes <=> k \in Upheld(v)
      BY <2>1, <1>4, <1>6
    <3> QED
      BY <3>1, <3>2, <3>3
  <2>3. IsSigned(Validators[e][votes[k].index], Says(votes[k].valid), v.report)
    BY <1>4 DEF IsGoodVerdict
  <2> QED
    BY <2>1, <2>2, <2>3
<1> HIDE DEF voters, yes, e
<1> QED
  BY <1>7, <1>8, <1>9, <1>10, <1>11 DEF IsCarried

------------------------------------------------------------------------------
(* The records *)

\* A report is judged in one way, and what is on a core belongs there and was reported.
RecordsApart(r) == r.good \cap r.bad = {} /\ r.good \cap r.wonky = {} /\ r.bad \cap r.wonky = {}
CoresInOrder ==
    /\ cores \in [DOMAIN cores -> Judgeable \cup {NoReport}]
    /\ \A c \in DOMAIN cores : cores[c] # NoReport => CoreOf[cores[c]] = c /\ cores[c] \in reported
DisputesInv == RecordsApart(records) /\ CoresInOrder

\* What the checks of a block establish before anything is changed.
ToJudge == {v \in Verdict : IsGoodVerdict(v) /\ v.report \notin Judged(records)}
Checked(verdicts, culprits, faults) ==
    LET newItems == DisputesRecordsNewItems(VotesFor(verdicts))
    IN  /\ verdicts \in UpToTwo(ToJudge, "report")
        /\ culprits \in UpToTwo({c \in Culprit : IsCulprit(c, newItems)}, "key")
        /\ faults \in UpToTwo({f \in Fault : IsFault(f, newItems)}, "key")
        /\ AreEnough(VotesFor(verdicts), culprits, faults)

\* Every sum is one of three, and each goes with one kind of new items.
LEMMA SumsAreThree ==
  ASSUME NEW verdicts, NEW culprits, NEW faults, Checked(verdicts, culprits, faults),
         NEW r \in DOMAIN VotesFor(verdicts)
  PROVE  LET sum == VotesFor(verdicts)[r]
             newItems == DisputesRecordsNewItems(VotesFor(verdicts))
         IN  /\ r \in Judgeable /\ r \notin Judged(records) /\ IsCarried(r, sum)
             /\ sum \in {0, Third, SuperMajority}
             /\ r \in newItems.good <=> sum = SuperMajority
             /\ r \in newItems.bad <=> sum = 0
             /\ r \in newItems.wonky <=> sum = Third
             /\ sum < SuperMajority <=> sum # SuperMajority
<1> DEFINE sums == VotesFor(verdicts)
           sum == sums[r]
<1>1. Third \in Nat /\ SuperMajority \in Nat /\ 0 < Third /\ Third < SuperMajority
  BY DisputesAssumption
<1>2. PICK v \in ToJudge : v.report = r /\ sum = Cardinality(Upheld(v))
  <2>1. verdicts \in UpToTwo(ToJudge, "report")
    BY DEF Checked
  <2>2. PICK items : items = ToJudge
    OBVIOUS
  <2> HIDE DEF sums
  <2>3. verdicts \in UpToTwo(items, "report")
    BY <2>1, <2>2
  <2>4. AreSums(VotesFor(verdicts), verdicts, items)
    BY <2>3, SumsFacts
  <2>5. \A s \in DOMAIN VotesFor(verdicts) : \E v \in items :
           v.report = s /\ VotesFor(verdicts)[s] = Cardinality(Upheld(v))
    BY <2>4 DEF AreSums
  <2> USE DEF sums
  <2> QED
    BY <2>2, <2>5
<1>3. r \in Judgeable /\ r \notin Judged(records) /\ IsCarried(r, sum)
  <2>1. v \in Verdict /\ IsGoodVerdict(v) /\ v.report \notin Judged(records)
    BY DEF ToJudge
  <2>2. v.report \in Judgeable
    BY <2>1 DEF Verdict
  <2> QED
    BY <1>2, <2>1, <2>2, VerdictIsCarried
<1>4. sum \in {0, Third, SuperMajority}
  BY DEF Checked, AreEnough
<1>5. /\ r \in DisputesRecordsNewItems(sums).good <=> sum >= SuperMajority
      /\ r \in DisputesRecordsNewItems(sums).bad <=> sum = 0
      /\ r \in DisputesRecordsNewItems(sums).wonky <=> (sum < SuperMajority /\ sum >= Third /\ sum # 0)
  BY DEF DisputesRecordsNewItems
<1>6. /\ r \in DisputesRecordsNewItems(sums).good <=> sum = SuperMajority
      /\ r \in DisputesRecordsNewItems(sums).bad <=> sum = 0
      /\ r \in DisputesRecordsNewItems(sums).wonky <=> sum = Third
      /\ sum < SuperMajority <=> sum # SuperMajority
  <2> HIDE DEF sum
  <2> QED
    BY <1>1, <1>4, <1>5
<1> QED
  BY <1>3, <1>4, <1>6

\* The new items are the reports with a sum.
LEMMA NewItemsHaveSums ==
  ASSUME NEW sums
  PROVE  LET newItems == DisputesRecordsNewItems(sums)
         IN  newItems.good \subseteq DOMAIN sums /\ newItems.bad \subseteq DOMAIN sums /\ newItems.wonky \subseteq DOMAIN sums
BY DEF DisputesRecordsNewItems

\* What is recorded: what is new of each kind is new, and of that kind only.
LEMMA RecordsAfter ==
  ASSUME DisputesInv, NEW verdicts, NEW culprits, NEW faults, Checked(verdicts, culprits, faults),
         records' = UpdatedRecords(DisputesRecordsNewItems(VotesFor(verdicts)), Offenders(culprits, faults))
  PROVE  LET newItems == DisputesRecordsNewItems(VotesFor(verdicts))
         IN  /\ RecordsApart(records')
             /\ records'.good \ records.good = newItems.good
             /\ records'.bad \ records.bad = newItems.bad
             /\ records'.wonky \ records.wonky = newItems.wonky
<1> DEFINE newItems == DisputesRecordsNewItems(VotesFor(verdicts))
           sums == VotesFor(verdicts)
<1>1. /\ newItems.good \subseteq DOMAIN sums /\ newItems.bad \subseteq DOMAIN sums
      /\ newItems.wonky \subseteq DOMAIN sums
  BY NewItemsHaveSums
<1>2. ASSUME NEW r \in DOMAIN sums
      PROVE  /\ r \notin records.good /\ r \notin records.bad /\ r \notin records.wonky
             /\ ~(r \in newItems.good /\ r \in newItems.bad)
             /\ ~(r \in newItems.good /\ r \in newItems.wonky)
             /\ ~(r \in newItems.bad /\ r \in newItems.wonky)
  <2>1. 0 # Third /\ Third # SuperMajority /\ 0 # SuperMajority
    BY DisputesAssumption
  <2>2. r \notin Judged(records)
    BY SumsAreThree
  <2>3. /\ r \in newItems.good <=> sums[r] = SuperMajority
        /\ r \in newItems.bad <=> sums[r] = 0
        /\ r \in newItems.wonky <=> sums[r] = Third
    BY SumsAreThree
  <2> HIDE DEF newItems, sums
  <2> QED
    BY <2>1, <2>2, <2>3 DEF Judged
<1>3. /\ records'.good = records.good \cup newItems.good
      /\ records'.bad = records.bad \cup newItems.bad
      /\ records'.wonky = records.wonky \cup newItems.wonky
  BY DEF UpdatedRecords
<1> HIDE DEF newItems, sums
<1>4. RecordsApart(records')
  BY <1>1, <1>2, <1>3 DEF DisputesInv, RecordsApart
<1>5. /\ records'.good \ records.good = newItems.good
      /\ records'.bad \ records.bad = newItems.bad
      /\ records'.wonky \ records.wonky = newItems.wonky
  BY <1>1, <1>2, <1>3
<1> QED
  BY <1>4, <1>5 DEF newItems

\* Fewer verdicts are met on the cores before c than there are: that on c's
\* own report is not.
LEMMA MetTooFew ==
  ASSUME CoresInOrder, NEW judged, IsFiniteSet(judged), judged \subseteq Judgeable,
         NEW c \in DOMAIN cores, cores[c] \in judged
  PROVE  Cardinality({b \in DOMAIN cores : b < c /\ cores[b] \in judged}) < Cardinality(judged)
<1> DEFINE M == {b \in DOMAIN cores : b < c /\ cores[b] \in judged}
           others == judged \ {cores[c]}
           on == [b \in M |-> cores[b]]
<1>1. \A b \in DOMAIN cores : cores[b] \in judged => CoreOf[cores[b]] = b /\ b \in Nat
  BY DisputesAssumption DEF CoresInOrder, Judgeable
<1>2. on \in Injection(M, others)
  <2>1. \A b \in M : cores[b] \in others
    BY <1>1
  <2>2. \A a, b \in M : cores[a] = cores[b] => a = b
    BY <1>1
  <2> HIDE DEF M, others
  <2> QED
    BY <2>1, <2>2 DEF Injection, IsInjective
<1>3. IsFiniteSet(others) /\ Cardinality(others) = Cardinality(judged) - 1
  <2> DEFINE report == cores[c]
  <2> HIDE DEF report
  <2> QED
    BY FS_RemoveElement DEF report
<1> HIDE DEF M, others, on
<1>4. IsFiniteSet(M) /\ Cardinality(M) <= Cardinality(others)
  BY <1>2, <1>3, FS_Injection
<1>5. Cardinality(M) \in Nat /\ Cardinality(judged) \in Nat
  BY <1>4, FS_CardinalityType
<1>6. Cardinality(M) < Cardinality(judged)
  BY <1>3, <1>4, <1>5
<1> QED
  BY <1>6 DEF M

\* A core loses its report to a verdict that does not uphold it, and only then.
LEMMA ClearedFacts ==
  ASSUME CoresInOrder, NEW sums, IsFiniteSet(DOMAIN sums), DOMAIN sums \subseteq Judgeable,
         NEW c \in DOMAIN cores
  PROVE  /\ DOMAIN ClearedCores(sums) = DOMAIN cores
         /\ ClearedCores(sums)[c] =
               IF cores[c] \in DOMAIN sums /\ sums[cores[c]] < SuperMajority THEN NoReport ELSE cores[c]
<1>1. DOMAIN ClearedCores(sums) = DOMAIN cores
  BY DEF ClearedCores
<1>2. ClearedCores(sums)[c] =
        IF /\ Cardinality({b \in DOMAIN cores : b < c /\ cores[b] \in DOMAIN sums}) < Cardinality(DOMAIN sums)
           /\ cores[c] \in DOMAIN sums /\ sums[cores[c]] < SuperMajority
        THEN NoReport ELSE cores[c]
  BY DEF ClearedCores
<1> DEFINE judged == DOMAIN sums
<1>3. cores[c] \in judged => Cardinality({b \in DOMAIN cores : b < c /\ cores[b] \in judged}) < Cardinality(judged)
  <2> HIDE DEF judged
  <2> QED
    BY MetTooFew DEF judged
<1> QED
  BY <1>1, <1>2, <1>3

------------------------------------------------------------------------------
(* A block *)

BlockIs(s, verdicts, culprits, faults) ==
    Checked(verdicts, culprits, faults) /\ ImportDisputes(s, verdicts, culprits, faults)

LEMMA SomeBlock ==
  ASSUME DisputesNext
  PROVE  \E s, verdicts, culprits, faults : BlockIs(s, verdicts, culprits, faults)
<1>1. PICK s \in (slot + 1) .. MaxSlot, verdicts \in UpToTwo(ToJudge, "report") :
        LET newItems == DisputesRecordsNewItems(VotesFor(verdicts)) IN
        \E culprits \in UpToTwo({c \in Culprit : IsCulprit(c, newItems)}, "key") :
        \E faults \in UpToTwo({f \in Fault : IsFault(f, newItems)}, "key") :
           AreEnough(VotesFor(verdicts), culprits, faults) /\ ImportDisputes(s, verdicts, culprits, faults)
  BY DEF DisputesNext, ToJudge
<1> DEFINE newItems == DisputesRecordsNewItems(VotesFor(verdicts))
<1>2. PICK culprits \in UpToTwo({c \in Culprit : IsCulprit(c, newItems)}, "key"),
           faults \in UpToTwo({f \in Fault : IsFault(f, newItems)}, "key") :
           AreEnough(VotesFor(verdicts), culprits, faults) /\ ImportDisputes(s, verdicts, culprits, faults)
  BY <1>1
<1>3. BlockIs(s, verdicts, culprits, faults)
  BY <1>2 DEF BlockIs, Checked
<1> QED
  BY <1>3

\* Those who are punished have signed what is held against them.
LEMMA OffendersSigned ==
  ASSUME DisputesInv, NEW verdicts, NEW culprits, NEW faults, Checked(verdicts, culprits, faults),
         NEW k \in Offenders(culprits, faults)
  PROVE  LET newItems == DisputesRecordsNewItems(VotesFor(verdicts))
         IN  /\ k \in UnpunishedKeys
             /\ \E r \in Judgeable :
                   \/ IsSigned(k, "invalid", r)
                   \/ r \in newItems.bad /\ (IsSigned(k, "guarantee", r) \/ IsSigned(k, "valid", r))
<1> DEFINE newItems == DisputesRecordsNewItems(VotesFor(verdicts))
           mayBeCulprits == {c \in Culprit : IsCulprit(c, newItems)}
           mayBeFaults == {f \in Fault : IsFault(f, newItems)}
<1>1. culprits \in UpToTwo(mayBeCulprits, "key") /\ faults \in UpToTwo(mayBeFaults, "key")
  BY DEF Checked
<1>2. ASSUME NEW i \in DOMAIN culprits, k = culprits[i].key
      PROVE  k \in UnpunishedKeys /\ \E r \in Judgeable : r \in newItems.bad /\ IsSigned(k, "guarantee", r)
  <2>1. culprits[i] \in mayBeCulprits
    <3> HIDE DEF mayBeCulprits
    <3> QED
      BY <1>1, UpToTwoFacts
  <2> QED
    BY <1>2, <2>1 DEF Culprit, IsCulprit
<1>3. ASSUME NEW i \in DOMAIN faults, k = faults[i].key
      PROVE  /\ k \in UnpunishedKeys
             /\ \E r \in Judgeable : IsSigned(k, "invalid", r) \/ (r \in newItems.bad /\ IsSigned(k, "valid", r))
  <2>1. faults[i] \in mayBeFaults
    <3> HIDE DEF mayBeFaults
    <3> QED
      BY <1>1, UpToTwoFacts
  <2>2. faults[i].report \in Judgeable /\ faults[i].valid \in BOOLEAN /\ IsFault(faults[i], newItems)
    BY <2>1 DEF Fault
  <2> QED
    BY <1>3, <2>2 DEF IsFault, Says
<1> HIDE DEF newItems
<1>4. k \in UnpunishedKeys /\ \E r \in Judgeable :
         IsSigned(k, "invalid", r) \/ (r \in newItems.bad /\ (IsSigned(k, "guarantee", r) \/ IsSigned(k, "valid", r)))
  BY <1>2, <1>3 DEF Offenders
<1> QED
  BY <1>4 DEF newItems

\* A good report costs somebody who denied it.
LEMMA GoodCosts ==
  ASSUME NEW verdicts, NEW culprits, NEW faults, Checked(verdicts, culprits, faults),
         NEW r \in DOMAIN VotesFor(verdicts), VotesFor(verdicts)[r] = SuperMajority
  PROVE  \E k \in Offenders(culprits, faults) \ records.punished : IsSigned(k, "invalid", r)
<1> DEFINE newItems == DisputesRecordsNewItems(VotesFor(verdicts))
           mayBeFaults == {f \in Fault : IsFault(f, newItems)}
<1>1. 0 < SuperMajority /\ 0 # SuperMajority /\ Third # SuperMajority
  BY DisputesAssumption
<1>2. PICK i \in DOMAIN faults : faults[i].report = r
  BY <1>1 DEF Checked, AreEnough
<1>3. faults[i] \in mayBeFaults
  <2>1. faults \in UpToTwo(mayBeFaults, "key")
    BY DEF Checked
  <2> HIDE DEF mayBeFaults
  <2> QED
    BY <2>1, UpToTwoFacts
<1>4. r \notin newItems.bad
  BY <1>1, SumsAreThree
<1>5. faults[i].valid \in BOOLEAN /\ IsFault(faults[i], newItems)
  BY <1>3 DEF Fault
<1>6. ~faults[i].valid
  BY <1>2, <1>4, <1>5 DEF IsFault
<1>7. faults[i].key \in UnpunishedKeys /\ IsSigned(faults[i].key, "invalid", r)
  BY <1>2, <1>5, <1>6 DEF IsFault, Says
<1> QED
  BY <1>7 DEF Offenders, UnpunishedKeys

\* A bad one costs two who guaranteed for it.
LEMMA BadCosts ==
  ASSUME NEW verdicts, NEW culprits, NEW faults, Checked(verdicts, culprits, faults),
         NEW r \in DOMAIN VotesFor(verdicts), VotesFor(verdicts)[r] = 0
  PROVE  \E k, l \in Offenders(culprits, faults) \ records.punished :
            k # l /\ IsSigned(k, "guarantee", r) /\ IsSigned(l, "guarantee", r)
<1> DEFINE newItems == DisputesRecordsNewItems(VotesFor(verdicts))
           mayBeCulprits == {c \in Culprit : IsCulprit(c, newItems)}
<1>1. 0 # SuperMajority /\ 0 # Third
  BY DisputesAssumption
<1>2. PICK i, j \in DOMAIN culprits : i # j /\ culprits[i].report = r /\ culprits[j].report = r
  BY <1>1 DEF Checked, AreEnough
<1>3. /\ DOMAIN culprits = {} \/ DOMAIN culprits = {1} \/ DOMAIN culprits = {1, 2}
      /\ culprits[i] \in mayBeCulprits /\ culprits[j] \in mayBeCulprits
      /\ IsUniqueSortedBy(culprits, "key")
  <2>1. culprits \in UpToTwo(mayBeCulprits, "key")
    BY DEF Checked
  <2> HIDE DEF mayBeCulprits
  <2> QED
    BY <2>1, UpToTwoFacts
<1>4. /\ culprits[i].key \in UnpunishedKeys /\ IsSigned(culprits[i].key, "guarantee", r)
      /\ culprits[j].key \in UnpunishedKeys /\ IsSigned(culprits[j].key, "guarantee", r)
      /\ culprits[i].key \in Nat /\ culprits[j].key \in Nat
  <2>1. \A e \in DOMAIN Validators : ValidatorKeys(e) \subseteq Nat
    BY DisputesAssumption DEF ValidatorKeys, ToSet
  <2> QED
    BY <1>2, <1>3, <2>1 DEF Culprit, IsCulprit
<1>5. culprits[1].key # culprits[2].key
  <2>1. DOMAIN culprits = {1, 2} /\ {i, j} = {1, 2}
    BY <1>2, <1>3
  <2>2. Len(culprits) = 2
    <3>1. culprits \in UpToTwo(mayBeCulprits, "key")
      BY DEF Checked
    <3> HIDE DEF mayBeCulprits
    <3> QED
      BY <2>1, <3>1 DEF UpToTwo
  <2>3. culprits[1].key < culprits[2].key
    BY <1>3, <2>2 DEF IsUniqueSortedBy
  <2>4. culprits[1].key \in Nat
    BY <1>4, <2>1
  <2> QED
    BY <2>3, <2>4
<1>6. culprits[i].key # culprits[j].key
  BY <1>2, <1>3, <1>5
<1> QED
  BY <1>4, <1>6 DEF Offenders, UnpunishedKeys

\* The cores after a block.
LEMMA CoresAfter ==
  ASSUME DisputesInv, NEW s, NEW verdicts, NEW culprits, NEW faults, BlockIs(s, verdicts, culprits, faults)
  PROVE  LET newItems == DisputesRecordsNewItems(VotesFor(verdicts))
         IN  /\ CoresInOrder'
             /\ \A c \in DOMAIN cores : cores[c] # NoReport =>
                   (cores'[c] # cores[c] <=> cores[c] \in newItems.bad \cup newItems.wonky)
<1> DEFINE sums == VotesFor(verdicts)
           newItems == DisputesRecordsNewItems(sums)
           cleared == ClearedCores(sums)
<1>1. CoresInOrder /\ Checked(verdicts, culprits, faults)
  BY DEF DisputesInv, BlockIs
<1>2. /\ cores' \in [DOMAIN cores -> Judgeable \cup {NoReport}]
      /\ \A c \in DOMAIN cores : cores'[c] = cleared[c] \/ (cleared[c] = NoReport /\ Places(c, cores'[c]))
      /\ reported' = reported \cup ({cores'[c] : c \in DOMAIN cores} \ {NoReport})
  BY DEF BlockIs, ImportDisputes
<1>3. IsFiniteSet(DOMAIN sums) /\ DOMAIN sums \subseteq Judgeable
  <2>1. PICK items : items = ToJudge
    OBVIOUS
  <2>2. verdicts \in UpToTwo(items, "report")
    BY <1>1, <2>1 DEF Checked
  <2>3. AreSums(sums, verdicts, items)
    BY <2>2, SumsFacts
  <2>4. DOMAIN sums \subseteq Judgeable
    BY <1>1, SumsAreThree
  <2> QED
    BY <2>3, <2>4 DEF AreSums
<1>4. ASSUME NEW c \in DOMAIN cores
      PROVE  cleared[c] = IF cores[c] \in DOMAIN sums /\ sums[cores[c]] < SuperMajority THEN NoReport ELSE cores[c]
  <2> HIDE DEF sums
  <2> QED
    BY <1>1, <1>3, ClearedFacts
<1>5. ASSUME NEW c \in DOMAIN cores
      PROVE  cores[c] \in DOMAIN sums /\ sums[cores[c]] < SuperMajority <=> cores[c] \in newItems.bad \cup newItems.wonky
  <2>1. newItems.bad \subseteq DOMAIN sums /\ newItems.wonky \subseteq DOMAIN sums
    BY NewItemsHaveSums
  <2>2. CASE cores[c] \in DOMAIN sums
    <3> DEFINE r == cores[c]
    <3>1. /\ sums[r] \in {0, Third, SuperMajority}
          /\ r \in newItems.bad <=> sums[r] = 0
          /\ r \in newItems.wonky <=> sums[r] = Third
          /\ sums[r] < SuperMajority <=> sums[r] # SuperMajority
      BY <1>1, <2>2, SumsAreThree
    <3>2. 0 # Third /\ Third # SuperMajority /\ 0 # SuperMajority
      BY DisputesAssumption
    <3> HIDE DEF sums, newItems, r
    <3>3. sums[r] < SuperMajority <=> r \in newItems.bad \cup newItems.wonky
      BY <3>1, <3>2
    <3> QED
      BY <2>2, <3>3 DEF r
  <2> QED
    BY <2>1, <2>2
<1> HIDE DEF sums, newItems, cleared
<1>6. ASSUME NEW c \in DOMAIN cores, cores[c] # NoReport
      PROVE  cores'[c] # cores[c] <=> cores[c] \in newItems.bad \cup newItems.wonky
  <2>1. cores[c] \in reported
    BY <1>1, <1>6 DEF CoresInOrder
  <2>2. CASE cores[c] \in newItems.bad \cup newItems.wonky
    <3>1. cleared[c] = NoReport
      BY <1>4, <1>5, <2>2
    <3>2. cores'[c] = NoReport \/ cores'[c] \notin reported
      BY <1>2, <3>1 DEF Places
    <3> QED
      BY <1>6, <2>1, <2>2, <3>2
  <2>3. CASE cores[c] \notin newItems.bad \cup newItems.wonky
    <3>1. cleared[c] = cores[c]
      BY <1>4, <1>5, <2>3
    <3> QED
      BY <1>2, <1>6, <2>3, <3>1
  <2> QED
    BY <2>2, <2>3
<1>7. ASSUME NEW c \in DOMAIN cores, cores'[c] # NoReport
      PROVE  CoreOf[cores'[c]] = c /\ cores'[c] \in reported'
  <2>1. cores'[c] \in reported'
    BY <1>2, <1>7
  <2>2. CASE cores'[c] = cleared[c]
    <3>1. cleared[c] = cores[c]
      BY <1>4, <1>7, <2>2
    <3> QED
      BY <1>1, <1>7, <2>1, <2>2, <3>1 DEF CoresInOrder
  <2>3. CASE Places(c, cores'[c])
    BY <1>7, <2>1, <2>3 DEF Places
  <2> QED
    BY <1>2, <2>2, <2>3
<1>8. CoresInOrder'
  <2>1. DOMAIN cores' = DOMAIN cores
    BY <1>2
  <2> QED
    BY <1>2, <1>7, <2>1 DEF CoresInOrder
<1> QED
  BY <1>6, <1>8 DEF newItems, sums

\* A block keeps the invariant and is just.
LEMMA BlockIsJust ==
  ASSUME DisputesInv, NEW s, NEW verdicts, NEW culprits, NEW faults, BlockIs(s, verdicts, culprits, faults)
  PROVE  DisputesInv' /\ IsJust
<1> DEFINE sums == VotesFor(verdicts)
           newItems == DisputesRecordsNewItems(sums)
           offenders == Offenders(culprits, faults)
           convicted == records'.punished \ records.punished
<1>1. Checked(verdicts, culprits, faults) /\ records' = UpdatedRecords(newItems, offenders)
  BY DEF BlockIs, ImportDisputes
<1>2. /\ RecordsApart(records')
      /\ records'.good \ records.good = newItems.good
      /\ records'.bad \ records.bad = newItems.bad
      /\ records'.wonky \ records.wonky = newItems.wonky
  BY <1>1, RecordsAfter
<1>3. records'.punished = records.punished \cup offenders /\ convicted = offenders \ records.punished
  BY <1>1 DEF UpdatedRecords
<1>4. /\ CoresInOrder'
      /\ \A c \in DOMAIN cores : cores[c] # NoReport =>
            (cores'[c] # cores[c] <=> cores[c] \in newItems.bad \cup newItems.wonky)
  BY CoresAfter
<1>5. /\ newItems.good \subseteq DOMAIN sums /\ newItems.bad \subseteq DOMAIN sums
      /\ newItems.wonky \subseteq DOMAIN sums
  BY NewItemsHaveSums
<1>6. ASSUME NEW r \in newItems.good
      PROVE  IsCarried(r, SuperMajority) /\ \E k \in convicted : IsSigned(k, "invalid", r)
  <2>1. r \in DOMAIN sums /\ sums[r] = SuperMajority /\ IsCarried(r, sums[r])
    BY <1>1, <1>5, SumsAreThree
  <2> HIDE DEF convicted
  <2> QED
    BY <1>1, <1>3, <2>1, GoodCosts
<1>7. ASSUME NEW r \in newItems.bad
      PROVE  /\ IsCarried(r, 0)
             /\ \E k, l \in convicted : k # l /\ IsSigned(k, "guarantee", r) /\ IsSigned(l, "guarantee", r)
  <2>1. r \in DOMAIN sums /\ sums[r] = 0 /\ IsCarried(r, sums[r])
    BY <1>1, <1>5, SumsAreThree
  <2> HIDE DEF convicted
  <2> QED
    BY <1>1, <1>3, <2>1, BadCosts
<1>8. ASSUME NEW r \in newItems.wonky PROVE IsCarried(r, Third)
  BY <1>1, <1>5, SumsAreThree
<1>9. ASSUME NEW k \in convicted
      PROVE  /\ k \in ValidatorKeys(Epoch(slot)) \cup ValidatorKeys(Epoch(slot) - 1)
             /\ \E r \in Judgeable :
                   \/ IsSigned(k, "invalid", r)
                   \/ r \in newItems.bad /\ (IsSigned(k, "guarantee", r) \/ IsSigned(k, "valid", r))
  <2>1. k \in offenders
    BY <1>3
  <2>2. /\ k \in UnpunishedKeys
        /\ \E r \in Judgeable :
              \/ IsSigned(k, "invalid", r)
              \/ r \in newItems.bad /\ (IsSigned(k, "guarantee", r) \/ IsSigned(k, "valid", r))
    BY <1>1, <2>1, OffendersSigned
  <2> QED
    BY <2>2 DEF UnpunishedKeys
<1>10. \A kind \in {"good", "bad", "wonky", "punished"} : records[kind] \subseteq records'[kind]
  BY <1>1 DEF UpdatedRecords
<1>11. \A kind, other \in {"good", "bad", "wonky"} : kind # other => records'[kind] \cap records'[other] = {}
  BY <1>2 DEF RecordsApart
<1> DEFINE new(judged) == records'[judged] \ records[judged]
<1>12. new("good") = newItems.good /\ new("bad") = newItems.bad /\ new("wonky") = newItems.wonky /\ new("punished") = convicted
  BY <1>2
<1> HIDE DEF newItems, sums, offenders, convicted, new
<1>13. /\ \A r \in new("good") : IsCarried(r, SuperMajority) /\ \E k \in convicted : IsSigned(k, "invalid", r)
       /\ \A r \in new("bad") :
             /\ IsCarried(r, 0)
             /\ \E k, l \in convicted : k # l /\ IsSigned(k, "guarantee", r) /\ IsSigned(l, "guarantee", r)
       /\ \A r \in new("wonky") : IsCarried(r, Third)
  BY <1>6, <1>7, <1>8, <1>12
<1>14. \A k \in convicted :
          /\ k \in ValidatorKeys(Epoch(slot)) \cup ValidatorKeys(Epoch(slot) - 1)
          /\ \E r \in Judgeable :
              IsSigned(k, "invalid", r) \/ (r \in new("bad") /\ (IsSigned(k, "guarantee", r) \/ IsSigned(k, "valid", r)))
  BY <1>9, <1>12
<1>15. \A c \in DOMAIN cores : cores[c] # NoReport =>
          (cores'[c] # cores[c] <=> cores[c] \in new("bad") \cup new("wonky"))
  BY <1>4, <1>12
<1>16. DisputesInv'
  BY <1>2, <1>4 DEF DisputesInv, RecordsApart
<1>17. IsJust
  BY <1>10, <1>11, <1>13, <1>14, <1>15 DEF IsJust, new, convicted
<1> QED
  BY <1>16, <1>17

LEMMA InitDisputesInv == DisputesInit => DisputesInv
<1> SUFFICES ASSUME DisputesInit PROVE DisputesInv
  OBVIOUS
<1>1. RecordsApart(records)
  BY DEF DisputesInit, RecordsApart
<1>2. /\ cores \in [{CoreOf[r] : r \in Judgeable} -> Judgeable \cup {NoReport}]
      /\ \A c \in DOMAIN cores : cores[c] = NoReport \/ CoreOf[cores[c]] = c
      /\ reported = {cores[c] : c \in DOMAIN cores} \ {NoReport}
  BY DEF DisputesInit
<1>3. CoresInOrder
  BY <1>2 DEF CoresInOrder
<1> QED
  BY <1>1, <1>3 DEF DisputesInv

LEMMA StepIsJust == DisputesInv /\ [DisputesNext]_disputesVars => DisputesInv' /\ [IsJust]_disputesVars
<1> SUFFICES ASSUME DisputesInv, [DisputesNext]_disputesVars PROVE DisputesInv' /\ [IsJust]_disputesVars
  OBVIOUS
<1>1. CASE DisputesNext
  BY <1>1, SomeBlock, BlockIsJust
<1>2. CASE UNCHANGED disputesVars
  <2>1. records' = records /\ cores' = cores /\ reported' = reported
    BY <1>2 DEF disputesVars
  <2>2. DisputesInv'
    BY <2>1 DEF DisputesInv, RecordsApart, CoresInOrder
  <2> QED
    BY <1>2, <2>2
<1> QED
  BY <1>1, <1>2

\* A report is judged once, by as many validators as the verdict says, a bad
\* one costs two guarantors and a good one somebody who denied it, nobody is
\* punished for what they did not sign, and a core loses its report to a
\* verdict that does not uphold it and to nothing else: Disputes.transition
\* (jam/transition/disputes/disputes.ts).
THEOREM JustVerdicts == DisputesSpec => VerdictsAreJust
<1>1. DisputesInit => DisputesInv
  BY InitDisputesInv
<1>2. DisputesInv /\ [DisputesNext]_disputesVars => DisputesInv' /\ [IsJust]_disputesVars
  BY StepIsJust
<1> QED
  BY <1>1, <1>2, PTL DEF DisputesSpec, VerdictsAreJust

------------------------------------------------------------------------------
(* The pool of workers: what holds of the pool and the ports s, with the   *)
(* tasks that are pending.                                                 *)

Listener == [task : Task, index : Nat]
PortType == [open : BOOLEAN, posted : Seq(Task), listeners : SUBSET Listener, answers : Seq(Task)]
PoolTypes ==
    [pool : [workers : Seq(Thread), free : Seq(Nat), queue : Seq(Task), destroyed : BOOLEAN,
             initializing : BOOLEAN, threads : 0 .. MaxThreads],
     ports : [Thread -> PortType]]

\* A thread is in the pool once, and one that was not started has no port.
ThreadsInOrder(s) ==
    /\ IsInjective(s.pool.workers)
    /\ \A i \in DOMAIN s.pool.workers : s.pool.workers[i] <= s.pool.threads
    /\ \A w \in Thread : w > s.pool.threads => s.ports[w] = NoPort
    /\ \A w \in Thread : s.ports[w].open => \E i \in DOMAIN s.pool.workers : s.pool.workers[i] = w

\* Who listens to an open port gives the worker back that the port belongs to.
ListenersInOrder(s) ==
    \A w \in Thread : \A l \in s.ports[w].listeners :
        /\ s.ports[w].listeners = {l}
        /\ s.ports[w].open => l.index \in DOMAIN s.pool.workers /\ s.pool.workers[l.index] = w

\* As long as there may be work, whoever is free has none.
FreeInOrder(s) ==
    ~s.pool.destroyed \/ s.pool.queue # <<>> =>
        /\ IsInjective(s.pool.free)
        /\ \A i \in DOMAIN s.pool.free :
            s.pool.free[i] \in DOMAIN s.pool.workers /\ s.ports[s.pool.workers[s.pool.free[i]]].listeners = {}

\* A thread has what its listener waits for, or has answered it.
WorkInOrder(s) ==
    \A w \in Thread : s.ports[w].open =>
        /\ s.ports[w].listeners = {} => s.ports[w].posted = <<>> /\ s.ports[w].answers = <<>>
        /\ \A l \in s.ports[w].listeners :
            \/ s.ports[w].posted = <<l.task>> /\ s.ports[w].answers = <<>>
            \/ s.ports[w].posted = <<>> /\ s.ports[w].answers = <<l.task>>

\* A task that is pending is in one place.
TasksInOrder(s, pending) ==
    /\ IsInjective(s.pool.queue)
    /\ \A i \in DOMAIN s.pool.queue : s.pool.queue[i] \in pending
    /\ \A w \in Thread : \A l \in s.ports[w].listeners :
        /\ l.task \in pending
        /\ \A i \in DOMAIN s.pool.queue : s.pool.queue[i] # l.task
        /\ \A v \in Thread : \A m \in s.ports[v].listeners : m.task = l.task => v = w
    /\ \A t \in pending :
        (\E i \in DOMAIN s.pool.queue : s.pool.queue[i] = t) \/ (\E w \in Thread : \E l \in s.ports[w].listeners : l.task = t)

PoolInOrder(s, pending) ==
    ThreadsInOrder(s) /\ ListenersInOrder(s) /\ FreeInOrder(s) /\ WorkInOrder(s) /\ TasksInOrder(s, pending)

\* Nobody waits while a worker is free; before an entry is processed, one may.
NoneWaits(s) == s.pool.queue # <<>> => s.pool.free = <<>>
OneWaits(s) == s.pool.queue # <<>> /\ s.pool.free # <<>> => Len(s.pool.queue) = 1 \/ Len(s.pool.free) = 1

PendingTasks == {t \in Task : tasks[t] = "pending"}
\* destroy() has closed the ports of the first workers.
ClosedUpTo(s, n) ==
    ~s.pool.destroyed =>
        /\ n <= Len(s.pool.workers)
        /\ \A i \in DOMAIN s.pool.workers : i <= n => ~s.ports[s.pool.workers[i]].open
PoolInv ==
    /\ Now \in PoolTypes
    /\ tasks \in [Task -> {"new", "pending", "rejected"} \cup Task]
    /\ \A t \in Task : tasks[t] \in {"new", "pending", "rejected", t}
    /\ destroying \in Nat /\ ClosedUpTo(Now, destroying)
    /\ NoneWaits(Now) /\ PoolInOrder(Now, PendingTasks)

LEMMA ThreadIsNat == Thread \subseteq Nat /\ MaxThreads \in Nat
BY PoolAssumption DEF Thread

\* The front and the last element of a sequence.
LEMMA FrontLast ==
  ASSUME NEW S, NEW seq \in Seq(S), seq # <<>>
  PROVE  /\ Len(seq) \in Nat \ {0} /\ DOMAIN seq = 1 .. Len(seq)
         /\ Front(seq) \in Seq(S) /\ Len(Front(seq)) = Len(seq) - 1
         /\ DOMAIN Front(seq) = 1 .. (Len(seq) - 1)
         /\ \A i \in 1 .. (Len(seq) - 1) : Front(seq)[i] = seq[i]
         /\ Last(seq) = seq[Len(seq)] /\ Last(seq) \in S
<1>1. Len(seq) \in Nat \ {0} /\ DOMAIN seq = 1 .. Len(seq) /\ seq[Len(seq)] \in S
  <2>1. Len(seq) \in Nat /\ Len(seq) # 0 /\ DOMAIN seq = 1 .. Len(seq)
    BY EmptySeq
  <2> QED
    BY <2>1, ElementOfSeq
<1>2. Front(seq) = SubSeq(seq, 1, Len(seq) - 1)
  BY DEF Front
<1>3. /\ SubSeq(seq, 1, Len(seq) - 1) \in Seq(S) /\ Len(SubSeq(seq, 1, Len(seq) - 1)) = Len(seq) - 1
      /\ \A i \in 1 .. (Len(seq) - 1) : SubSeq(seq, 1, Len(seq) - 1)[i] = seq[i]
  BY <1>1
<1>4. DOMAIN Front(seq) = 1 .. (Len(seq) - 1)
  BY <1>1, <1>2, <1>3
<1> QED
  BY <1>1, <1>2, <1>3, <1>4 DEF Last

\* The same in terms of places.
PlacesOfFront(seq, front, last) ==
    /\ Len(seq) \in DOMAIN seq /\ last = seq[Len(seq)]
    /\ \A j \in DOMAIN front : j \in DOMAIN seq /\ front[j] = seq[j]
    /\ \A j \in DOMAIN seq : j \in DOMAIN front \/ j = Len(seq)
LEMMA FrontPlaces ==
  ASSUME NEW S, NEW seq \in Seq(S), seq # <<>>
  PROVE  PlacesOfFront(seq, Front(seq), Last(seq))
<1> DEFINE n == Len(seq)
           front == Front(seq)
<1>1. /\ n \in Nat \ {0} /\ DOMAIN seq = 1 .. n /\ DOMAIN front = 1 .. (n - 1)
      /\ \A i \in 1 .. (n - 1) : front[i] = seq[i]
      /\ Last(seq) = seq[n]
  BY FrontLast
<1> HIDE DEF n, front
<1>2. n \in 1 .. n /\ (\A j \in 1 .. (n - 1) : j \in 1 .. n) /\ (\A j \in 1 .. n : j \in 1 .. (n - 1) \/ j = n)
  BY <1>1
<1>3. /\ n \in DOMAIN seq /\ Last(seq) = seq[n]
      /\ \A j \in DOMAIN front : j \in DOMAIN seq /\ front[j] = seq[j]
      /\ \A j \in DOMAIN seq : j \in DOMAIN front \/ j = n
  BY <1>1, <1>2
<1> QED
  BY <1>3 DEF n, front, PlacesOfFront

\* What is injective stays so without its last element, which is then gone.
LEMMA FrontInjective ==
  ASSUME NEW S, NEW seq \in Seq(S), seq # <<>>, IsInjective(seq)
  PROVE  IsInjective(Front(seq)) /\ \A i \in DOMAIN Front(seq) : Front(seq)[i] # Last(seq)
<1>1. /\ Len(seq) \in Nat \ {0} /\ DOMAIN seq = 1 .. Len(seq) /\ DOMAIN Front(seq) = 1 .. (Len(seq) - 1)
      /\ \A i \in 1 .. (Len(seq) - 1) : Front(seq)[i] = seq[i]
      /\ Last(seq) = seq[Len(seq)]
  BY FrontLast
<1>2. \A a, b \in 1 .. Len(seq) : seq[a] = seq[b] => a = b
  BY <1>1 DEF IsInjective
<1> DEFINE n == Len(seq)
           front == Front(seq)
<1>3. n \in Nat \ {0}
  BY <1>1
<1> HIDE DEF n, front
<1>4. \A a \in 1 .. (n - 1) : a \in 1 .. n /\ a # n
  BY <1>3
<1>5. DOMAIN front = 1 .. (n - 1) /\ (\A i \in 1 .. (n - 1) : front[i] = seq[i]) /\ Last(seq) = seq[n] /\ n \in 1 .. n
  BY <1>1, <1>3 DEF n, front
<1>6. \A a, b \in 1 .. n : seq[a] = seq[b] => a = b
  BY <1>2 DEF n
<1>7. IsInjective(front) /\ \A i \in DOMAIN front : front[i] # Last(seq)
  BY <1>4, <1>5, <1>6 DEF IsInjective
<1> QED
  BY <1>7 DEF front

\* A step that leaves the pool with what it had, but for its queue and its free workers.
SamePool(s, t) ==
    /\ t.pool.workers = s.pool.workers /\ t.pool.destroyed = s.pool.destroyed /\ t.pool.threads = s.pool.threads
    /\ \A w \in Thread : t.ports[w].open = s.ports[w].open

TakenFrom(s) == [s EXCEPT !.pool.queue = Front(@), !.pool.free = Front(@)]

\* The port of a worker that takes a task.
PortWith(p, l) == [p EXCEPT !.listeners = @ \cup {l}, !.posted = IF p.open THEN Append(@, l.task) ELSE @]

LEMMA PortWithShape ==
  ASSUME NEW p \in PortType, NEW l
  PROVE  PortWith(p, l) = [open |-> p.open, posted |-> IF p.open THEN Append(p.posted, l.task) ELSE p.posted,
                           listeners |-> p.listeners \cup {l}, answers |-> p.answers]
<1> DEFINE posted == IF p.open THEN Append(p.posted, l.task) ELSE p.posted
<1>1. p = [open |-> p.open, posted |-> p.posted, listeners |-> p.listeners, answers |-> p.answers]
  BY DEF PortType
<1>2. PortWith(p, l) = [p EXCEPT !.listeners = @ \cup {l}, !.posted = posted]
  BY DEF PortWith
<1> HIDE DEF posted
<1>3. PortWith(p, l) = [open |-> p.open, posted |-> posted, listeners |-> p.listeners \cup {l}, answers |-> p.answers]
  BY <1>1, <1>2
<1> QED
  BY <1>3 DEF posted

LEMMA PortWithFields ==
  ASSUME NEW p \in PortType, NEW l \in Listener
  PROVE  /\ PortWith(p, l) \in PortType
         /\ PortWith(p, l).listeners = p.listeners \cup {l} /\ PortWith(p, l).open = p.open
         /\ PortWith(p, l).answers = p.answers
         /\ PortWith(p, l).posted = IF p.open THEN Append(p.posted, l.task) ELSE p.posted
<1> DEFINE posted == IF p.open THEN Append(p.posted, l.task) ELSE p.posted
<1>1. p.open \in BOOLEAN /\ p.posted \in Seq(Task) /\ p.listeners \in SUBSET Listener /\ p.answers \in Seq(Task)
  BY DEF PortType
<1>2. posted \in Seq(Task)
  BY <1>1 DEF Listener
<1>4. PortWith(p, l) = [open |-> p.open, posted |-> posted, listeners |-> p.listeners \cup {l}, answers |-> p.answers]
  BY PortWithShape
<1> HIDE DEF posted
<1>5. PortWith(p, l) \in PortType
  BY <1>1, <1>2, <1>4 DEF PortType
<1> QED
  BY <1>4, <1>5 DEF posted

\* t is s after the worker at i was given the task.
IsGiven(s, i, task, t) ==
    /\ t.pool = s.pool /\ t = [pool |-> t.pool, ports |-> t.ports]
    /\ t.ports = [s.ports EXCEPT ![s.pool.workers[i]] = PortWith(@, [task |-> task, index |-> i])]

LEMMA RunTaskShape ==
  ASSUME NEW s \in PoolTypes, NEW i \in DOMAIN s.pool.workers, NEW task \in Task
  PROVE  IsGiven(s, i, task, RunTask(s, i, task))
<1> DEFINE l == [task |-> task, index |-> i]
           w == s.pool.workers[i]
           heard == [s EXCEPT !.ports[w].listeners = @ \cup {l}]
           t == RunTask(s, i, task)
<1>1. s = [pool |-> s.pool, ports |-> s.ports] /\ s.pool.workers \in Seq(Thread)
      /\ s.ports \in [Thread -> PortType]
  BY DEF PoolTypes
<1>2. w \in Thread
  BY <1>1, ElementOfSeq
<1>3. t = [heard EXCEPT !.ports[w].posted = IF s.ports[w].open THEN Append(@, task) ELSE @]
  BY DEF RunTask
<1>10. l.task = task
  OBVIOUS
<1> HIDE DEF w, t, l
<1>4. /\ heard.pool = s.pool /\ heard.ports = [s.ports EXCEPT ![w].listeners = @ \cup {l}]
      /\ heard = [pool |-> heard.pool, ports |-> heard.ports]
  <2> DEFINE X == [s.ports EXCEPT ![w].listeners = @ \cup {l}]
  <2>1. heard = [s EXCEPT !.ports = X]
    OBVIOUS
  <2> HIDE DEF X, heard
  <2>2. heard = [pool |-> s.pool, ports |-> X]
    BY <1>1, <2>1
  <2> QED
    BY <2>2 DEF X
<1> HIDE DEF heard
<1>5. /\ t.pool = s.pool /\ t = [pool |-> t.pool, ports |-> t.ports]
      /\ t.ports = [heard.ports EXCEPT ![w].posted = IF s.ports[w].open THEN Append(@, task) ELSE @]
  BY <1>3, <1>4
<1>6. heard.ports = [v \in Thread |-> IF v = w THEN [s.ports[w] EXCEPT !.listeners = @ \cup {l}] ELSE s.ports[v]]
  BY <1>1, <1>4
<1>7. t.ports = [v \in Thread |-> IF v = w THEN [heard.ports[w] EXCEPT !.posted = IF s.ports[w].open THEN Append(@, task) ELSE @]
                                  ELSE heard.ports[v]]
  BY <1>5, <1>6
<1>8. [heard.ports[w] EXCEPT !.posted = IF s.ports[w].open THEN Append(@, task) ELSE @] = PortWith(s.ports[w], l)
  <2> DEFINE p == s.ports[w]
  <2>1. p \in PortType /\ heard.ports[w] = [p EXCEPT !.listeners = @ \cup {l}]
    BY <1>1, <1>2, <1>6
  <2>2. p = [open |-> p.open, posted |-> p.posted, listeners |-> p.listeners, answers |-> p.answers]
    BY <2>1 DEF PortType
  <2> HIDE DEF p
  <2>3. [heard.ports[w] EXCEPT !.posted = IF p.open THEN Append(@, task) ELSE @] = PortWith(p, l)
    <3> DEFINE posted == IF p.open THEN Append(p.posted, task) ELSE p.posted
    <3>1. heard.ports[w] = [open |-> p.open, posted |-> p.posted, listeners |-> p.listeners \cup {l}, answers |-> p.answers]
      BY <2>1, <2>2
    <3>2. PortWith(p, l) = [open |-> p.open, posted |-> posted, listeners |-> p.listeners \cup {l}, answers |-> p.answers]
      BY <1>10, <2>1, PortWithShape
    <3>3. (IF p.open THEN Append(heard.ports[w].posted, task) ELSE heard.ports[w].posted) = posted
      BY <3>1
    <3> HIDE DEF posted
    <3>4. [heard.ports[w] EXCEPT !.posted = posted]
           = [open |-> p.open, posted |-> posted, listeners |-> p.listeners \cup {l}, answers |-> p.answers]
      BY <3>1
    <3> QED
      BY <3>2, <3>3, <3>4
  <2> QED
    BY <2>3 DEF p
<1>9. t.ports = [v \in Thread |-> IF v = w THEN PortWith(s.ports[w], l) ELSE s.ports[v]]
  BY <1>2, <1>6, <1>7, <1>8
<1>11. t.ports = [s.ports EXCEPT ![w] = PortWith(s.ports[w], l)]
  BY <1>1, <1>9
<1> QED
  BY <1>5, <1>11 DEF w, t, l, IsGiven

\* The last free worker takes the last task.
LEMMA TakeFacts ==
  ASSUME NEW s \in PoolTypes, NEW pending, PoolInOrder(s, pending), s.pool.queue # <<>>, s.pool.free # <<>>
  PROVE  LET t == RunTask(TakenFrom(s), Last(s.pool.free), Last(s.pool.queue))
         IN  t \in PoolTypes /\ PoolInOrder(t, pending) /\ SamePool(s, t)
             /\ t.pool.queue = Front(s.pool.queue) /\ t.pool.free = Front(s.pool.free)
<1> DEFINE i == Last(s.pool.free)
           task == Last(s.pool.queue)
           w == s.pool.workers[i]
           l == [task |-> task, index |-> i]
           t == RunTask(TakenFrom(s), i, task)
           u == TakenFrom(s)
<1>1. /\ s.pool.workers \in Seq(Thread) /\ s.pool.free \in Seq(Nat) /\ s.pool.queue \in Seq(Task)
      /\ s.ports \in [Thread -> PortType]
  BY DEF PoolTypes
<1>2. ThreadsInOrder(s) /\ ListenersInOrder(s) /\ FreeInOrder(s) /\ WorkInOrder(s) /\ TasksInOrder(s, pending)
  BY DEF PoolInOrder
<1>3. Front(s.pool.queue) \in Seq(Task) /\ task \in Task /\ PlacesOfFront(s.pool.queue, Front(s.pool.queue), task)
  BY <1>1, FrontLast, FrontPlaces
<1>4. Front(s.pool.free) \in Seq(Nat) /\ i \in Nat /\ PlacesOfFront(s.pool.free, Front(s.pool.free), i)
  BY <1>1, FrontLast, FrontPlaces
<1>5. IsInjective(Front(s.pool.queue)) /\ \A j \in DOMAIN Front(s.pool.queue) : Front(s.pool.queue)[j] # task
  BY <1>1, <1>2, FrontInjective DEF TasksInOrder
<1>6. IsInjective(Front(s.pool.free)) /\ \A j \in DOMAIN Front(s.pool.free) : Front(s.pool.free)[j] # i
  BY <1>1, <1>2, FrontInjective DEF FreeInOrder
<1>7. i \in DOMAIN s.pool.workers /\ w \in Thread /\ s.ports[w].listeners = {}
  <2>1. i \in DOMAIN s.pool.workers /\ s.ports[s.pool.workers[i]].listeners = {}
    BY <1>2, <1>4 DEF FreeInOrder, PlacesOfFront
  <2> QED
    BY <1>1, <2>1, ElementOfSeq
<1>8. /\ u.pool = [s.pool EXCEPT !.queue = Front(s.pool.queue), !.free = Front(s.pool.free)]
      /\ u.ports = s.ports /\ u \in PoolTypes
  BY <1>3, <1>4 DEF PoolTypes, TakenFrom
<1>9. /\ t.pool = u.pool /\ t.ports = [s.ports EXCEPT ![w] = PortWith(s.ports[w], l)]
      /\ t = [pool |-> t.pool, ports |-> t.ports]
  <2>1. u.pool.workers = s.pool.workers
    BY <1>1, <1>8 DEF PoolTypes
  <2> HIDE DEF u, i, task, w, l, t
  <2>2. IsGiven(u, i, task, RunTask(u, i, task))
    BY <1>3, <1>7, <1>8, <2>1, RunTaskShape
  <2>3. t = RunTask(u, i, task) /\ w = s.pool.workers[i] /\ l = [task |-> task, index |-> i]
    BY DEF t, u, w, l
  <2> QED
    BY <1>8, <2>1, <2>2, <2>3 DEF IsGiven
<1>10. /\ t.pool.queue = Front(s.pool.queue) /\ t.pool.free = Front(s.pool.free)
       /\ t.pool.workers = s.pool.workers /\ t.pool.destroyed = s.pool.destroyed /\ t.pool.threads = s.pool.threads
  <2> HIDE DEF t, u
  <2> QED
    BY <1>8, <1>9 DEF PoolTypes
<1>11. l \in Listener /\ l.task = task /\ l.index = i
  BY <1>3, <1>4 DEF Listener
<1>12. /\ t.ports[w].listeners = {l} /\ t.ports[w].open = s.ports[w].open /\ t.ports[w].answers = s.ports[w].answers
       /\ t.ports[w].posted = IF s.ports[w].open THEN Append(s.ports[w].posted, task) ELSE s.ports[w].posted
       /\ t.ports[w] \in PortType
       /\ \A v \in Thread : v # w => t.ports[v] = s.ports[v]
       /\ \A v \in Thread : t.ports[v].open = s.ports[v].open
  <2>1. /\ PortWith(s.ports[w], l).listeners = {l} /\ PortWith(s.ports[w], l).open = s.ports[w].open
        /\ PortWith(s.ports[w], l).answers = s.ports[w].answers
        /\ PortWith(s.ports[w], l).posted = IF s.ports[w].open THEN Append(s.ports[w].posted, task) ELSE s.ports[w].posted
        /\ PortWith(s.ports[w], l) \in PortType
    <3> DEFINE p == s.ports[w]
    <3>1. p \in PortType /\ p.listeners = {}
      BY <1>1, <1>7
    <3> HIDE DEF p, t, u, w, l
    <3> QED
      BY <1>11, <3>1, PortWithFields DEF p
  <2> HIDE DEF t, u, l, w
  <2>2. t.ports[w] = PortWith(s.ports[w], l) /\ \A v \in Thread : v # w => t.ports[v] = s.ports[v]
    BY <1>1, <1>7, <1>9
  <2> QED
    BY <1>1, <1>7, <2>1, <2>2 DEF l
<1> HIDE DEF t, u, l, w, i, task
<1>13. t \in PoolTypes
  <2>1. t.ports \in [Thread -> PortType]
    BY <1>1, <1>7, <1>9, <1>12
  <2> QED
    BY <1>8, <1>9, <2>1 DEF PoolTypes
<1>14. SamePool(s, t)
  BY <1>10, <1>12 DEF SamePool
<1>15. w = s.pool.workers[i]
  BY DEF w
<1>16. ThreadsInOrder(t)
  <2>1. ~(w > s.pool.threads)
    <3>1. w <= s.pool.threads /\ w \in Nat /\ s.pool.threads \in Nat
      BY <1>2, <1>7, <1>15, ThreadIsNat DEF ThreadsInOrder, PoolTypes
    <3> QED
      BY <3>1
  <2> QED
    BY <1>2, <1>10, <1>12, <2>1 DEF ThreadsInOrder
<1>17. ListenersInOrder(t)
  <2>1. ASSUME NEW v \in Thread, NEW m \in t.ports[v].listeners
        PROVE  /\ t.ports[v].listeners = {m}
               /\ t.ports[v].open => m.index \in DOMAIN t.pool.workers /\ t.pool.workers[m.index] = v
    <3>1. CASE v = w
      <4>1. m = l
        BY <1>12, <2>1, <3>1
      <4> QED
        BY <1>7, <1>10, <1>11, <1>12, <1>15, <3>1, <4>1
    <3>2. CASE v # w
      BY <1>2, <1>10, <1>12, <2>1, <3>2 DEF ListenersInOrder
    <3> QED
      BY <3>1, <3>2
  <2> QED
    BY <2>1 DEF ListenersInOrder
<1>18. FreeInOrder(t)
  <2>1. /\ IsInjective(s.pool.free)
        /\ \A j \in DOMAIN s.pool.free :
              s.pool.free[j] \in DOMAIN s.pool.workers /\ s.ports[s.pool.workers[s.pool.free[j]]].listeners = {}
    BY <1>2 DEF FreeInOrder
  <2>2. ASSUME NEW j \in DOMAIN t.pool.free
        PROVE  t.pool.free[j] \in DOMAIN t.pool.workers /\ t.ports[t.pool.workers[t.pool.free[j]]].listeners = {}
    <3>1. j \in DOMAIN s.pool.free /\ t.pool.free[j] = s.pool.free[j] /\ t.pool.free[j] # i
      BY <1>4, <1>6, <1>10 DEF PlacesOfFront
    <3>2. s.pool.free[j] \in DOMAIN s.pool.workers /\ s.ports[s.pool.workers[s.pool.free[j]]].listeners = {}
      BY <2>1, <3>1
    <3>3. s.pool.workers[s.pool.free[j]] \in Thread
      BY <1>1, <3>2, ElementOfSeq
    <3>4. s.pool.workers[s.pool.free[j]] # w
      BY <1>2, <1>7, <1>15, <3>1, <3>2 DEF ThreadsInOrder, IsInjective
    <3> QED
      BY <1>10, <1>12, <3>1, <3>2, <3>3, <3>4
  <2> QED
    BY <1>6, <1>10, <2>2 DEF FreeInOrder
<1>19. WorkInOrder(t)
  <2>1. ASSUME NEW v \in Thread, t.ports[v].open
        PROVE  /\ t.ports[v].listeners = {} => t.ports[v].posted = <<>> /\ t.ports[v].answers = <<>>
               /\ \A m \in t.ports[v].listeners :
                     \/ t.ports[v].posted = <<m.task>> /\ t.ports[v].answers = <<>>
                     \/ t.ports[v].posted = <<>> /\ t.ports[v].answers = <<m.task>>
    <3>1. CASE v = w
      <4>1. s.ports[w].open /\ s.ports[w].posted = <<>> /\ s.ports[w].answers = <<>>
        BY <1>2, <1>7, <1>12, <2>1, <3>1 DEF WorkInOrder
      <4>2. t.ports[w].posted = <<task>>
        BY <1>12, <4>1
      <4> QED
        BY <1>11, <1>12, <3>1, <4>1, <4>2
    <3>2. CASE v # w
      BY <1>2, <1>12, <2>1, <3>2 DEF WorkInOrder
    <3> QED
      BY <3>1, <3>2
  <2> QED
    BY <2>1 DEF WorkInOrder
<1>20. TasksInOrder(t, pending)
  <2> DEFINE queue == s.pool.queue
  <2>1. /\ IsInjective(queue) /\ (\A j \in DOMAIN queue : queue[j] \in pending)
        /\ \A v \in Thread : \A m \in s.ports[v].listeners :
              /\ m.task \in pending
              /\ \A j \in DOMAIN queue : queue[j] # m.task
              /\ \A x \in Thread : \A n \in s.ports[x].listeners : n.task = m.task => x = v
        /\ \A p \in pending :
              (\E j \in DOMAIN queue : queue[j] = p) \/ (\E v \in Thread : \E m \in s.ports[v].listeners : m.task = p)
    BY <1>2 DEF TasksInOrder
  <2>2. /\ Len(queue) \in DOMAIN queue /\ task = queue[Len(queue)]
        /\ \A j \in DOMAIN t.pool.queue : j \in DOMAIN queue /\ t.pool.queue[j] = queue[j] /\ t.pool.queue[j] # task
        /\ \A j \in DOMAIN queue : j \in DOMAIN t.pool.queue \/ j = Len(queue)
    BY <1>3, <1>5, <1>10 DEF PlacesOfFront
  <2> HIDE DEF queue
  <2>3. IsInjective(t.pool.queue) /\ \A j \in DOMAIN t.pool.queue : t.pool.queue[j] \in pending
    BY <1>5, <1>10, <2>1, <2>2
  <2>4. ASSUME NEW v \in Thread, NEW m \in t.ports[v].listeners
        PROVE  /\ m.task \in pending
               /\ \A j \in DOMAIN t.pool.queue : t.pool.queue[j] # m.task
               /\ \A x \in Thread : \A n \in t.ports[x].listeners : n.task = m.task => x = v
    <3>1. \A x \in Thread : \A n \in t.ports[x].listeners : (x = w /\ n.task = task) \/ (x # w /\ n \in s.ports[x].listeners)
      BY <1>11, <1>12
    <3>2. \A x \in Thread : \A n \in s.ports[x].listeners : n.task # task
      BY <2>1, <2>2
    <3>3. CASE v = w
      <4>1. m.task = task
        BY <2>4, <3>1, <3>3
      <4> QED
        BY <2>1, <2>2, <3>1, <3>2, <3>3, <4>1
    <3>4. CASE v # w
      <4>1. m \in s.ports[v].listeners /\ m.task # task
        BY <2>4, <3>1, <3>2, <3>4
      <4> QED
        BY <2>1, <2>2, <3>1, <4>1
    <3> QED
      BY <3>3, <3>4
  <2>5. ASSUME NEW p \in pending
        PROVE  \/ \E j \in DOMAIN t.pool.queue : t.pool.queue[j] = p
               \/ \E v \in Thread : \E m \in t.ports[v].listeners : m.task = p
    <3>1. CASE p = task
      BY <1>7, <1>11, <1>12, <3>1
    <3>2. CASE p # task /\ \E j \in DOMAIN queue : queue[j] = p
      BY <2>2, <3>2
    <3>3. CASE \E v \in Thread : \E m \in s.ports[v].listeners : m.task = p
      <4>1. PICK v \in Thread : \E m \in s.ports[v].listeners : m.task = p
        BY <3>3
      <4>2. v # w
        BY <1>7, <4>1
      <4> QED
        BY <1>12, <4>1, <4>2
    <3> QED
      BY <2>1, <3>1, <3>2, <3>3
  <2> QED
    BY <2>3, <2>4, <2>5 DEF TasksInOrder
<1>21. PoolInOrder(t, pending)
  BY <1>16, <1>17, <1>18, <1>19, <1>20 DEF PoolInOrder
<1> QED
  BY <1>10, <1>13, <1>14, <1>21 DEF t, i, task

\* What is made of s where an entry of the queue is processed.
IsProcessed(s, pending, t) ==
    t \in PoolTypes /\ PoolInOrder(t, pending) /\ NoneWaits(t) /\ SamePool(s, t)

\* A worker that is being started is not one of the pool yet.
LEMMA StartingFacts ==
  ASSUME NEW s \in PoolTypes, NEW pending, PoolInOrder(s, pending)
  PROVE  LET t == InitNewWorker(s)
         IN  t \in PoolTypes /\ PoolInOrder(t, pending) /\ SamePool(s, t) /\ t.pool.queue = s.pool.queue /\ t.pool.free = s.pool.free
<1> DEFINE t == [s EXCEPT !.pool.initializing = TRUE]
<1>1. InitNewWorker(s) = s \/ InitNewWorker(s) = t
  BY DEF InitNewWorker
<1>2. SamePool(s, s)
  BY DEF SamePool
<1>3. t = [pool |-> [s.pool EXCEPT !.initializing = TRUE], ports |-> s.ports]
  <2> DEFINE X == [s.pool EXCEPT !.initializing = TRUE]
  <2>1. t = [s EXCEPT !.pool = X]
    OBVIOUS
  <2>2. s = [pool |-> s.pool, ports |-> s.ports]
    BY DEF PoolTypes
  <2> HIDE DEF X, t
  <2>3. t = [pool |-> X, ports |-> s.ports]
    BY <2>1, <2>2
  <2> QED
    BY <2>3 DEF X
<1> HIDE DEF t
<1>4. /\ t \in PoolTypes /\ t.ports = s.ports /\ t.pool.workers = s.pool.workers /\ t.pool.free = s.pool.free
      /\ t.pool.queue = s.pool.queue /\ t.pool.destroyed = s.pool.destroyed /\ t.pool.threads = s.pool.threads
  BY <1>3 DEF PoolTypes
<1>5. PoolInOrder(t, pending)
  BY <1>4 DEF PoolInOrder, ThreadsInOrder, ListenersInOrder, FreeInOrder, WorkInOrder, TasksInOrder
<1>6. SamePool(s, t)
  BY <1>4 DEF SamePool
<1> QED
  BY <1>1, <1>2, <1>4, <1>5, <1>6

\* After an entry is processed nobody waits in vain.
LEMMA ProcessFacts ==
  ASSUME NEW s \in PoolTypes, NEW pending, PoolInOrder(s, pending), OneWaits(s)
  PROVE  IsProcessed(s, pending, ProcessEntryFromTaskQueue(s))
<1> DEFINE t == ProcessEntryFromTaskQueue(s)
<1>1. CASE s.pool.free = <<>>
  <2>1. t = s \/ t = InitNewWorker(s)
    BY <1>1 DEF ProcessEntryFromTaskQueue
  <2>2. CASE t = s
    BY <1>1, <2>2 DEF IsProcessed, NoneWaits, SamePool
  <2>3. CASE t = InitNewWorker(s)
    <3> HIDE DEF t
    <3>1. /\ t \in PoolTypes /\ PoolInOrder(t, pending) /\ SamePool(s, t)
          /\ t.pool.queue = s.pool.queue /\ t.pool.free = s.pool.free
      BY <2>3, StartingFacts
    <3>2. IsProcessed(s, pending, t)
      BY <1>1, <3>1 DEF IsProcessed, NoneWaits
    <3> QED
      BY <3>2 DEF t
  <2> QED
    BY <2>1, <2>2, <2>3
<1>2. CASE s.pool.free # <<>> /\ s.pool.queue = <<>>
  <2>1. t = s
    BY <1>2 DEF ProcessEntryFromTaskQueue
  <2> QED
    BY <1>2, <2>1 DEF IsProcessed, NoneWaits, SamePool
<1>3. CASE s.pool.free # <<>> /\ s.pool.queue # <<>>
  <2>1. t = RunTask(TakenFrom(s), Last(s.pool.free), Last(s.pool.queue))
    BY <1>3 DEF ProcessEntryFromTaskQueue, TakenFrom
  <2> HIDE DEF t
  <2>2. /\ t \in PoolTypes /\ PoolInOrder(t, pending) /\ SamePool(s, t)
        /\ t.pool.queue = Front(s.pool.queue) /\ t.pool.free = Front(s.pool.free)
    BY <1>3, <2>1, TakeFacts
  <2>3. s.pool.queue \in Seq(Task) /\ s.pool.free \in Seq(Nat)
    BY DEF PoolTypes
  <2>4. Len(t.pool.queue) = Len(s.pool.queue) - 1 /\ Len(t.pool.free) = Len(s.pool.free) - 1
    BY <1>3, <2>2, <2>3, FrontLast
  <2>5. t.pool.queue \in Seq(Task) /\ t.pool.free \in Seq(Nat)
    BY <2>2 DEF PoolTypes
  <2>6. CASE Len(s.pool.queue) = 1
    <3>1. t.pool.queue = <<>>
      BY <2>4, <2>5, <2>6
    <3> QED
      BY <2>2, <3>1 DEF IsProcessed, NoneWaits, t
  <2>7. CASE Len(s.pool.free) = 1
    <3>1. t.pool.free = <<>>
      BY <2>4, <2>5, <2>7
    <3> QED
      BY <2>2, <3>1 DEF IsProcessed, NoneWaits, t
  <2> QED
    BY <1>3, <2>6, <2>7 DEF OneWaits
<1> QED
  BY <1>1, <1>2, <1>3

\* One listener is heard once.
LEMMA FoldOne ==
  ASSUME NEW s, NEW l
  PROVE  FoldLeft(OnFinish, s, SetToSeq({l})) = OnFinish(s, l)
<1> DEFINE seq == SetToSeq({l})
<1>1. seq = <<l>>
  <2>1. Cardinality({l}) = 1
    BY FS_Singleton
  <2>2. SetToSeq({l}) = CHOOSE f \in [1 .. 1 -> {l}] : IsInjective(f)
    BY <2>1 DEF SetToSeq
  <2>3. IsInjective(<<l>>) /\ <<l>> \in [1 .. 1 -> {l}]
    BY DEF IsInjective
  <2>4. seq \in [1 .. 1 -> {l}]
    BY <2>2, <2>3
  <2> HIDE DEF seq
  <2>5. seq[1] = l /\ DOMAIN seq = {1}
    BY <2>4
  <2> QED
    BY <2>4, <2>5
<1> DEFINE next(g, S) == IF S = {} THEN s ELSE OnFinish(g[S \ {Max(S)}], <<l>>[Max(S)])
           heard == CHOOSE g : g = [S \in SUBSET {1} |-> next(g, S)]
           ran == [S \in SUBSET {1} |-> IF S = {} THEN s ELSE OnFinish(s, l)]
<1>2. FoldLeft(OnFinish, s, <<l>>) = heard[{1}]
  <2>1. DOMAIN <<l>> = {1}
    OBVIOUS
  <2> QED
    BY <2>1 DEF FoldLeft, MapThenFoldSet
<1>3. \A S \in SUBSET {1} : S = {} \/ S = {1}
  OBVIOUS
<1>4. Max({1}) = 1 /\ {1} \ {Max({1})} = {}
  BY DEF Max
<1>5. ran = [S \in SUBSET {1} |-> next(ran, S)]
  <2>1. ran[{}] = s /\ ran[{1}] = OnFinish(s, l) /\ ran = [S \in SUBSET {1} |-> ran[S]]
    OBVIOUS
  <2> HIDE DEF ran
  <2>2. next(ran, {}) = s
    OBVIOUS
  <2>3. next(ran, {1}) = OnFinish(ran[{}], <<l>>[1])
    <3>1. next(ran, {1}) = OnFinish(ran[{1} \ {Max({1})}], <<l>>[Max({1})])
      OBVIOUS
    <3> HIDE DEF next
    <3> QED
      BY <1>4, <3>1
  <2>4. next(ran, {1}) = OnFinish(s, l)
    <3>1. <<l>>[1] = l
      OBVIOUS
    <3> HIDE DEF next
    <3> QED
      BY <2>1, <2>3, <3>1
  <2> HIDE DEF next
  <2>5. \A S \in SUBSET {1} : ran[S] = next(ran, S)
    BY <1>3, <2>1, <2>2, <2>4
  <2> QED
    BY <2>1, <2>5
<1>6. heard = [S \in SUBSET {1} |-> next(heard, S)]
  BY <1>5
<1> HIDE DEF heard
<1>7. heard[{}] = s
  BY <1>6
<1>8. heard[{1}] = next(heard, {1})
  BY <1>6
<1>9. next(heard, {1}) = OnFinish(s, l)
  BY <1>4, <1>7
<1> QED
  BY <1>1, <1>2, <1>8, <1>9

\* What is appended is the last element.
LEMMA AppendFacts ==
  ASSUME NEW S, NEW seq \in Seq(S), NEW x \in S
  PROVE  /\ Append(seq, x) \in Seq(S) /\ Len(Append(seq, x)) = Len(seq) + 1 /\ Len(seq) + 1 \in DOMAIN Append(seq, x)
         /\ Append(seq, x)[Len(seq) + 1] = x
         /\ \A i \in DOMAIN seq : i \in DOMAIN Append(seq, x) /\ i # Len(seq) + 1 /\ Append(seq, x)[i] = seq[i]
         /\ \A i \in DOMAIN Append(seq, x) : i \in DOMAIN seq \/ i = Len(seq) + 1
         /\ Len(seq) \in Nat /\ DOMAIN seq = 1 .. Len(seq)
<1>1. Len(seq) \in Nat /\ DOMAIN seq = 1 .. Len(seq)
  OBVIOUS
<1>2. Append(seq, x) \in Seq(S) /\ Len(Append(seq, x)) = Len(seq) + 1 /\ DOMAIN Append(seq, x) = 1 .. (Len(seq) + 1)
  OBVIOUS
<1>3. Append(seq, x)[Len(seq) + 1] = x /\ \A i \in 1 .. Len(seq) : Append(seq, x)[i] = seq[i]
  OBVIOUS
<1> DEFINE n == Len(seq)
           longer == Append(seq, x)
<1> HIDE DEF n, longer
<1>4. /\ n + 1 \in 1 .. (n + 1) /\ (\A i \in 1 .. n : i \in 1 .. (n + 1) /\ i # n + 1)
      /\ \A i \in 1 .. (n + 1) : i \in 1 .. n \/ i = n + 1
  BY <1>1 DEF n
<1>5. /\ n + 1 \in DOMAIN longer /\ (\A i \in DOMAIN seq : i \in DOMAIN longer /\ i # n + 1 /\ longer[i] = seq[i])
      /\ \A i \in DOMAIN longer : i \in DOMAIN seq \/ i = n + 1
  BY <1>1, <1>2, <1>3, <1>4 DEF n, longer
<1> QED
  BY <1>1, <1>2, <1>3, <1>5 DEF n, longer

\* What is injective stays so with a new last element.
LEMMA LongerInjective ==
  ASSUME NEW S, NEW seq \in Seq(S), NEW x \in S, IsInjective(seq), \A i \in DOMAIN seq : seq[i] # x
  PROVE  IsInjective(Append(seq, x))
<1>1. /\ Append(seq, x)[Len(seq) + 1] = x /\ (\A i \in DOMAIN seq : Append(seq, x)[i] = seq[i])
      /\ \A i \in DOMAIN Append(seq, x) : i \in DOMAIN seq \/ i = Len(seq) + 1
  BY AppendFacts
<1>2. PICK longer : longer = Append(seq, x)
  OBVIOUS
<1>3. PICK n : n = Len(seq) + 1
  OBVIOUS
<1>4. longer[n] = x /\ (\A i \in DOMAIN seq : longer[i] = seq[i]) /\ \A i \in DOMAIN longer : i \in DOMAIN seq \/ i = n
  BY <1>1, <1>2, <1>3
<1>5. \A a, b \in DOMAIN longer : longer[a] = longer[b] => a = b
  BY <1>4 DEF IsInjective
<1>6. IsInjective(longer)
  BY <1>5 DEF IsInjective
<1> QED
  BY <1>2, <1>6

------------------------------------------------------------------------------
(* The steps of the pool *)

\* A new task is queued.
LEMMA QueueFacts ==
  ASSUME NEW s \in PoolTypes, NEW pending, PoolInOrder(s, pending), NoneWaits(s), ~s.pool.destroyed,
         NEW task \in Task, task \notin pending
  PROVE  LET u == [s EXCEPT !.pool.queue = Append(@, task)]
         IN  u \in PoolTypes /\ PoolInOrder(u, pending \cup {task}) /\ OneWaits(u) /\ SamePool(s, u)
<1> DEFINE u == [s EXCEPT !.pool.queue = Append(@, task)]
           queue == Append(s.pool.queue, task)
           n == Len(s.pool.queue)
<1>1. /\ s.pool.workers \in Seq(Thread) /\ s.pool.free \in Seq(Nat) /\ s.pool.queue \in Seq(Task)
      /\ s.ports \in [Thread -> PortType]
  BY DEF PoolTypes
<1>2. ThreadsInOrder(s) /\ ListenersInOrder(s) /\ FreeInOrder(s) /\ WorkInOrder(s) /\ TasksInOrder(s, pending)
  BY DEF PoolInOrder
<1>3. u = [pool |-> [s.pool EXCEPT !.queue = queue], ports |-> s.ports]
  <2> DEFINE X == [s.pool EXCEPT !.queue = queue]
  <2>1. u = [s EXCEPT !.pool = X]
    OBVIOUS
  <2>2. s = [pool |-> s.pool, ports |-> s.ports]
    BY DEF PoolTypes
  <2> HIDE DEF X, u
  <2>3. u = [pool |-> X, ports |-> s.ports]
    BY <2>1, <2>2
  <2> QED
    BY <2>3 DEF X
<1>4. /\ queue \in Seq(Task) /\ Len(queue) = n + 1 /\ queue[n + 1] = task /\ n + 1 \in DOMAIN queue
      /\ \A i \in DOMAIN s.pool.queue : i \in DOMAIN queue /\ i # n + 1 /\ queue[i] = s.pool.queue[i]
      /\ \A i \in DOMAIN queue : i \in DOMAIN s.pool.queue \/ i = n + 1
      /\ n \in Nat
  BY <1>1, AppendFacts
<1>5. IsInjective(queue)
  <2>1. IsInjective(s.pool.queue) /\ \A i \in DOMAIN s.pool.queue : s.pool.queue[i] # task
    BY <1>2 DEF TasksInOrder
  <2> QED
    BY <1>1, <2>1, LongerInjective, Zenon
<1> HIDE DEF u, queue
<1>6. /\ u \in PoolTypes /\ u.ports = s.ports /\ u.pool.workers = s.pool.workers /\ u.pool.free = s.pool.free
      /\ u.pool.queue = queue /\ u.pool.destroyed = s.pool.destroyed /\ u.pool.threads = s.pool.threads
  BY <1>3, <1>4 DEF PoolTypes
<1>7. SamePool(s, u)
  BY <1>6 DEF SamePool
<1>8. OneWaits(u)
  <2>1. CASE s.pool.free = <<>>
    BY <1>6, <2>1 DEF OneWaits
  <2>2. CASE s.pool.queue = <<>>
    <3>1. Len(queue) = 1
      BY <1>4, <2>2
    <3> QED
      BY <1>6, <3>1 DEF OneWaits
  <2> QED
    BY <2>1, <2>2 DEF NoneWaits
<1>9. TasksInOrder(u, pending \cup {task})
  <2> HIDE DEF n
  <2>1. ASSUME NEW w \in Thread, NEW l \in s.ports[w].listeners
        PROVE  l.task \in pending /\ \A i \in DOMAIN queue : queue[i] # l.task
    BY <1>2, <1>4 DEF TasksInOrder
  <2>2. \A i \in DOMAIN queue : queue[i] \in pending \cup {task}
    BY <1>2, <1>4 DEF TasksInOrder
  <2>3. \A t \in pending \cup {task} :
          (\E i \in DOMAIN queue : queue[i] = t) \/ (\E w \in Thread : \E l \in s.ports[w].listeners : l.task = t)
    BY <1>2, <1>4 DEF TasksInOrder
  <2>4. \A w \in Thread : \A l \in s.ports[w].listeners : \A v \in Thread : \A m \in s.ports[v].listeners :
          m.task = l.task => v = w
    BY <1>2 DEF TasksInOrder
  <2> QED
    BY <1>5, <1>6, <2>1, <2>2, <2>3, <2>4 DEF TasksInOrder
<1>10. PoolInOrder(u, pending \cup {task})
  <2>1. ThreadsInOrder(u) /\ ListenersInOrder(u)
    BY <1>2, <1>6 DEF ThreadsInOrder, ListenersInOrder
  <2>2. FreeInOrder(u) /\ WorkInOrder(u)
    BY <1>2, <1>6 DEF FreeInOrder, WorkInOrder
  <2> QED
    BY <1>9, <2>1, <2>2 DEF PoolInOrder
<1> QED
  BY <1>6, <1>7, <1>8, <1>10 DEF u

\* A worker whose listener was told is free again, and its task is no longer pending.
Freed(s, w, l) ==
    [pool |-> [s.pool EXCEPT !.free = Append(@, l.index)],
     ports |-> [s.ports EXCEPT ![w] = [open |-> @.open, posted |-> @.posted, listeners |-> {}, answers |-> Tail(@.answers)]]]
IsFreed(s, pending, l, u) ==
    u \in PoolTypes /\ PoolInOrder(u, pending \ {l.task}) /\ OneWaits(u) /\ SamePool(s, u)

LEMMA FreedFacts ==
  ASSUME NEW s \in PoolTypes, NEW pending, PoolInOrder(s, pending), NoneWaits(s),
         NEW w \in Thread, s.ports[w].open, s.ports[w].answers # <<>>, NEW l \in s.ports[w].listeners
  PROVE  IsFreed(s, pending, l, Freed(s, w, l))
<1> DEFINE u == Freed(s, w, l)
           free == Append(s.pool.free, l.index)
           there == [open |-> s.ports[w].open, posted |-> s.ports[w].posted, listeners |-> {}, answers |-> Tail(s.ports[w].answers)]
<1>1. /\ s.pool.workers \in Seq(Thread) /\ s.pool.free \in Seq(Nat) /\ s.pool.queue \in Seq(Task)
      /\ s.ports \in [Thread -> PortType]
  BY DEF PoolTypes
<1>2. ThreadsInOrder(s) /\ ListenersInOrder(s) /\ FreeInOrder(s) /\ WorkInOrder(s) /\ TasksInOrder(s, pending)
  BY DEF PoolInOrder
<1>3. l \in Listener /\ s.ports[w].listeners = {l} /\ l.index \in DOMAIN s.pool.workers /\ s.pool.workers[l.index] = w
  BY <1>1, <1>2 DEF ListenersInOrder, PortType
<1>4. s.ports[w].posted = <<>> /\ Tail(s.ports[w].answers) = <<>>
  <2>1. s.ports[w].posted = <<>> /\ s.ports[w].answers = <<l.task>>
    BY <1>2 DEF WorkInOrder
  <2>2. Tail(<<l.task>>) = <<>>
    OBVIOUS
  <2> QED
    BY <2>1, <2>2
<1>5. there.listeners = {} /\ there.posted = <<>> /\ there.answers = <<>> /\ there.open = s.ports[w].open /\ there \in PortType
  BY <1>1, <1>4 DEF PortType
<1>6. l.index \in Nat /\ l.task \in Task
  BY <1>3 DEF Listener
<1>7. /\ free \in Seq(Nat) /\ Len(free) = Len(s.pool.free) + 1
      /\ \A i \in DOMAIN free : (i \in DOMAIN s.pool.free /\ free[i] = s.pool.free[i]) \/ free[i] = l.index
  BY <1>1, <1>6, AppendFacts
<1>8. u = [pool |-> [s.pool EXCEPT !.free = free], ports |-> [s.ports EXCEPT ![w] = there]]
  BY DEF Freed
<1>9. ~s.pool.destroyed \/ s.pool.queue # <<>> => IsInjective(free)
  <2>1. SUFFICES ASSUME ~s.pool.destroyed \/ s.pool.queue # <<>>
                 PROVE  IsInjective(free)
    OBVIOUS
  <2>2. /\ IsInjective(s.pool.free)
        /\ \A i \in DOMAIN s.pool.free : s.ports[s.pool.workers[s.pool.free[i]]].listeners = {}
    BY <1>2, <2>1 DEF FreeInOrder
  <2>3. \A i \in DOMAIN s.pool.free : s.pool.free[i] # l.index
    BY <1>3, <2>2
  <2> QED
    BY <1>1, <1>6, <2>2, <2>3, LongerInjective
<1> HIDE DEF u, free, there
<1>10. /\ u \in PoolTypes /\ u.pool.workers = s.pool.workers /\ u.pool.free = free
       /\ u.pool.queue = s.pool.queue /\ u.pool.destroyed = s.pool.destroyed /\ u.pool.threads = s.pool.threads
       /\ u.ports[w] = there /\ \A v \in Thread : v # w => u.ports[v] = s.ports[v]
  BY <1>1, <1>5, <1>7, <1>8 DEF PoolTypes
<1>11. SamePool(s, u)
  BY <1>5, <1>10 DEF SamePool
<1>12. OneWaits(u)
  <2>1. s.pool.free = <<>> => Len(free) = 1
    BY <1>7
  <2> QED
    BY <1>10, <2>1 DEF NoneWaits, OneWaits
<1>13. ThreadsInOrder(u)
  <2>1. ~(w > s.pool.threads)
    BY <1>2 DEF ThreadsInOrder, NoPort
  <2>2. \A v \in Thread : u.ports[v].open = s.ports[v].open
    BY <1>11 DEF SamePool
  <2> QED
    BY <1>2, <1>10, <2>1, <2>2 DEF ThreadsInOrder
<1>14. ListenersInOrder(u)
  BY <1>2, <1>5, <1>10 DEF ListenersInOrder
<1>15. FreeInOrder(u)
  <2>1. SUFFICES ASSUME ~s.pool.destroyed \/ s.pool.queue # <<>>
                 PROVE  /\ IsInjective(free)
                        /\ \A i \in DOMAIN free : free[i] \in DOMAIN s.pool.workers
                                                  /\ u.ports[s.pool.workers[free[i]]].listeners = {}
    BY <1>10 DEF FreeInOrder
  <2>2. ASSUME NEW i \in DOMAIN free
        PROVE  free[i] \in DOMAIN s.pool.workers /\ u.ports[s.pool.workers[free[i]]].listeners = {}
    <3>1. CASE free[i] = l.index
      BY <1>3, <1>5, <1>10, <3>1
    <3>2. CASE i \in DOMAIN s.pool.free /\ free[i] = s.pool.free[i]
      <4>1. free[i] \in DOMAIN s.pool.workers /\ s.ports[s.pool.workers[free[i]]].listeners = {}
        BY <1>2, <2>1, <3>2 DEF FreeInOrder
      <4>2. s.pool.workers[free[i]] \in Thread
        BY <1>1, <4>1, ElementOfSeq
      <4> QED
        BY <1>5, <1>10, <4>1, <4>2
    <3> QED
      BY <1>7, <3>1, <3>2
  <2> QED
    BY <1>9, <2>1, <2>2
<1>16. WorkInOrder(u)
  BY <1>2, <1>5, <1>10 DEF WorkInOrder
<1>17. TasksInOrder(u, pending \ {l.task})
  <2> DEFINE queue == s.pool.queue
  <2>1. /\ IsInjective(queue) /\ (\A j \in DOMAIN queue : queue[j] \in pending)
        /\ \A v \in Thread : \A m \in s.ports[v].listeners :
              /\ m.task \in pending
              /\ \A j \in DOMAIN queue : queue[j] # m.task
              /\ \A x \in Thread : \A n \in s.ports[x].listeners : n.task = m.task => x = v
        /\ \A p \in pending :
              (\E j \in DOMAIN queue : queue[j] = p) \/ (\E v \in Thread : \E m \in s.ports[v].listeners : m.task = p)
    BY <1>2 DEF TasksInOrder
  <2>2. u.pool.queue = queue
    BY <1>10
  <2> HIDE DEF queue
  <2>3. \A v \in Thread : \A m \in u.ports[v].listeners : v # w /\ m \in s.ports[v].listeners /\ m.task # l.task
    BY <1>5, <1>10, <2>1
  <2>4. \A v \in Thread : \A m \in s.ports[v].listeners : m.task # l.task => v # w /\ m \in u.ports[v].listeners
    BY <1>3, <1>10
  <2>5. \A j \in DOMAIN queue : queue[j] \in pending \ {l.task}
    BY <2>1
  <2>6. \A p \in pending \ {l.task} :
          (\E j \in DOMAIN queue : queue[j] = p) \/ (\E v \in Thread : \E m \in u.ports[v].listeners : m.task = p)
    BY <2>1, <2>4
  <2>7. \A v \in Thread : \A m \in u.ports[v].listeners :
              /\ m.task \in pending \ {l.task}
              /\ \A j \in DOMAIN queue : queue[j] # m.task
              /\ \A x \in Thread : \A n \in u.ports[x].listeners : n.task = m.task => x = v
    BY <2>1, <2>3
  <2> QED
    BY <2>1, <2>2, <2>5, <2>6, <2>7 DEF TasksInOrder
<1>18. IsFreed(s, pending, l, u)
  BY <1>10, <1>11, <1>12, <1>13, <1>14, <1>15, <1>16, <1>17 DEF IsFreed, PoolInOrder
<1> QED
  BY <1>18 DEF u

\* A thread that was started is a free worker of the pool.
Joined(s, w) ==
    [pool |-> [workers |-> Append(s.pool.workers, w), free |-> Append(s.pool.free, Len(s.pool.workers) + 1),
               queue |-> s.pool.queue, destroyed |-> s.pool.destroyed, initializing |-> FALSE, threads |-> w],
     ports |-> [s.ports EXCEPT ![w] = OpenPort]]
HasJoined(s, pending, u) ==
    /\ u \in PoolTypes /\ PoolInOrder(u, pending) /\ OneWaits(u) /\ u.pool.destroyed = s.pool.destroyed
    /\ Len(u.pool.workers) = Len(s.pool.workers) + 1
    /\ \A i \in DOMAIN u.pool.workers : i <= Len(s.pool.workers) =>
        /\ i \in DOMAIN s.pool.workers /\ u.pool.workers[i] = s.pool.workers[i]
        /\ u.ports[s.pool.workers[i]] = s.ports[s.pool.workers[i]]

LEMMA JoinedFacts ==
  ASSUME NEW s \in PoolTypes, NEW pending, PoolInOrder(s, pending), NoneWaits(s),
         NEW w \in Thread, w = s.pool.threads + 1
  PROVE  HasJoined(s, pending, Joined(s, w))
<1> DEFINE u == Joined(s, w)
           workers == Append(s.pool.workers, w)
           n == Len(s.pool.workers) + 1
           free == Append(s.pool.free, n)
<1>1. /\ s.pool.workers \in Seq(Thread) /\ s.pool.free \in Seq(Nat) /\ s.pool.queue \in Seq(Task)
      /\ s.ports \in [Thread -> PortType] /\ s.pool.destroyed \in BOOLEAN /\ s.pool.threads \in Nat
  BY DEF PoolTypes
<1>2. ThreadsInOrder(s) /\ ListenersInOrder(s) /\ FreeInOrder(s) /\ WorkInOrder(s) /\ TasksInOrder(s, pending)
  BY DEF PoolInOrder
<1>3. /\ workers \in Seq(Thread) /\ Len(workers) = n /\ n \in DOMAIN workers /\ workers[n] = w
      /\ \A i \in DOMAIN s.pool.workers : i \in DOMAIN workers /\ i # n /\ workers[i] = s.pool.workers[i]
      /\ \A i \in DOMAIN workers : i \in DOMAIN s.pool.workers \/ i = n
      /\ n \in Nat /\ Len(s.pool.workers) \in Nat
  BY <1>1, AppendFacts
<1>4. /\ free \in Seq(Nat) /\ Len(free) = Len(s.pool.free) + 1
      /\ \A i \in DOMAIN free : (i \in DOMAIN s.pool.free /\ free[i] = s.pool.free[i]) \/ free[i] = n
  BY <1>1, <1>3, AppendFacts
<1>5. \A i \in DOMAIN s.pool.workers : s.pool.workers[i] \in Thread /\ s.pool.workers[i] # w
  <2>1. SUFFICES ASSUME NEW i \in DOMAIN s.pool.workers
                 PROVE  s.pool.workers[i] \in Thread /\ s.pool.workers[i] # w
    OBVIOUS
  <2>2. s.pool.workers[i] \in Thread /\ s.pool.workers[i] <= s.pool.threads
    BY <1>1, <1>2, ElementOfSeq DEF ThreadsInOrder
  <2>3. s.pool.workers[i] \in Nat
    BY <2>2, ThreadIsNat
  <2> QED
    BY <1>1, <2>2, <2>3
<1>6. IsInjective(workers)
  BY <1>1, <1>2, <1>5, LongerInjective DEF ThreadsInOrder
<1>7. s.ports[w] = NoPort
  BY <1>1, <1>2 DEF ThreadsInOrder
<1>8. /\ OpenPort \in PortType /\ OpenPort.listeners = {} /\ OpenPort.posted = <<>> /\ OpenPort.answers = <<>>
      /\ NoPort.listeners = {} /\ NoPort.open = FALSE
  <2>1. <<>> \in Seq(Task)
    OBVIOUS
  <2> QED
    BY <2>1 DEF OpenPort, NoPort, PortType
<1>9. ~s.pool.destroyed \/ s.pool.queue # <<>> => IsInjective(free)
  <2>1. SUFFICES ASSUME ~s.pool.destroyed \/ s.pool.queue # <<>>
                 PROVE  IsInjective(free)
    OBVIOUS
  <2>2. IsInjective(s.pool.free) /\ \A i \in DOMAIN s.pool.free : s.pool.free[i] \in DOMAIN s.pool.workers
    BY <1>2, <2>1 DEF FreeInOrder
  <2>3. \A i \in DOMAIN s.pool.free : s.pool.free[i] # n
    BY <1>3, <2>2
  <2> QED
    BY <1>1, <1>3, <2>2, <2>3, LongerInjective
<1>20. \A i \in DOMAIN workers : i <= Len(s.pool.workers) => i # n
  BY <1>1
<1>10. u = [pool |-> [workers |-> workers, free |-> free, queue |-> s.pool.queue, destroyed |-> s.pool.destroyed,
                      initializing |-> FALSE, threads |-> w], ports |-> [s.ports EXCEPT ![w] = OpenPort]]
  BY DEF Joined
<1>11. w \in 0 .. MaxThreads
  BY ThreadIsNat DEF Thread
<1> HIDE DEF u, workers, free, n
<1>12. /\ u \in PoolTypes /\ u.pool.workers = workers /\ u.pool.free = free /\ u.pool.queue = s.pool.queue
       /\ u.pool.destroyed = s.pool.destroyed /\ u.pool.threads = w
       /\ u.ports[w] = OpenPort /\ \A v \in Thread : v # w => u.ports[v] = s.ports[v]
  BY <1>1, <1>3, <1>4, <1>8, <1>10, <1>11 DEF PoolTypes
<1>13. OneWaits(u)
  <2>1. s.pool.free = <<>> => Len(free) = 1
    BY <1>4
  <2> QED
    BY <1>12, <2>1 DEF NoneWaits, OneWaits
<1>14. ThreadsInOrder(u)
  <2>1. \A i \in DOMAIN workers : workers[i] <= w
    <3>1. \A i \in DOMAIN s.pool.workers : s.pool.workers[i] <= w
      <4>1. SUFFICES ASSUME NEW i \in DOMAIN s.pool.workers
                     PROVE  s.pool.workers[i] <= w
        OBVIOUS
      <4>2. s.pool.workers[i] \in Nat /\ s.pool.workers[i] <= s.pool.threads
        BY <1>2, <1>5, ThreadIsNat DEF ThreadsInOrder
      <4> QED
        BY <1>1, <4>2
    <3>2. w <= w
      BY <1>1
    <3> QED
      BY <1>3, <3>1, <3>2
  <2>2. ASSUME NEW v \in Thread, v > w
        PROVE  u.ports[v] = NoPort
    <3>1. v > s.pool.threads /\ v # w
      BY <1>1, <2>2, ThreadIsNat
    <3> QED
      BY <1>2, <1>12, <3>1 DEF ThreadsInOrder
  <2>3. ASSUME NEW v \in Thread, u.ports[v].open
        PROVE  \E i \in DOMAIN workers : workers[i] = v
    BY <1>2, <1>3, <1>12, <2>3 DEF ThreadsInOrder
  <2> QED
    BY <1>6, <1>12, <2>1, <2>2, <2>3 DEF ThreadsInOrder
<1>15. ListenersInOrder(u)
  BY <1>2, <1>3, <1>8, <1>12 DEF ListenersInOrder
<1>16. FreeInOrder(u)
  <2>1. SUFFICES ASSUME ~s.pool.destroyed \/ s.pool.queue # <<>>
                 PROVE  /\ IsInjective(free)
                        /\ \A i \in DOMAIN free : free[i] \in DOMAIN workers /\ u.ports[workers[free[i]]].listeners = {}
    BY <1>12 DEF FreeInOrder
  <2>2. ASSUME NEW i \in DOMAIN free
        PROVE  free[i] \in DOMAIN workers /\ u.ports[workers[free[i]]].listeners = {}
    <3>1. CASE free[i] = n
      BY <1>3, <1>8, <1>12, <3>1
    <3>2. CASE i \in DOMAIN s.pool.free /\ free[i] = s.pool.free[i]
      <4>1. free[i] \in DOMAIN s.pool.workers /\ s.ports[s.pool.workers[free[i]]].listeners = {}
        BY <1>2, <2>1, <3>2 DEF FreeInOrder
      <4> QED
        BY <1>3, <1>5, <1>12, <4>1
    <3> QED
      BY <1>4, <3>1, <3>2
  <2> QED
    BY <1>9, <2>1, <2>2
<1>17. WorkInOrder(u)
  BY <1>2, <1>8, <1>12 DEF WorkInOrder
<1>18. TasksInOrder(u, pending)
  <2>1. \A v \in Thread : u.ports[v].listeners = s.ports[v].listeners
    BY <1>7, <1>8, <1>12
  <2> QED
    BY <1>2, <1>12, <2>1 DEF TasksInOrder
<1>19. \A i \in DOMAIN workers : i <= Len(s.pool.workers) =>
          /\ i \in DOMAIN s.pool.workers /\ workers[i] = s.pool.workers[i]
          /\ u.ports[s.pool.workers[i]] = s.ports[s.pool.workers[i]]
  BY <1>3, <1>5, <1>12, <1>20
<1>21. HasJoined(s, pending, u)
  BY <1>3, <1>12, <1>13, <1>14, <1>15, <1>16, <1>17, <1>18, <1>19 DEF HasJoined, PoolInOrder, n
<1> QED
  BY <1>21 DEF u

\* A port that has another state, and the same listeners.
HasPort(s, w, p) == [pool |-> s.pool, ports |-> [s.ports EXCEPT ![w] = p]]
PortWorks(p) ==
    p.open => /\ p.listeners = {} => p.posted = <<>> /\ p.answers = <<>>
              /\ \A l \in p.listeners : \/ p.posted = <<l.task>> /\ p.answers = <<>>
                                        \/ p.posted = <<>> /\ p.answers = <<l.task>>
StaysInOrder(s, pending, u) ==
    u \in PoolTypes /\ PoolInOrder(u, pending) /\ NoneWaits(u)

LEMMA PortFacts ==
  ASSUME NEW s \in PoolTypes, NEW pending, PoolInOrder(s, pending), NoneWaits(s),
         NEW w \in Thread, w <= s.pool.threads, NEW p \in PortType,
         p.listeners = s.ports[w].listeners, p.open => s.ports[w].open, PortWorks(p)
  PROVE  StaysInOrder(s, pending, HasPort(s, w, p))
<1> DEFINE u == HasPort(s, w, p)
<1>1. s.pool.threads \in Nat /\ s.ports \in [Thread -> PortType]
  BY DEF PoolTypes
<1>2. ThreadsInOrder(s) /\ ListenersInOrder(s) /\ FreeInOrder(s) /\ WorkInOrder(s) /\ TasksInOrder(s, pending)
  BY DEF PoolInOrder
<1>3. u = [pool |-> s.pool, ports |-> [s.ports EXCEPT ![w] = p]]
  BY DEF HasPort
<1> HIDE DEF u
<1>4. u.pool = s.pool /\ u.ports[w] = p /\ (\A v \in Thread : v # w => u.ports[v] = s.ports[v]) /\ u \in PoolTypes
  <2>1. s.pool \in [workers : Seq(Thread), free : Seq(Nat), queue : Seq(Task), destroyed : BOOLEAN,
                    initializing : BOOLEAN, threads : 0 .. MaxThreads]
    BY DEF PoolTypes
  <2> QED
    BY <1>1, <1>3, <2>1 DEF PoolTypes
<1>5. \A v \in Thread : u.ports[v].listeners = s.ports[v].listeners /\ (u.ports[v].open => s.ports[v].open)
  BY <1>4
<1>6. ThreadsInOrder(u)
  <2>1. ~(w > s.pool.threads)
    BY <1>1, ThreadIsNat
  <2> QED
    BY <1>2, <1>4, <1>5, <2>1 DEF ThreadsInOrder
<1>7. ListenersInOrder(u)
  BY <1>2, <1>4, <1>5 DEF ListenersInOrder
<1>8. FreeInOrder(u)
  <2>1. s.pool.workers \in Seq(Thread)
    BY DEF PoolTypes
  <2>2. \A i \in DOMAIN s.pool.workers : u.ports[s.pool.workers[i]].listeners = s.ports[s.pool.workers[i]].listeners
    BY <1>5, <2>1, ElementOfSeq
  <2> QED
    BY <1>2, <1>4, <2>2 DEF FreeInOrder
<1>9. WorkInOrder(u)
  BY <1>2, <1>4 DEF WorkInOrder, PortWorks
<1>10. TasksInOrder(u, pending)
  BY <1>2, <1>4, <1>5 DEF TasksInOrder
<1>11. StaysInOrder(s, pending, u)
  BY <1>4, <1>6, <1>7, <1>8, <1>9, <1>10 DEF StaysInOrder, PoolInOrder, NoneWaits
<1> QED
  BY <1>11 DEF u

\* The pool is destroyed when every port is closed.
Gone(s) == [pool |-> [s.pool EXCEPT !.workers = <<>>, !.destroyed = TRUE], ports |-> s.ports]
LEMMA GoneFacts ==
  ASSUME NEW s \in PoolTypes, NEW pending, PoolInOrder(s, pending), NoneWaits(s),
         \A i \in DOMAIN s.pool.workers : ~s.ports[s.pool.workers[i]].open
  PROVE  StaysInOrder(s, pending, Gone(s))
<1> DEFINE u == Gone(s)
<1>1. ThreadsInOrder(s) /\ ListenersInOrder(s) /\ FreeInOrder(s) /\ WorkInOrder(s) /\ TasksInOrder(s, pending)
  BY DEF PoolInOrder
<1>2. \A w \in Thread : ~s.ports[w].open
  BY <1>1 DEF ThreadsInOrder
<1>3. u = [pool |-> [s.pool EXCEPT !.workers = <<>>, !.destroyed = TRUE], ports |-> s.ports]
  BY DEF Gone
<1> HIDE DEF u
<1>4. /\ u \in PoolTypes /\ u.ports = s.ports /\ u.pool.workers = <<>> /\ u.pool.destroyed = TRUE
      /\ u.pool.free = s.pool.free /\ u.pool.queue = s.pool.queue /\ u.pool.threads = s.pool.threads
  <2>1. <<>> \in Seq(Thread)
    OBVIOUS
  <2> QED
    BY <1>3, <2>1 DEF PoolTypes
<1>5. IsInjective(<<>>) /\ \A i \in DOMAIN <<>> : FALSE
  BY DEF IsInjective
<1>6. ThreadsInOrder(u)
  BY <1>1, <1>2, <1>4, <1>5 DEF ThreadsInOrder
<1>7. ListenersInOrder(u) /\ WorkInOrder(u)
  BY <1>1, <1>2, <1>4 DEF ListenersInOrder, WorkInOrder
<1>8. FreeInOrder(u)
  <2>1. s.pool.queue # <<>> => s.pool.free = <<>>
    BY DEF NoneWaits
  <2> QED
    BY <1>4, <1>5, <2>1 DEF FreeInOrder
<1>9. TasksInOrder(u, pending)
  BY <1>1, <1>4 DEF TasksInOrder
<1>10. StaysInOrder(s, pending, u)
  BY <1>4, <1>6, <1>7, <1>8, <1>9 DEF StaysInOrder, PoolInOrder, NoneWaits
<1> QED
  BY <1>10 DEF u

LEMMA ClosedStays ==
  ASSUME NEW s \in PoolTypes, NEW t, NEW n, SamePool(s, t), ClosedUpTo(s, n)
  PROVE  ClosedUpTo(t, n)
<1>1. \A i \in DOMAIN s.pool.workers : s.pool.workers[i] \in Thread
  BY ElementOfSeq DEF PoolTypes
<1> QED
  BY <1>1 DEF SamePool, ClosedUpTo

\* Init: as many threads are started as there must be, and all are free.
LEMMA InitPoolInv == PoolInit => PoolInv
<1> SUFFICES ASSUME PoolInit
             PROVE  PoolInv
  OBVIOUS
<1> DEFINE first == [i \in 1 .. MinWorkers |-> i]
<1>1. PICK s : s = Now
  OBVIOUS
<1>2. /\ s = [pool |-> s.pool, ports |-> s.ports]
      /\ s.pool = [workers |-> first, free |-> first, queue |-> <<>>, destroyed |-> FALSE,
                   initializing |-> FALSE, threads |-> MinWorkers]
      /\ s.ports = [w \in Thread |-> IF w <= MinWorkers THEN OpenPort ELSE NoPort]
  BY <1>1 DEF PoolInit, Now
<1>3. MinWorkers \in Nat /\ MaxThreads \in Nat /\ MinWorkers <= MaxThreads
  BY PoolAssumption
<1>4. \A i \in 1 .. MinWorkers : i \in Thread /\ i <= MinWorkers
  BY <1>3 DEF Thread
<1>5. /\ first \in Seq(Thread) /\ first \in Seq(Nat) /\ DOMAIN first = 1 .. MinWorkers
      /\ IsInjective(first) /\ \A i \in 1 .. MinWorkers : first[i] = i
  <2>1. first \in Seq(Thread) /\ first \in Seq(Nat)
    BY <1>3, <1>4, IsASeq
  <2>2. DOMAIN first = 1 .. MinWorkers /\ \A i \in 1 .. MinWorkers : first[i] = i
    OBVIOUS
  <2> QED
    BY <2>1, <2>2 DEF IsInjective
<1>6. \A w \in Thread : w <= MinWorkers => w \in 1 .. MinWorkers
  BY <1>3 DEF Thread
<1>7. /\ OpenPort.listeners = {} /\ OpenPort.posted = <<>> /\ OpenPort.answers = <<>> /\ OpenPort \in PortType
      /\ NoPort.listeners = {} /\ NoPort.open = FALSE /\ NoPort \in PortType
  <2>1. <<>> \in Seq(Task)
    OBVIOUS
  <2> QED
    BY <2>1 DEF OpenPort, NoPort, PortType
<1> HIDE DEF first
<1>8. s \in PoolTypes
  <2>1. MinWorkers \in 0 .. MaxThreads /\ <<>> \in Seq(Task)
    BY <1>3
  <2>2. s.ports \in [Thread -> PortType]
    BY <1>2, <1>7
  <2> QED
    <3>1. s.pool \in [workers : Seq(Thread), free : Seq(Nat), queue : Seq(Task), destroyed : BOOLEAN,
                      initializing : BOOLEAN, threads : 0 .. MaxThreads]
      BY <1>2, <1>5, <2>1
    <3> QED
      BY ONLY <1>2, <2>2, <3>1 DEF PoolTypes
<1>10. \A w \in Thread : s.ports[w].listeners = {} /\ (s.ports[w].open => s.ports[w].posted = <<>> /\ s.ports[w].answers = <<>> /\ w <= MinWorkers)
  BY <1>2, <1>7
<1>11. ThreadsInOrder(s)
  <2>1. ASSUME NEW w \in Thread, w > MinWorkers
        PROVE  s.ports[w] = NoPort
    <3>1. ~(w <= MinWorkers)
      BY <1>3, <2>1, ThreadIsNat
    <3> QED
      BY <1>2, <3>1
  <2>2. ASSUME NEW w \in Thread, s.ports[w].open
        PROVE  \E i \in DOMAIN first : first[i] = w
    BY <1>5, <1>6, <1>10, <2>2
  <2> QED
    BY <1>2, <1>4, <1>5, <2>1, <2>2 DEF ThreadsInOrder
<1>12. ListenersInOrder(s) /\ WorkInOrder(s)
  BY <1>10 DEF ListenersInOrder, WorkInOrder
<1>13. FreeInOrder(s)
  BY <1>2, <1>4, <1>5, <1>10 DEF FreeInOrder
<1>14. TasksInOrder(s, {})
  BY <1>2, <1>10 DEF TasksInOrder, IsInjective
<1>15. PendingTasks = {}
  BY DEF PendingTasks, PoolInit
<1>16. NoneWaits(s)
  BY <1>2 DEF NoneWaits
<1>17. ClosedUpTo(s, 0)
  <2>1. Len(first) = MinWorkers
    BY <1>3, <1>5
  <2>2. \A i \in 1 .. MinWorkers : ~(i <= 0)
    BY <1>3
  <2> QED
    BY <1>2, <1>3, <1>5, <2>1, <2>2 DEF ClosedUpTo
<1> QED
  BY <1>1, <1>8, <1>11, <1>12, <1>13, <1>14, <1>15, <1>16, <1>17 DEF PoolInv, PoolInOrder, PoolInit

\* runOnWorker() queues a task, and nobody who is free waits for it.
LEMMA RunStep ==
  ASSUME PoolInv, NEW task \in Task, RunOnWorker(task)
  PROVE  PoolInv'
<1>1. PICK s : s = Now
  OBVIOUS
<1>2. PICK pending : pending = PendingTasks
  OBVIOUS
<1>3. PICK n : n = destroying
  OBVIOUS
<1>4. /\ s \in PoolTypes /\ PoolInOrder(s, pending) /\ NoneWaits(s) /\ ClosedUpTo(s, n)
      /\ tasks \in [Task -> {"new", "pending", "rejected"} \cup Task] /\ destroying \in Nat
      /\ \A t \in Task : tasks[t] \in {"new", "pending", "rejected", t}
  BY <1>1, <1>2, <1>3 DEF PoolInv
<1>5. s.pool = pool /\ s.ports = ports /\ destroying' = n
  BY <1>1, <1>3 DEF Now, RunOnWorker
<1>6. task \notin pending /\ tasks[task] = "new"
  BY <1>2 DEF RunOnWorker, PendingTasks
<1>7. CASE pool.destroyed
  <2>1. tasks' = [tasks EXCEPT ![task] = "rejected"] /\ pool' = pool /\ ports' = ports
    BY <1>7 DEF RunOnWorker
  <2>2. Now' = s
    BY <1>1, <2>1 DEF Now
  <2>3. /\ tasks' \in [Task -> {"new", "pending", "rejected"} \cup Task]
        /\ \A t \in Task : tasks'[t] \in {"new", "pending", "rejected", t}
        /\ \A t \in Task : tasks'[t] = "pending" <=> tasks[t] = "pending"
    BY <1>4, <1>6, <2>1
  <2>4. PendingTasks' = pending
    BY <1>2, <2>3 DEF PendingTasks
  <2> QED
    BY <1>3, <1>4, <1>5, <2>2, <2>3, <2>4 DEF PoolInv
<1>8. CASE ~pool.destroyed
  <2>1. PICK u : u = [s EXCEPT !.pool.queue = Append(@, task)]
    OBVIOUS
  <2>2. PICK t : t = ProcessEntryFromTaskQueue(u)
    OBVIOUS
  <2>3. tasks' = [tasks EXCEPT ![task] = "pending"] /\ pool' = t.pool /\ ports' = t.ports
    BY <1>1, <1>8, <2>1, <2>2 DEF RunOnWorker, Become
  <2>4. u \in PoolTypes /\ PoolInOrder(u, pending \cup {task}) /\ OneWaits(u) /\ SamePool(s, u)
    BY <1>4, <1>5, <1>6, <1>8, <2>1, QueueFacts
  <2>5. IsProcessed(u, pending \cup {task}, t)
    BY <2>2, <2>4, ProcessFacts
  <2>6. t \in PoolTypes /\ PoolInOrder(t, pending \cup {task}) /\ NoneWaits(t) /\ SamePool(u, t)
    BY <2>5 DEF IsProcessed
  <2>7. ClosedUpTo(t, n)
    BY <1>4, <2>4, <2>6, ClosedStays
  <2>8. Now' = t
    BY <2>3, <2>6 DEF Now, PoolTypes
  <2>9. /\ tasks' \in [Task -> {"new", "pending", "rejected"} \cup Task]
        /\ \A x \in Task : tasks'[x] \in {"new", "pending", "rejected", x}
        /\ \A x \in Task : tasks'[x] = "pending" <=> tasks[x] = "pending" \/ x = task
    BY <1>4, <1>6, <2>3
  <2>10. PendingTasks' = pending \cup {task}
    BY <1>2, <2>9 DEF PendingTasks
  <2> QED
    BY <1>3, <1>4, <1>5, <2>6, <2>7, <2>8, <2>9, <2>10 DEF PoolInv
<1> QED
  BY <1>7, <1>8

LEMMA JoinedShape ==
  ASSUME NEW s \in PoolTypes, NEW w \in Thread
  PROVE  [s EXCEPT !.pool.workers = Append(@, w), !.pool.free = Append(@, Len(s.pool.workers) + 1),
                   !.pool.initializing = FALSE, !.pool.threads = w, !.ports[w] = OpenPort] = Joined(s, w)
<1> DEFINE workers == Append(s.pool.workers, w)
           free == Append(s.pool.free, Len(s.pool.workers) + 1)
           ports1 == [s.ports EXCEPT ![w] = OpenPort]
<1>1. s.pool = [workers |-> s.pool.workers, free |-> s.pool.free, queue |-> s.pool.queue, destroyed |-> s.pool.destroyed,
                initializing |-> s.pool.initializing, threads |-> s.pool.threads]
      /\ s = [pool |-> s.pool, ports |-> s.ports]
  BY DEF PoolTypes
<1> DEFINE u == [s EXCEPT !.pool.workers = workers, !.pool.free = free, !.pool.initializing = FALSE,
                          !.pool.threads = w, !.ports = ports1]
<1>2. [s EXCEPT !.pool.workers = Append(@, w), !.pool.free = Append(@, Len(s.pool.workers) + 1),
                !.pool.initializing = FALSE, !.pool.threads = w, !.ports[w] = OpenPort] = u
  BY <1>1
<1> HIDE DEF workers, free, ports1
<1>3. u = [pool |-> [workers |-> workers, free |-> free, queue |-> s.pool.queue, destroyed |-> s.pool.destroyed,
                     initializing |-> FALSE, threads |-> w], ports |-> ports1]
  <2> DEFINE X == [s.pool EXCEPT !.workers = workers, !.free = free, !.initializing = FALSE, !.threads = w]
  <2>1. u = [s EXCEPT !.pool = X, !.ports = ports1]
    OBVIOUS
  <2>2. X = [workers |-> workers, free |-> free, queue |-> s.pool.queue, destroyed |-> s.pool.destroyed,
             initializing |-> FALSE, threads |-> w]
    <3>1. PICK p : p = s.pool
      OBVIOUS
    <3>2. p \in [workers : Seq(Thread), free : Seq(Nat), queue : Seq(Task), destroyed : BOOLEAN,
                 initializing : BOOLEAN, threads : 0 .. MaxThreads]
      BY <3>1 DEF PoolTypes
    <3>3. [p EXCEPT !.workers = workers, !.free = free, !.initializing = FALSE, !.threads = w]
            = [workers |-> workers, free |-> free, queue |-> p.queue, destroyed |-> p.destroyed,
               initializing |-> FALSE, threads |-> w]
      <4>1. PICK p1 : p1 = [p EXCEPT !.workers = workers, !.free = free]
        OBVIOUS
      <4>2. p1 = [workers |-> workers, free |-> free, queue |-> p.queue, destroyed |-> p.destroyed,
                  initializing |-> p.initializing, threads |-> p.threads]
        BY <3>2, <4>1
      <4>3. PICK p2 : p2 = [p1 EXCEPT !.initializing = FALSE, !.threads = w]
        OBVIOUS
      <4>4. p2 = [workers |-> workers, free |-> free, queue |-> p.queue, destroyed |-> p.destroyed,
                  initializing |-> FALSE, threads |-> w]
        BY <4>2, <4>3
      <4> QED
        BY <4>1, <4>3, <4>4
    <3> QED
      BY <3>1, <3>3
  <2> HIDE DEF X, u
  <2>3. u = [pool |-> X, ports |-> ports1]
    BY <1>1, <2>1
  <2> QED
    BY <2>2, <2>3
<1> QED
  BY <1>2, <1>3 DEF Joined, workers, free, ports1

\* A worker that is ready is free, and takes a task that waits.
LEMMA ReadyStep == ASSUME PoolInv, WorkerReady PROVE PoolInv'
<1>1. PICK s : s = Now
  OBVIOUS
<1>2. PICK pending : pending = PendingTasks
  OBVIOUS
<1>3. PICK n : n = destroying
  OBVIOUS
<1>4. /\ s \in PoolTypes /\ PoolInOrder(s, pending) /\ NoneWaits(s) /\ ClosedUpTo(s, n) /\ n \in Nat
      /\ tasks \in [Task -> {"new", "pending", "rejected"} \cup Task] /\ destroying \in Nat
      /\ \A t \in Task : tasks[t] \in {"new", "pending", "rejected", t}
  BY <1>1, <1>2, <1>3 DEF PoolInv
<1>5. s.pool = pool /\ s.ports = ports /\ destroying' = n /\ tasks' = tasks
  BY <1>1, <1>3 DEF Now, WorkerReady
<1>6. PICK w : w = s.pool.threads + 1
  OBVIOUS
<1>7. w \in Thread
  <2>1. s.pool.threads \in 0 .. MaxThreads /\ s.pool.threads < MaxThreads
    BY <1>4, <1>5 DEF PoolTypes, WorkerReady
  <2> QED
    BY <1>6, <2>1, ThreadIsNat DEF Thread
<1>8. PICK u : u = Joined(s, w)
  OBVIOUS
<1>9. PICK t : t = ProcessEntryFromTaskQueue(u)
  OBVIOUS
<1>10. pool' = t.pool /\ ports' = t.ports
  <2>1. PICK v : v = [s EXCEPT !.pool.workers = Append(@, w), !.pool.free = Append(@, Len(s.pool.workers) + 1),
                               !.pool.initializing = FALSE, !.pool.threads = w, !.ports[w] = OpenPort]
    OBVIOUS
  <2>2. Become(ProcessEntryFromTaskQueue(v))
    BY <1>1, <1>5, <1>6, <2>1 DEF WorkerReady
  <2>3. v = u
    BY <1>4, <1>7, <1>8, <2>1, JoinedShape
  <2> QED
    BY <1>9, <2>2, <2>3 DEF Become
<1>11. HasJoined(s, pending, u)
  BY <1>4, <1>6, <1>7, <1>8, JoinedFacts
<1>12. IsProcessed(u, pending, t)
  BY <1>9, <1>11, ProcessFacts DEF HasJoined
<1>13. t \in PoolTypes /\ PoolInOrder(t, pending) /\ NoneWaits(t) /\ SamePool(u, t)
  BY <1>12 DEF IsProcessed
<1>14. ClosedUpTo(u, n)
  <2>1. SUFFICES ASSUME ~u.pool.destroyed
                 PROVE  n <= Len(u.pool.workers) /\ \A i \in DOMAIN u.pool.workers : i <= n => ~u.ports[u.pool.workers[i]].open
    BY DEF ClosedUpTo
  <2>2. n <= Len(s.pool.workers) /\ \A i \in DOMAIN s.pool.workers : i <= n => ~s.ports[s.pool.workers[i]].open
    BY <1>4, <1>11, <2>1 DEF ClosedUpTo, HasJoined
  <2>3. Len(s.pool.workers) \in Nat /\ \A i \in DOMAIN u.pool.workers : i \in Nat
    BY <1>4, <1>11 DEF PoolTypes, HasJoined
  <2>4. Len(u.pool.workers) = Len(s.pool.workers) + 1
    BY <1>11 DEF HasJoined
  <2>5. ASSUME NEW i \in DOMAIN u.pool.workers, i <= n
        PROVE  ~u.ports[u.pool.workers[i]].open
    <3>1. i <= Len(s.pool.workers)
      BY <1>4, <2>2, <2>3, <2>5
    <3> QED
      BY <1>11, <2>2, <2>5, <3>1 DEF HasJoined
  <2> QED
    BY <1>4, <2>2, <2>3, <2>4, <2>5
<1>15. ClosedUpTo(t, n)
  BY <1>11, <1>13, <1>14, ClosedStays DEF HasJoined
<1>16. Now' = t
  BY <1>10, <1>13 DEF Now, PoolTypes
<1>17. PendingTasks' = pending
  BY <1>2, <1>5 DEF PendingTasks
<1> QED
  BY <1>4, <1>5, <1>13, <1>15, <1>16, <1>17 DEF PoolInv

\* What the message leaves of the port that had it.
Heard(s, w) == [s EXCEPT !.ports[w].answers = Tail(@), !.ports[w].listeners = {}]
LEMMA FreedShape ==
  ASSUME NEW s \in PoolTypes, NEW w \in Thread, NEW l
  PROVE  OnFinish(Heard(s, w), l) = ProcessEntryFromTaskQueue(Freed(s, w, l))
<1> DEFINE heard == Heard(s, w)
<1>1. s = [pool |-> s.pool, ports |-> s.ports] /\ s.ports \in [Thread -> PortType]
  BY DEF PoolTypes
<1>2. PICK p : p = s.ports[w]
  OBVIOUS
<1>3. p = [open |-> p.open, posted |-> p.posted, listeners |-> p.listeners, answers |-> p.answers]
  BY <1>1, <1>2 DEF PortType
<1>4. PICK q : q = [p EXCEPT !.answers = Tail(@), !.listeners = {}]
  OBVIOUS
<1>5. q = [open |-> p.open, posted |-> p.posted, listeners |-> {}, answers |-> Tail(p.answers)]
  BY <1>3, <1>4
<1>7. heard = [s EXCEPT !.ports = [s.ports EXCEPT ![w] = q]]
  <2>1. [s.ports EXCEPT ![w].answers = Tail(@), ![w].listeners = {}] = [s.ports EXCEPT ![w] = q]
    BY <1>1, <1>2, <1>4
  <2>2. heard = [s EXCEPT !.ports = [s.ports EXCEPT ![w].answers = Tail(@), ![w].listeners = {}]]
    BY <1>1 DEF Heard
  <2> QED
    BY <2>1, <2>2
<1> HIDE DEF heard
<1>8. heard = [pool |-> s.pool, ports |-> [s.ports EXCEPT ![w] = q]]
  BY <1>1, <1>7
<1>9. [heard EXCEPT !.pool.free = Append(@, l.index)]
        = [pool |-> [s.pool EXCEPT !.free = Append(@, l.index)], ports |-> [s.ports EXCEPT ![w] = q]]
  BY <1>8
<1> QED
  BY <1>2, <1>5, <1>9 DEF Freed, OnFinish, heard

\* Who hears the answer is who asked for it: the worker is free, its task is over.
LEMMA FinishedStep == ASSUME PoolInv, NEW w \in Thread, Finished(w) PROVE PoolInv'
<1>1. PICK s : s = Now
  OBVIOUS
<1>2. PICK pending : pending = PendingTasks
  OBVIOUS
<1>3. PICK n : n = destroying
  OBVIOUS
<1>4. /\ s \in PoolTypes /\ PoolInOrder(s, pending) /\ NoneWaits(s) /\ ClosedUpTo(s, n) /\ n \in Nat
      /\ tasks \in [Task -> {"new", "pending", "rejected"} \cup Task] /\ destroying \in Nat
      /\ \A t \in Task : tasks[t] \in {"new", "pending", "rejected", t}
  BY <1>1, <1>2, <1>3 DEF PoolInv
<1>5. s.pool = pool /\ s.ports = ports /\ destroying' = n
  BY <1>1, <1>3 DEF Now, Finished
<1>6. s.ports[w].open /\ s.ports[w].answers # <<>> /\ s.ports \in [Thread -> PortType]
  BY <1>4, <1>5 DEF Finished, PoolTypes
<1>7. PICK l : l \in s.ports[w].listeners
  BY <1>4, <1>6 DEF PoolInOrder, WorkInOrder
<1>8. s.ports[w].listeners = {l} /\ s.ports[w].answers = <<l.task>> /\ l.task \in pending /\ l \in Listener
  <2>1. s.ports[w].listeners = {l} /\ s.ports[w].answers = <<l.task>> /\ l.task \in pending
    BY <1>4, <1>6, <1>7 DEF PoolInOrder, ListenersInOrder, WorkInOrder, TasksInOrder
  <2> QED
    BY <1>6, <1>7, <2>1 DEF PortType
<1>9. PICK heard : heard = Heard(s, w)
  OBVIOUS
<1>10. PICK u : u = Freed(s, w, l)
  OBVIOUS
<1>11. PICK t : t = ProcessEntryFromTaskQueue(u)
  OBVIOUS
<1>12. pool' = t.pool /\ ports' = t.ports
  <2>1. Become(FoldLeft(OnFinish, heard, SetToSeq({l})))
    BY <1>1, <1>5, <1>8, <1>9 DEF Finished, Heard
  <2>2. FoldLeft(OnFinish, heard, SetToSeq({l})) = OnFinish(heard, l)
    BY FoldOne
  <2>3. OnFinish(heard, l) = t
    BY <1>4, <1>9, <1>10, <1>11, FreedShape
  <2> QED
    BY <2>1, <2>2, <2>3 DEF Become
<1>13. IsFreed(s, pending, l, u)
  BY <1>4, <1>6, <1>7, <1>10, FreedFacts
<1>14. IsProcessed(u, pending \ {l.task}, t)
  BY <1>11, <1>13, ProcessFacts DEF IsFreed
<1>15. t \in PoolTypes /\ PoolInOrder(t, pending \ {l.task}) /\ NoneWaits(t) /\ SamePool(u, t)
  BY <1>14 DEF IsProcessed
<1>16. ClosedUpTo(t, n)
  <2>1. u \in PoolTypes /\ SamePool(s, u)
    BY <1>13 DEF IsFreed
  <2>2. ClosedUpTo(u, n)
    BY <1>4, <2>1, ClosedStays
  <2> QED
    BY <1>15, <2>1, <2>2, ClosedStays
<1>17. Now' = t
  BY <1>12, <1>15 DEF Now, PoolTypes
<1>18. /\ tasks' \in [Task -> {"new", "pending", "rejected"} \cup Task]
       /\ \A x \in Task : tasks'[x] \in {"new", "pending", "rejected", x}
       /\ \A x \in Task : tasks'[x] = "pending" <=> tasks[x] = "pending" /\ x # l.task
  <2>1. Head(ports[w].answers) = l.task
    BY <1>5, <1>8
  <2>2. tasks' = [x \in Task |-> IF l.task = x /\ tasks[x] = "pending" THEN l.task ELSE tasks[x]]
    BY <1>5, <1>8, <2>1 DEF Finished
  <2>3. \A x \in Task : x # "pending"
    BY TaskAssumption
  <2> QED
    BY <1>4, <2>2, <2>3
<1>19. PendingTasks' = pending \ {l.task}
  BY <1>2, <1>18 DEF PendingTasks
<1> QED
  BY <1>4, <1>5, <1>15, <1>16, <1>17, <1>18, <1>19 DEF PoolInv

\* A thread ends the one task it has.
LEMMA ComputedStep == ASSUME PoolInv, NEW w \in Thread, Computed(w) PROVE PoolInv'
<1>1. PICK s : s = Now
  OBVIOUS
<1>2. PICK pending : pending = PendingTasks
  OBVIOUS
<1>3. PICK n : n = destroying
  OBVIOUS
<1>4. /\ s \in PoolTypes /\ PoolInOrder(s, pending) /\ NoneWaits(s) /\ ClosedUpTo(s, n) /\ n \in Nat
      /\ tasks \in [Task -> {"new", "pending", "rejected"} \cup Task] /\ destroying \in Nat
      /\ \A t \in Task : tasks[t] \in {"new", "pending", "rejected", t}
  BY <1>1, <1>2, <1>3 DEF PoolInv
<1>5. s.pool = pool /\ s.ports = ports /\ destroying' = n /\ pool' = pool /\ tasks' = tasks
  BY <1>1, <1>3 DEF Now, Computed
<1>6. PICK p : p = s.ports[w]
  OBVIOUS
<1>7. p \in PortType /\ p.open /\ s.ports \in [Thread -> PortType]
  BY <1>4, <1>5, <1>6 DEF PoolTypes, Computed
<1>8. PICK i \in DOMAIN p.posted :
        ports' = [ports EXCEPT ![w].posted = RemoveAt(@, i), ![w].answers = Append(@, p.posted[i])]
  BY <1>5, <1>6 DEF Computed
<1>9. PICK l : p.listeners = {l} /\ p.posted = <<l.task>> /\ p.answers = <<>>
  <2>1. p.posted # <<>>
    BY <1>7, <1>8
  <2>2. p.listeners # {} /\ \A l \in p.listeners : p.listeners = {l} /\ p.posted = <<l.task>> /\ p.answers = <<>>
    BY <1>4, <1>6, <1>7, <2>1 DEF PoolInOrder, ListenersInOrder, WorkInOrder
  <2> QED
    BY <2>2
<1>10. RemoveAt(p.posted, i) = <<>> /\ Append(p.answers, p.posted[i]) = <<l.task>>
  <2>1. i = 1
    BY <1>8, <1>9
  <2>2. RemoveAt(<<l.task>>, 1) = <<>>
    BY DEF RemoveAt
  <2> QED
    BY <1>9, <2>1, <2>2
<1>11. PICK q : q = [p EXCEPT !.posted = <<>>, !.answers = <<l.task>>]
  OBVIOUS
<1>12. q \in PortType /\ q.listeners = p.listeners /\ q.open = p.open /\ PortWorks(q)
  <2>1. l.task \in Task
    BY <1>7, <1>9 DEF PortType, Listener
  <2>2. q \in PortType /\ q.listeners = p.listeners /\ q.open = p.open /\ q.posted = <<>> /\ q.answers = <<l.task>>
    <3>1. p = [open |-> p.open, posted |-> p.posted, listeners |-> p.listeners, answers |-> p.answers]
      BY <1>7 DEF PortType
    <3>2. q = [open |-> p.open, posted |-> <<>>, listeners |-> p.listeners, answers |-> <<l.task>>]
      BY <1>11, <3>1
    <3>3. p.open \in BOOLEAN /\ p.listeners \in SUBSET Listener /\ <<>> \in Seq(Task) /\ <<l.task>> \in Seq(Task)
      BY <1>7, <2>1 DEF PortType
    <3> QED
      BY <3>2, <3>3 DEF PortType
  <2> QED
    BY <1>9, <2>2 DEF PortWorks
<1>13. ports' = [s.ports EXCEPT ![w] = q]
  BY <1>5, <1>6, <1>7, <1>8, <1>10, <1>11
<1>14. PICK t : t = HasPort(s, w, q)
  OBVIOUS
<1>15. w <= s.pool.threads
  <2>1. \E j \in DOMAIN s.pool.workers : s.pool.workers[j] = w
    BY <1>4, <1>6, <1>7 DEF PoolInOrder, ThreadsInOrder
  <2> QED
    BY <1>4, <2>1 DEF PoolInOrder, ThreadsInOrder
<1>16. StaysInOrder(s, pending, t)
  BY <1>4, <1>6, <1>12, <1>14, <1>15, PortFacts
<1>17. Now' = t
  BY <1>5, <1>13, <1>14 DEF Now, HasPort
<1>18. ClosedUpTo(t, n)
  <2>1. t.pool = s.pool /\ \A v \in Thread : t.ports[v].open = s.ports[v].open
    BY <1>6, <1>7, <1>12, <1>14 DEF HasPort
  <2>2. SamePool(s, t)
    BY <2>1 DEF SamePool
  <2> QED
    BY <1>4, <2>2, ClosedStays
<1>19. PendingTasks' = pending
  BY <1>2, <1>5 DEF PendingTasks
<1> QED
  BY <1>4, <1>5, <1>16, <1>17, <1>18, <1>19 DEF PoolInv, StaysInOrder

\* destroy() closes a port, or is done.
LEMMA DestroyStep == ASSUME PoolInv, Destroy PROVE PoolInv'
<1>1. PICK s : s = Now
  OBVIOUS
<1>2. PICK pending : pending = PendingTasks
  OBVIOUS
<1>3. PICK n : n = destroying
  OBVIOUS
<1>4. /\ s \in PoolTypes /\ PoolInOrder(s, pending) /\ NoneWaits(s) /\ ClosedUpTo(s, n) /\ n \in Nat
      /\ tasks \in [Task -> {"new", "pending", "rejected"} \cup Task]
      /\ \A t \in Task : tasks[t] \in {"new", "pending", "rejected", t}
  BY <1>1, <1>2, <1>3 DEF PoolInv
<1>5. s.pool = pool /\ s.ports = ports /\ tasks' = tasks /\ ~s.pool.destroyed
  BY <1>1 DEF Now, Destroy
<1>6. /\ s.pool.workers \in Seq(Thread) /\ s.ports \in [Thread -> PortType]
      /\ Len(s.pool.workers) \in Nat /\ DOMAIN s.pool.workers = 1 .. Len(s.pool.workers)
  BY <1>4 DEF PoolTypes
<1>7. n <= Len(s.pool.workers) /\ \A i \in DOMAIN s.pool.workers : i <= n => ~s.ports[s.pool.workers[i]].open
  BY <1>4, <1>5 DEF ClosedUpTo
<1>8. PendingTasks' = pending
  BY <1>2, <1>5 DEF PendingTasks
<1>9. CASE n < Len(s.pool.workers)
  <2>1. PICK w : w = s.pool.workers[n + 1]
    OBVIOUS
  <2>2. n + 1 \in DOMAIN s.pool.workers /\ w \in Thread
    <3>1. n + 1 \in 1 .. Len(s.pool.workers)
      BY <1>4, <1>6, <1>9
    <3> QED
      BY <1>6, <2>1, <3>1, ElementOfSeq
  <2>3. PICK p : p = s.ports[w]
    OBVIOUS
  <2>4. PICK q : q = [p EXCEPT !.open = FALSE]
    OBVIOUS
  <2>5. q \in PortType /\ q.listeners = p.listeners /\ ~q.open
    <3>1. p = [open |-> p.open, posted |-> p.posted, listeners |-> p.listeners, answers |-> p.answers] /\ p \in PortType
      BY <1>6, <2>2, <2>3 DEF PortType
    <3>2. q = [open |-> FALSE, posted |-> p.posted, listeners |-> p.listeners, answers |-> p.answers]
      BY <2>4, <3>1
    <3> QED
      BY <3>1, <3>2 DEF PortType
  <2>6. PICK t : t = HasPort(s, w, q)
    OBVIOUS
  <2>7. pool' = s.pool /\ ports' = [s.ports EXCEPT ![w] = q] /\ destroying' = n + 1
    <3>1. pool' = s.pool /\ ports' = [s.ports EXCEPT ![w].open = FALSE] /\ destroying' = n + 1
      BY <1>3, <1>5, <1>9, <2>1 DEF Destroy
    <3> QED
      BY <1>6, <2>2, <2>3, <2>4, <3>1
  <2>8. StaysInOrder(s, pending, t)
    <3>1. w <= s.pool.threads
      BY <1>4, <2>1, <2>2 DEF PoolInOrder, ThreadsInOrder
    <3> QED
      BY <1>4, <2>2, <2>3, <2>5, <2>6, <3>1, PortFacts DEF PortWorks
  <2>9. Now' = t
    BY <2>6, <2>7 DEF Now, HasPort
  <2>10. ClosedUpTo(t, n + 1)
    <3>1. n + 1 <= Len(s.pool.workers)
      BY <1>4, <1>6, <1>9
    <3>2. t.pool = s.pool /\ t.ports[w] = q /\ \A v \in Thread : v # w => t.ports[v] = s.ports[v]
      BY <1>6, <2>2, <2>6 DEF HasPort
    <3>3. ASSUME NEW i \in DOMAIN s.pool.workers, i <= n + 1
          PROVE  ~t.ports[s.pool.workers[i]].open
      <4>1. s.pool.workers[i] \in Thread
        BY <1>6, ElementOfSeq
      <4>2. CASE s.pool.workers[i] = w
        BY <2>5, <3>2, <4>2
      <4>3. CASE s.pool.workers[i] # w
        <5>1. i <= n
          BY <1>4, <1>6, <2>1, <3>3, <4>3
        <5> QED
          BY <1>7, <3>2, <4>1, <4>3, <5>1
      <4> QED
        BY <4>2, <4>3
    <3> QED
      BY <3>1, <3>2, <3>3 DEF ClosedUpTo
  <2> QED
    BY <1>4, <1>5, <1>8, <2>7, <2>8, <2>9, <2>10 DEF PoolInv, StaysInOrder
<1>10. CASE ~(n < Len(s.pool.workers))
  <2>1. \A i \in DOMAIN s.pool.workers : ~s.ports[s.pool.workers[i]].open
    BY <1>4, <1>6, <1>7, <1>10
  <2>2. PICK t : t = Gone(s)
    OBVIOUS
  <2>3. pool' = [s.pool EXCEPT !.workers = <<>>, !.destroyed = TRUE] /\ ports' = s.ports /\ destroying' = MaxThreads + 1
    BY <1>3, <1>5, <1>10 DEF Destroy
  <2>4. StaysInOrder(s, pending, t)
    BY <1>4, <2>1, <2>2, GoneFacts
  <2>5. Now' = t
    BY <2>2, <2>3 DEF Now, Gone
  <2>6. ClosedUpTo(t, MaxThreads + 1)
    <3>1. s.pool = [s.pool EXCEPT !.workers = s.pool.workers] /\ "destroyed" \in DOMAIN s.pool
      BY <1>4 DEF PoolTypes
    <3>2. t.pool.destroyed
      BY <2>2, <3>1 DEF Gone
    <3> QED
      BY <3>2 DEF ClosedUpTo
  <2>7. destroying' \in Nat
    BY <2>3, ThreadIsNat
  <2> QED
    BY <1>4, <1>5, <1>8, <2>3, <2>4, <2>5, <2>6, <2>7 DEF PoolInv, StaysInOrder
<1> QED
  BY <1>9, <1>10

\* Every step of the pool keeps the invariant.
LEMMA NextPoolInv == PoolInv /\ [PoolNext]_poolVars => PoolInv'
<1> SUFFICES ASSUME PoolInv, [PoolNext]_poolVars
             PROVE  PoolInv'
  OBVIOUS
<1>1. ASSUME NEW t \in Task, RunOnWorker(t)
      PROVE  PoolInv'
  BY <1>1, RunStep
<1>2. CASE WorkerReady
  BY <1>2, ReadyStep
<1>3. ASSUME NEW w \in Thread, Computed(w)
      PROVE  PoolInv'
  BY <1>3, ComputedStep
<1>4. ASSUME NEW w \in Thread, Finished(w)
      PROVE  PoolInv'
  BY <1>4, FinishedStep
<1>5. CASE Destroy
  BY <1>5, DestroyStep
<1>6. CASE UNCHANGED poolVars
  <2>1. UNCHANGED <<Now, PendingTasks, tasks, destroying>>
    BY <1>6 DEF poolVars, Now, PendingTasks
  <2> QED
    BY <2>1 DEF PoolInv
<1> QED
  BY <1>1, <1>2, <1>3, <1>4, <1>5, <1>6 DEF PoolNext

\* The invariant says where each task is.
LEMMA SharedFacts == PoolInv => WorkIsShared
<1> SUFFICES ASSUME PoolInv
             PROVE  WorkIsShared
  OBVIOUS
<1>1. /\ Now \in PoolTypes /\ NoneWaits(Now) /\ PoolInOrder(Now, PendingTasks)
      /\ \A t \in Task : tasks[t] \in {"new", "pending", "rejected", t}
  BY DEF PoolInv
<1>2. Now.pool = pool /\ Now.ports = ports
  BY DEF Now
<1>3. /\ pool.queue \in Seq(Task) /\ pool.free \in Seq(Nat)
      /\ ListenersInOrder(Now) /\ FreeInOrder(Now) /\ TasksInOrder(Now, PendingTasks)
  BY <1>1, <1>2 DEF PoolTypes, PoolInOrder
<1>4. pool.queue # <<>> => pool.free = <<>>
  BY <1>1, <1>2 DEF NoneWaits
<1>5. ASSUME NEW w \in Thread
      PROVE  Cardinality(ports[w].listeners) <= 1
  <2>1. ports[w].listeners = {} \/ \E l : ports[w].listeners = {l}
    BY <1>2, <1>3 DEF ListenersInOrder
  <2>2. CASE ports[w].listeners = {}
    <3>1. Cardinality(ports[w].listeners) = 0
      BY <2>2, FS_EmptySet
    <3> QED
      BY <3>1
  <2>3. CASE \E l : ports[w].listeners = {l}
    <3>1. Cardinality(ports[w].listeners) = 1
      BY <2>3, FS_Singleton
    <3> QED
      BY <3>1
  <2> QED
    BY <2>1, <2>2, <2>3
<1>6. ASSUME NEW t \in Task, tasks[t] = "pending"
      PROVE  Cardinality(Holders(t)) + Cardinality({i \in DOMAIN pool.queue : pool.queue[i] = t}) = 1
  <2> DEFINE places == {i \in DOMAIN pool.queue : pool.queue[i] = t}
  <2>1. Cardinality({}) = 0 /\ \A x : Cardinality({x}) = 1
    BY FS_EmptySet, FS_Singleton
  <2>2. t \in PendingTasks
    BY <1>6 DEF PendingTasks
  <2>3. CASE \E i \in DOMAIN pool.queue : pool.queue[i] = t
    <3>1. PICK i \in DOMAIN pool.queue : pool.queue[i] = t
      BY <2>3
    <3>2. places = {i}
      BY <1>2, <1>3, <3>1 DEF TasksInOrder, IsInjective
    <3>3. Holders(t) = {}
      BY <1>2, <1>3, <3>1 DEF TasksInOrder, Holders
    <3> HIDE DEF places
    <3>4. Cardinality(places) = 1 /\ Cardinality(Holders(t)) = 0
      BY <2>1, <3>2, <3>3
    <3> QED
      BY <3>4 DEF places
  <2>4. CASE ~\E i \in DOMAIN pool.queue : pool.queue[i] = t
    <3>1. places = {}
      BY <2>4
    <3>2. PICK w \in Thread : \E l \in ports[w].listeners : l.task = t
      BY <1>2, <1>3, <2>2, <2>4 DEF TasksInOrder
    <3>3. Holders(t) = {w}
      BY <1>2, <1>3, <3>2 DEF TasksInOrder, Holders
    <3> HIDE DEF places
    <3>4. Cardinality(places) = 0 /\ Cardinality(Holders(t)) = 1
      BY <2>1, <3>1, <3>3
    <3> QED
      BY <3>4 DEF places
  <2> QED
    BY <2>3, <2>4
<1>7. ~pool.destroyed => ToSet(pool.free) \subseteq DOMAIN pool.workers /\ IsInjective(pool.free)
  BY <1>2, <1>3 DEF FreeInOrder, ToSet
<1> QED
  BY <1>1, <1>4, <1>5, <1>6, <1>7 DEF WorkIsShared

\* Executor (executor.ts): however tasks arrive, threads start and answer, and
\* destroy() comes between, a task that is pending is queued once or at one
\* worker, no worker has two, nobody else hears its answer, and no task waits
\* while a worker is free.
THEOREM SharedWork == PoolSpec => []WorkIsShared
<1>1. PoolInit => PoolInv
  BY InitPoolInv
<1>2. PoolInv /\ [PoolNext]_poolVars => PoolInv'
  BY NextPoolInv
<1>3. PoolInv => WorkIsShared
  BY SharedFacts
<1> QED
  BY <1>1, <1>2, <1>3, PTL DEF PoolSpec

------------------------------------------------------------------------------
(* Channels: the requests of one method, one after the other.               *)

Id == Method \X (1..MaxSent)
Event == Method \cup Id
Message == {Request(c, n) : c \in Method, n \in 1..MaxSent} \cup {Response(id) : id \in Id}

\* Whether a message is a request is told by its event.
LEMMA MessageKinds ==
  ASSUME ChannelAssumption, NEW m \in Message
  PROVE  /\ m.event \in Event /\ m.id \in Id /\ m.id[1] \in Method /\ m.id[2] \in Nat
         /\ m.event \in Method => m.id[1] = m.event
         /\ m.event \notin Method => m.event = m.id /\ m.answer = m.id
<1>1. CASE \E c \in Method, n \in 1..MaxSent : m = Request(c, n)
  <2>1. PICK c \in Method, n \in 1..MaxSent : m = Request(c, n)
    BY <1>1
  <2>2. m.event = c /\ m.id = <<c, n>>
    BY <2>1 DEF Request, ResponseId
  <2> QED
    BY <2>2 DEF Event, Id, ChannelAssumption
<1>2. CASE \E id \in Id : m = Response(id)
  <2>1. PICK id \in Id : m = Response(id)
    BY <1>2
  <2>2. m.event = id /\ m.id = id /\ m.answer = id
    BY <2>1 DEF Response
  <2>3. id \notin Method
    BY DEF ChannelAssumption, Id
  <2> QED
    BY <2>2, <2>3 DEF Event, Id, ChannelAssumption
<1> QED
  BY <1>1, <1>2 DEF Message

------------------------------------------------------------------------------
(* Messages in a list.                                                      *)

LEMMA IdsOfNone == ASSUME NEW c PROVE IdsIn(<<>>, c) = {}
BY DEF IdsIn

LEMMA IdsOfMore ==
  ASSUME NEW w \in Seq(Message), NEW m \in Message, NEW c
  PROVE  IdsIn(Append(w, m), c) = IdsIn(w, c) \cup (IF m.event = c THEN {m.id} ELSE {})
<1>1. /\ DOMAIN Append(w, m) = DOMAIN w \cup {Len(w) + 1}
      /\ Append(w, m)[Len(w) + 1] = m /\ \A i \in DOMAIN w : Append(w, m)[i] = w[i]
  OBVIOUS
<1> QED
  BY <1>1, Zenon DEF IdsIn

LEMMA IdsOfLess ==
  ASSUME NEW w \in Seq(Message), w # <<>>, NEW c
  PROVE  IdsIn(w, c) = IdsIn(Tail(w), c) \cup (IF Head(w).event = c THEN {Head(w).id} ELSE {})
<1>1. /\ \A i \in DOMAIN Tail(w) : i + 1 \in DOMAIN w /\ Tail(w)[i] = w[i + 1]
      /\ \A i \in DOMAIN w : i = 1 \/ (i - 1 \in DOMAIN Tail(w) /\ w[i] = Tail(w)[i - 1])
      /\ 1 \in DOMAIN w /\ w[1] = Head(w)
  OBVIOUS
<1>2. IdsIn(Tail(w), c) \cup (IF Head(w).event = c THEN {Head(w).id} ELSE {}) \subseteq IdsIn(w, c)
  BY <1>1 DEF IdsIn
<1>3. ASSUME NEW x \in IdsIn(w, c), x \notin IdsIn(Tail(w), c) PROVE Head(w).event = c /\ x = Head(w).id
  <2>1. PICK i \in DOMAIN w : w[i].event = c /\ x = w[i].id
    BY DEF IdsIn
  <2>2. i = 1
    BY <1>1, <1>3, <2>1 DEF IdsIn
  <2> QED
    BY <1>1, <2>1, <2>2
<1> QED
  BY <1>2, <1>3

LEMMA IdsOfPrefix ==
  ASSUME NEW w \in Seq(Message), NEW k \in 0..Len(w), NEW c
  PROVE  IdsIn(SubSeq(w, 1, k), c) \subseteq IdsIn(w, c)
<1>1. \A i \in DOMAIN SubSeq(w, 1, k) : i \in DOMAIN w /\ SubSeq(w, 1, k)[i] = w[i]
  OBVIOUS
<1> QED
  BY <1>1 DEF IdsIn

LEMMA IdsAreTyped ==
  ASSUME ChannelAssumption, NEW w \in Seq(Message), NEW c, NEW x \in IdsIn(w, c)
  PROVE  x \in Id /\ x[2] \in Nat /\ (c \in Method => x[1] = c)
<1>1. PICK i \in DOMAIN w : w[i].event = c /\ x = w[i].id
  BY DEF IdsIn
<1>2. w[i] \in Message
  OBVIOUS
<1> QED
  BY <1>1, <1>2, MessageKinds

LEMMA SequenceGrows ==
  ASSUME ChannelAssumption, NEW w \in Seq(Message), NEW m \in Message, NEW c,
         InSequence(w, c), m.event = c => \A x \in IdsIn(w, c) : x[2] < m.id[2]
  PROVE  InSequence(Append(w, m), c)
<1>1. /\ DOMAIN Append(w, m) = 1..(Len(w) + 1) /\ DOMAIN w = 1..Len(w)
      /\ Append(w, m)[Len(w) + 1] = m /\ \A i \in DOMAIN w : Append(w, m)[i] = w[i]
  OBVIOUS
<1>2. SUFFICES ASSUME NEW i \in 1..(Len(w) + 1), NEW j \in 1..(Len(w) + 1), i < j,
                      Append(w, m)[i].event = c, Append(w, m)[j].event = c
               PROVE  Append(w, m)[i].id[2] < Append(w, m)[j].id[2]
  BY <1>1 DEF InSequence
<1>3. i \in 1..Len(w) /\ Append(w, m)[i] = w[i] /\ (j \in 1..Len(w) \/ j = Len(w) + 1)
  BY <1>1, <1>2
<1>4. CASE j \in 1..Len(w)
  BY <1>1, <1>2, <1>3, <1>4 DEF InSequence
<1>5. CASE j = Len(w) + 1
  <2>1. w[i].id \in IdsIn(w, c)
    BY <1>1, <1>2, <1>3 DEF IdsIn
  <2> QED
    BY <1>1, <1>2, <1>3, <1>5, <2>1
<1> QED
  BY <1>3, <1>4, <1>5

LEMMA SequenceShrinks ==
  ASSUME NEW w \in Seq(Message), NEW c, InSequence(w, c)
  PROVE  /\ w # <<>> => InSequence(Tail(w), c)
         /\ w # <<>> /\ Head(w).event = c => \A x \in IdsIn(Tail(w), c) : Head(w).id[2] < x[2]
         /\ \A k \in 0..Len(w) : InSequence(SubSeq(w, 1, k), c)
<1>1. ASSUME w # <<>>
      PROVE  /\ InSequence(Tail(w), c)
             /\ Head(w).event = c => \A x \in IdsIn(Tail(w), c) : Head(w).id[2] < x[2]
  <2>1. /\ \A i \in DOMAIN Tail(w) : i + 1 \in DOMAIN w /\ i \in Nat /\ i > 0 /\ Tail(w)[i] = w[i + 1]
        /\ 1 \in DOMAIN w /\ w[1] = Head(w)
    BY <1>1
  <2>2. InSequence(Tail(w), c)
    BY <2>1 DEF InSequence
  <2>3. ASSUME Head(w).event = c, NEW x \in IdsIn(Tail(w), c) PROVE Head(w).id[2] < x[2]
    <3>1. PICK i \in DOMAIN Tail(w) : Tail(w)[i].event = c /\ x = Tail(w)[i].id
      BY <2>3 DEF IdsIn
    <3>2. i + 1 \in DOMAIN w /\ 1 < i + 1 /\ w[i + 1].event = c /\ x = w[i + 1].id
      BY <2>1, <3>1
    <3> QED
      BY <2>1, <2>3, <3>2 DEF InSequence
  <2> QED
    BY <2>2, <2>3
<1>2. ASSUME NEW k \in 0..Len(w) PROVE InSequence(SubSeq(w, 1, k), c)
  <2>1. \A i \in DOMAIN SubSeq(w, 1, k) : i \in DOMAIN w /\ SubSeq(w, 1, k)[i] = w[i]
    OBVIOUS
  <2> QED
    BY <2>1 DEF InSequence
<1> QED
  BY <1>1, <1>2

------------------------------------------------------------------------------
(* The requests of one method on their way: those handled, those that wait *)
(* for a handler, those that come; n is the number of the last one sent.   *)

IdsOf(h) == {h[i] : i \in DOMAIN h}

Line(h, p, w, n, c) ==
  /\ \A i, j \in DOMAIN h : i < j => h[i][2] < h[j][2]
  /\ InSequence(p, c) /\ InSequence(w, c)
  /\ Before(IdsOf(h), IdsIn(p, c) \cup IdsIn(w, c))
  /\ Before(IdsIn(p, c), IdsIn(w, c))
  /\ \A x \in IdsOf(h) \cup IdsIn(p, c) \cup IdsIn(w, c) : x[2] <= n

AllOf(h, p, w, c) == IdsOf(h) \cup IdsIn(p, c) \cup IdsIn(w, c)

LEMMA OneMore ==
  ASSUME NEW S, NEW q \in Seq(S), NEW x \in S
  PROVE  /\ DOMAIN Append(q, x) = DOMAIN q \cup {Len(q) + 1}
         /\ Append(q, x)[Len(q) + 1] = x /\ \A i \in DOMAIN q : Append(q, x)[i] = q[i]
OBVIOUS

LEMMA NothingInLine ==
  ASSUME NEW c, NEW n \in Nat
  PROVE  Line(<<>>, <<>>, <<>>, n, c) /\ AllOf(<<>>, <<>>, <<>>, c) = {}
BY DEF Line, AllOf, IdsOf, IdsIn, InSequence, Before

LEMMA LineIsNumbered ==
  ASSUME ChannelAssumption, NEW h \in Seq(Id), NEW p \in Seq(Message), NEW w \in Seq(Message), NEW c, NEW n \in Nat,
         Line(h, p, w, n, c)
  PROVE  Line(h, p, w, n + 1, c)
<1>1. \A x \in IdsOf(h) \cup IdsIn(p, c) \cup IdsIn(w, c) : x[2] \in Nat
  <2>1. \A x \in IdsOf(h) : x[2] \in Nat
    BY DEF IdsOf, Id, ChannelAssumption
  <2> QED
    BY <2>1, IdsAreTyped
<1> QED
  BY <1>1 DEF Line

LEMMA IdsOfOneMore ==
  ASSUME NEW h \in Seq(Id), NEW id \in Id
  PROVE  IdsOf(Append(h, id)) = IdsOf(h) \cup {id}
<1>1. /\ DOMAIN Append(h, id) = DOMAIN h \cup {Len(h) + 1}
      /\ Append(h, id)[Len(h) + 1] = id /\ \A i \in DOMAIN h : Append(h, id)[i] = h[i]
  OBVIOUS
<1> QED
  BY <1>1, Zenon DEF IdsOf

\* A request is handled that is before what waits and what comes.
LEMMA LineHandles ==
  ASSUME NEW h \in Seq(Id), NEW p \in Seq(Message), NEW w \in Seq(Message), NEW c, NEW n \in Nat, NEW id \in Id,
         Line(h, p, w, n, c), id[2] <= n,
         \A x \in IdsOf(h) : x[2] < id[2], \A x \in IdsIn(p, c) \cup IdsIn(w, c) : id[2] < x[2]
  PROVE  Line(Append(h, id), p, w, n, c) /\ AllOf(Append(h, id), p, w, c) = AllOf(h, p, w, c) \cup {id}
<1>1. /\ DOMAIN Append(h, id) = 1..(Len(h) + 1) /\ DOMAIN h = 1..Len(h)
      /\ Append(h, id)[Len(h) + 1] = id /\ \A i \in DOMAIN h : Append(h, id)[i] = h[i]
  OBVIOUS
<1>2. IdsOf(Append(h, id)) = IdsOf(h) \cup {id}
  BY IdsOfOneMore
<1>3. ASSUME NEW i \in 1..(Len(h) + 1), NEW j \in 1..(Len(h) + 1), i < j
      PROVE  Append(h, id)[i][2] < Append(h, id)[j][2]
  <2>1. i \in 1..Len(h) /\ Append(h, id)[i] = h[i] /\ (j \in 1..Len(h) \/ j = Len(h) + 1)
    BY <1>1, <1>3
  <2>2. CASE j \in 1..Len(h)
    BY <1>1, <1>3, <2>1, <2>2 DEF Line
  <2>3. CASE j = Len(h) + 1
    <3>1. h[i] \in IdsOf(h)
      BY <1>1, <2>1 DEF IdsOf
    <3> QED
      BY <1>1, <2>1, <2>3, <3>1
  <2> QED
    BY <2>1, <2>2, <2>3
<1>4. \A i, j \in DOMAIN Append(h, id) : i < j => Append(h, id)[i][2] < Append(h, id)[j][2]
  BY <1>1, <1>3
<1> QED
  BY <1>2, <1>4 DEF Line, AllOf, Before

\* A message comes: a request of the method is after all the others.
LEMMA LineComes ==
  ASSUME ChannelAssumption, NEW h \in Seq(Id), NEW p \in Seq(Message), NEW w \in Seq(Message), NEW c, NEW n \in Nat, NEW m \in Message,
         Line(h, p, w, n, c), m.event = c => m.id[2] <= n /\ \A x \in AllOf(h, p, w, c) : x[2] < m.id[2]
  PROVE  /\ Line(h, p, Append(w, m), n, c)
         /\ AllOf(h, p, Append(w, m), c) = AllOf(h, p, w, c) \cup (IF m.event = c THEN {m.id} ELSE {})
<1>1. IdsIn(Append(w, m), c) = IdsIn(w, c) \cup (IF m.event = c THEN {m.id} ELSE {})
  BY IdsOfMore
<1>2. InSequence(Append(w, m), c)
  BY SequenceGrows DEF Line, AllOf
<1> QED
  BY <1>1, <1>2 DEF Line, AllOf, Before

\* It waits: nothing comes that is before it.
LEMMA LineWaits ==
  ASSUME ChannelAssumption, NEW h \in Seq(Id), NEW p \in Seq(Message), NEW w \in Seq(Message), NEW c, NEW n \in Nat, NEW m \in Message,
         Line(h, p, w, n, c), m.event = c, m.id[2] <= n,
         \A x \in IdsOf(h) \cup IdsIn(p, c) : x[2] < m.id[2], \A x \in IdsIn(w, c) : m.id[2] < x[2]
  PROVE  /\ Line(h, Append(p, m), w, n, c)
         /\ AllOf(h, Append(p, m), w, c) = AllOf(h, p, w, c) \cup {m.id}
<1>1. IdsIn(Append(p, m), c) = IdsIn(p, c) \cup {m.id}
  BY IdsOfMore
<1>2. InSequence(Append(p, m), c)
  BY SequenceGrows DEF Line
<1> QED
  BY <1>1, <1>2 DEF Line, AllOf, Before

\* The next message is taken from the wire.
LEMMA LineTaken ==
  ASSUME ChannelAssumption, NEW h \in Seq(Id), NEW p \in Seq(Message), NEW w \in Seq(Message), NEW c, NEW n \in Nat,
         Line(h, p, w, n, c), w # <<>>
  PROVE  /\ Line(h, p, Tail(w), n, c)
         /\ AllOf(h, p, w, c) = AllOf(h, p, Tail(w), c) \cup (IF Head(w).event = c THEN {Head(w).id} ELSE {})
         /\ Head(w).event = c => /\ Head(w).id[2] <= n
                                 /\ \A x \in IdsOf(h) \cup IdsIn(p, c) : x[2] < Head(w).id[2]
                                 /\ \A x \in IdsIn(Tail(w), c) : Head(w).id[2] < x[2]
<1>1. IdsIn(w, c) = IdsIn(Tail(w), c) \cup (IF Head(w).event = c THEN {Head(w).id} ELSE {})
  BY IdsOfLess
<1>2. InSequence(Tail(w), c) /\ (Head(w).event = c => \A x \in IdsIn(Tail(w), c) : Head(w).id[2] < x[2])
  BY SequenceShrinks DEF Line
<1> QED
  BY <1>1, <1>2 DEF Line, AllOf, Before

\* All but the beginning of what comes is lost.
LEMMA LineIsCut ==
  ASSUME NEW h \in Seq(Id), NEW p \in Seq(Message), NEW w \in Seq(Message), NEW c, NEW n \in Nat, NEW k \in 0..Len(w),
         Line(h, p, w, n, c)
  PROVE  Line(h, p, SubSeq(w, 1, k), n, c)
<1>1. IdsIn(SubSeq(w, 1, k), c) \subseteq IdsIn(w, c)
  BY IdsOfPrefix
<1>2. InSequence(SubSeq(w, 1, k), c)
  BY SequenceShrinks DEF Line
<1> QED
  BY <1>1, <1>2 DEF Line, Before

\* What waits and what comes is lost.
LEMMA LineIsCleared ==
  ASSUME NEW h, NEW p, NEW w, NEW c, NEW n, Line(h, p, w, n, c)
  PROVE  Line(h, <<>>, <<>>, n, c) /\ Line(h, <<>>, w, n, c)
<1>1. IdsIn(<<>>, c) = {} /\ InSequence(<<>>, c)
  BY DEF IdsIn, InSequence
<1> QED
  BY <1>1 DEF Line, Before

\* All that waits is handled.
Flushed(h, p) == h \o [i \in DOMAIN p |-> p[i].id]

LEMMA LineIsFlushed ==
  ASSUME ChannelAssumption, NEW h \in Seq(Id), NEW p \in Seq(Message), NEW w \in Seq(Message), NEW c, NEW n \in Nat,
         Line(h, p, w, n, c), \A i \in DOMAIN p : p[i].event = c,
         NEW f, f = Flushed(h, p)
  PROVE  /\ f \in Seq(Id) /\ Line(f, <<>>, w, n, c) /\ AllOf(f, <<>>, w, c) = AllOf(h, p, w, c)
         /\ IdsOf(f) = IdsOf(h) \cup {p[i].id : i \in DOMAIN p}
<1> DEFINE q == [i \in DOMAIN p |-> p[i].id]
<1>1. q \in Seq(Id) /\ Len(q) = Len(p) /\ DOMAIN p = 1..Len(p)
  <2>1. \A i \in DOMAIN p : p[i].id \in Id
    BY MessageKinds
  <2>2. DOMAIN p = 1..Len(p) /\ Len(p) \in Nat
    OBVIOUS
  <2>3. q \in [1..Len(p) -> Id]
    BY <2>1, <2>2
  <2> QED
    BY <2>2, <2>3
<1>2. /\ f \in Seq(Id) /\ DOMAIN f = 1..(Len(h) + Len(p)) /\ DOMAIN h = 1..Len(h) /\ Len(h) \in Nat /\ Len(p) \in Nat
      /\ \A i \in 1..Len(h) : f[i] = h[i] /\ f[i] \in IdsOf(h)
      /\ \A i \in 1..(Len(h) + Len(p)) :
            i > Len(h) => i - Len(h) \in 1..Len(p) /\ f[i] = p[i - Len(h)].id /\ f[i] \in IdsIn(p, c)
  <2>1. /\ f \in Seq(Id) /\ DOMAIN f = 1..(Len(h) + Len(p)) /\ DOMAIN h = 1..Len(h) /\ Len(h) \in Nat /\ Len(p) \in Nat
        /\ \A i \in 1..Len(h) : f[i] = h[i]
        /\ \A i \in 1..(Len(h) + Len(p)) : i > Len(h) => i - Len(h) \in 1..Len(p) /\ f[i] = q[i - Len(h)]
    <3>1. f = h \o q
      BY DEF Flushed
    <3> HIDE DEF q
    <3>2. f \in Seq(Id) /\ Len(f) = Len(h) + Len(q)
      BY <1>1, <3>1, ConcatProperties
    <3>3. \A i \in 1..(Len(h) + Len(q)) : f[i] = IF i <= Len(h) THEN h[i] ELSE q[i - Len(h)]
      <4>0. h \in Seq(Id) /\ q \in Seq(Id)
        BY <1>1
      <4>1. \A i \in 1..(Len(h) + Len(q)) : (h \o q)[i] = IF i <= Len(h) THEN h[i] ELSE q[i - Len(h)]
        BY <4>0, ConcatProperties
      <4> QED
        BY <3>1, <4>1, Zenon
    <3>4. Len(h) \in Nat /\ Len(p) \in Nat /\ DOMAIN h = 1..Len(h) /\ DOMAIN f = 1..Len(f)
      BY <3>2
    <3>5. \A i \in 1..Len(h) : f[i] = h[i]
      BY <1>1, <3>3, <3>4
    <3>6. ASSUME NEW i \in 1..(Len(h) + Len(p)), i > Len(h) PROVE i - Len(h) \in 1..Len(p) /\ f[i] = q[i - Len(h)]
      <4>1. i \in 1..(Len(h) + Len(q)) /\ ~(i <= Len(h)) /\ i - Len(h) \in 1..Len(p)
        BY <1>1, <3>4, <3>6
      <4> QED
        BY <3>3, <4>1
    <3> QED
      BY <1>1, <3>2, <3>4, <3>5, <3>6
  <2> QED
    BY <1>1, <2>1 DEF IdsOf, IdsIn
<1> HIDE DEF q
<1>3. IdsOf(f) = IdsOf(h) \cup IdsIn(p, c) /\ IdsIn(p, c) = {p[i].id : i \in DOMAIN p}
  <2>1. IdsIn(p, c) = {p[i].id : i \in DOMAIN p}
    BY DEF IdsIn
  <2>2. ASSUME NEW i \in DOMAIN f PROVE f[i] \in IdsOf(h) \cup IdsIn(p, c)
    <3>1. i \in 1..(Len(h) + Len(p)) /\ (i \in 1..Len(h) \/ i > Len(h))
      BY <1>2
    <3> QED
      BY <1>2, <3>1
  <2>3. IdsOf(h) \subseteq IdsOf(f)
    <3>1. \A i \in DOMAIN h : i \in DOMAIN f /\ f[i] = h[i]
      BY <1>2
    <3> QED
      BY <3>1, Zenon DEF IdsOf
  <2>4. ASSUME NEW i \in DOMAIN p PROVE p[i].id \in IdsOf(f)
    <3>1. Len(h) + i \in 1..(Len(h) + Len(p)) /\ Len(h) + i > Len(h) /\ (Len(h) + i) - Len(h) = i
      BY <1>1, <1>2
    <3> QED
      BY <1>2, <3>1 DEF IdsOf
  <2>5. IdsOf(f) \subseteq IdsOf(h) \cup IdsIn(p, c)
    BY <2>2 DEF IdsOf
  <2> QED
    BY <2>1, <2>3, <2>4, <2>5
<1>4. ASSUME NEW i \in DOMAIN f, NEW j \in DOMAIN f, i < j PROVE f[i][2] < f[j][2]
  <2>1. CASE j <= Len(h)
    <3>1. i \in DOMAIN h /\ j \in DOMAIN h /\ f[i] = h[i] /\ f[j] = h[j]
      BY <1>2, <1>4, <2>1
    <3> QED
      BY <1>4, <3>1 DEF Line
  <2>2. CASE i > Len(h)
    <3>1. /\ i - Len(h) \in DOMAIN p /\ j - Len(h) \in DOMAIN p /\ i - Len(h) < j - Len(h)
          /\ f[i] = p[i - Len(h)].id /\ f[j] = p[j - Len(h)].id
      <4>1. /\ i \in 1..(Len(h) + Len(p)) /\ j \in 1..(Len(h) + Len(p)) /\ i > Len(h) /\ j > Len(h)
            /\ i - Len(h) < j - Len(h) /\ Len(h) \in Nat
        BY <1>2, <1>4, <2>2
      <4>2. i - Len(h) \in 1..Len(p) /\ f[i] = p[i - Len(h)].id
        BY <1>2, <4>1
      <4>3. j - Len(h) \in 1..Len(p) /\ f[j] = p[j - Len(h)].id
        BY <1>2, <4>1
      <4> QED
        BY <1>1, <4>1, <4>2, <4>3
    <3>2. p[i - Len(h)].id[2] < p[j - Len(h)].id[2]
      BY <3>1 DEF Line, InSequence
    <3> QED
      BY <3>1, <3>2
  <2>3. CASE i <= Len(h) /\ j > Len(h)
    <3>1. f[i] \in IdsOf(h) /\ f[j] \in IdsIn(p, c)
      BY <1>2, <2>3
    <3> QED
      BY <3>1 DEF Line, Before
  <2> QED
    BY <1>2, <1>4, <2>1, <2>2, <2>3
<1>5. IdsIn(<<>>, c) = {} /\ InSequence(<<>>, c)
  BY DEF IdsIn, InSequence
<1>6. Line(f, <<>>, w, n, c)
  BY <1>3, <1>4, <1>5 DEF Line, Before
<1>7. AllOf(f, <<>>, w, c) = AllOf(h, p, w, c)
  BY <1>3, <1>5 DEF AllOf
<1> QED
  BY <1>2, <1>3, <1>6, <1>7

------------------------------------------------------------------------------
(* The state of both ends.                                                  *)

Answers == UNION {[D -> Id \cup {"rejected"}] : D \in SUBSET Id}
PortState == [listeners : SUBSET Event, pending : [Event -> Seq(Message)], wire : Seq(Message)]
EndState == [next : 0..MaxSent, pendingPromises : SUBSET Id, attached : SUBSET Method, calls : Seq(Id \X BOOLEAN)]
ChannelState ==
  [port : [End -> PortState], channel : [End -> EndState], handling : SUBSET [end : End, call : Method, id : Id],
   handled : [End -> [Method -> Seq(Id)]], settled : [End -> Answers]]

LEMMA OtherEnd == \A e \in End : Other(e) \in End /\ Other(Other(e)) = e /\ Other(e) # e /\ End = {e, Other(e)}
BY DEF End, Other

LEMMA ChannelStates ==
  ASSUME NEW a \in [End -> PortState], NEW b \in [End -> EndState], NEW c \in SUBSET [end : End, call : Method, id : Id],
         NEW d \in [End -> [Method -> Seq(Id)]], NEW f \in [End -> Answers]
  PROVE  [port |-> a, channel |-> b, handling |-> c, handled |-> d, settled |-> f] \in ChannelState
BY Zenon DEF ChannelState

\* One more promise gets what it waited for.
LEMMA AnswersGrow ==
  ASSUME NEW f \in Answers, NEW i \in Id, NEW v \in Id \cup {"rejected"}
  PROVE  [j \in DOMAIN f \cup {i} |-> IF j = i THEN v ELSE f[j]] \in Answers
<1>1. PICK D \in SUBSET Id : f \in [D -> Id \cup {"rejected"}]
  BY DEF Answers
<1>2. D \cup {i} \in SUBSET Id /\ DOMAIN f = D
  BY <1>1
<1>3. [j \in D \cup {i} |-> IF j = i THEN v ELSE f[j]] \in [D \cup {i} -> Id \cup {"rejected"}]
  BY <1>1
<1> QED
  BY <1>2, <1>3 DEF Answers

LEMMA TriggerRequest ==
  ASSUME ChannelAssumption, NEW s \in ChannelState, NEW e \in End, NEW m \in Message, m.event \in Method,
         NEW t, t = Trigger(s, e, m)
  PROVE  /\ t \in ChannelState
         /\ t.port = s.port /\ t.channel = s.channel /\ t.settled = s.settled
         /\ t.handling = s.handling \cup {[end |-> e, call |-> m.event, id |-> m.id]}
         /\ t.handled = [s.handled EXCEPT ![e] = [s.handled[e] EXCEPT ![m.event] = Append(s.handled[e][m.event], m.id)]]
<1>1. /\ t.port = s.port /\ t.channel = s.channel /\ t.settled = s.settled
      /\ t.handling = s.handling \cup {[end |-> e, call |-> m.event, id |-> m.id]}
      /\ t.handled = [s.handled EXCEPT ![e] = [s.handled[e] EXCEPT ![m.event] = Append(s.handled[e][m.event], m.id)]]
      /\ t = [port |-> t.port, channel |-> t.channel, handling |-> t.handling, handled |-> t.handled, settled |-> t.settled]
  BY DEF Trigger, ChannelState
<1>2. m.id \in Id
  BY MessageKinds
<1>3. t.handled \in [End -> [Method -> Seq(Id)]]
  <2>1. s.handled \in [End -> [Method -> Seq(Id)]]
    BY DEF ChannelState
  <2>2. Append(s.handled[e][m.event], m.id) \in Seq(Id)
    BY <1>2, <2>1
  <2> QED
    BY <1>1, <2>1, <2>2
<1>4. /\ s.port \in [End -> PortState] /\ s.channel \in [End -> EndState] /\ s.settled \in [End -> Answers]
      /\ s.handling \in SUBSET [end : End, call : Method, id : Id]
  BY DEF ChannelState
<1>5. t.handling \in SUBSET [end : End, call : Method, id : Id]
  BY <1>1, <1>2, <1>4
<1>6. t \in ChannelState
  <2>1. t.port \in [End -> PortState] /\ t.channel \in [End -> EndState] /\ t.settled \in [End -> Answers]
    BY <1>1, <1>4, Zenon
  <2>2. [port |-> t.port, channel |-> t.channel, handling |-> t.handling, handled |-> t.handled, settled |-> t.settled] \in ChannelState
    BY <1>3, <1>5, <2>1, ChannelStates
  <2>3. t = [port |-> t.port, channel |-> t.channel, handling |-> t.handling, handled |-> t.handled, settled |-> t.settled]
    BY <1>1
  <2> QED
    BY <2>2, <2>3, Zenon
<1> QED
  BY <1>1, <1>6

\* The promise is settled and nothing else happens.
Settles(s, t, e, m) ==
  /\ t.handling = s.handling /\ t.handled = s.handled
  /\ \A x \in End : /\ t.channel[x].next = s.channel[x].next /\ t.channel[x].calls = s.channel[x].calls
                    /\ t.channel[x].pendingPromises = IF x = e THEN s.channel[x].pendingPromises \ {m.id}
                                                      ELSE s.channel[x].pendingPromises
                    /\ t.port[x].wire = s.port[x].wire /\ t.port[x].pending = s.port[x].pending
                    /\ t.port[x].listeners \subseteq s.port[x].listeners
                    /\ x # e => t.settled[x] = s.settled[x]
  /\ DOMAIN t.settled[e] = DOMAIN s.settled[e] \cup {m.id}
  /\ \A id \in DOMAIN t.settled[e] : t.settled[e][id] = IF id = m.id THEN m.id ELSE s.settled[e][id]

LEMMA TriggerResponse ==
  ASSUME ChannelAssumption, NEW s \in ChannelState, NEW e \in End, NEW m \in Message, m.event \notin Method,
         NEW t, t = Trigger(s, e, m)
  PROVE  t \in ChannelState /\ Settles(s, t, e, m)
<1> DEFINE ch == [s.channel[e] EXCEPT !.pendingPromises = s.channel[e].pendingPromises \ {m.event}]
           po == [s.port[e] EXCEPT !.listeners = s.port[e].listeners \ {m.event}]
           an == [i \in DOMAIN s.settled[e] \cup {m.event} |-> IF i = m.event THEN m.answer ELSE s.settled[e][i]]
<1>1. /\ t.handling = s.handling /\ t.handled = s.handled
      /\ t.channel = [s.channel EXCEPT ![e] = ch]
      /\ t.port = [s.port EXCEPT ![e] = po]
      /\ t.settled = [s.settled EXCEPT ![e] = an]
      /\ t = [port |-> t.port, channel |-> t.channel, handling |-> t.handling, handled |-> t.handled, settled |-> t.settled]
  BY DEF Trigger, ChannelState
<1>2. m.id \in Id /\ m.event = m.id /\ m.answer = m.id
  BY MessageKinds
<1>3. /\ s.port \in [End -> PortState] /\ s.channel \in [End -> EndState] /\ s.settled \in [End -> Answers]
      /\ s.handling \in SUBSET [end : End, call : Method, id : Id] /\ s.handled \in [End -> [Method -> Seq(Id)]]
  BY DEF ChannelState
<1>4. /\ ch \in EndState /\ ch.next = s.channel[e].next /\ ch.calls = s.channel[e].calls
      /\ ch.pendingPromises = s.channel[e].pendingPromises \ {m.id}
  <2>1. s.channel[e] \in EndState
    BY <1>3
  <2> QED
    BY <1>2, <2>1 DEF EndState
<1>5. /\ po \in PortState /\ po.wire = s.port[e].wire /\ po.pending = s.port[e].pending
      /\ po.listeners \subseteq s.port[e].listeners
  <2>1. s.port[e] \in PortState
    BY <1>3
  <2> QED
    BY <1>2, <2>1 DEF PortState
<1>6. an \in Answers
  <2>1. s.settled[e] \in Answers
    BY <1>3
  <2>2. m.id \in Id /\ m.id \in Id \cup {"rejected"}
    BY <1>2
  <2>3. [j \in DOMAIN s.settled[e] \cup {m.id} |-> IF j = m.id THEN m.id ELSE s.settled[e][j]] \in Answers
    BY <2>1, <2>2, AnswersGrow
  <2> QED
    BY <1>2, <2>3
<1>7. DOMAIN an = DOMAIN s.settled[e] \cup {m.id} /\ \A id \in DOMAIN an : an[id] = IF id = m.id THEN m.id ELSE s.settled[e][id]
  BY <1>2
<1> HIDE DEF ch, po, an
<1>8. t \in ChannelState
  <2>1. t.channel \in [End -> EndState]
    BY <1>1, <1>3, <1>4
  <2>2. t.port \in [End -> PortState]
    BY <1>1, <1>3, <1>5
  <2>3. t.settled \in [End -> Answers]
    BY <1>1, <1>3, <1>6
  <2>4. t.handling \in SUBSET [end : End, call : Method, id : Id] /\ t.handled \in [End -> [Method -> Seq(Id)]]
    BY <1>1, <1>3, Zenon
  <2>5. [port |-> t.port, channel |-> t.channel, handling |-> t.handling, handled |-> t.handled, settled |-> t.settled] \in ChannelState
    BY <2>1, <2>2, <2>3, <2>4, ChannelStates
  <2>6. t = [port |-> t.port, channel |-> t.channel, handling |-> t.handling, handled |-> t.handled, settled |-> t.settled]
    BY <1>1
  <2> QED
    BY <2>5, <2>6, Zenon
<1> QED
  BY <1>1, <1>3, <1>4, <1>5, <1>7, <1>8 DEF Settles

\* The message waits for its listener.
Queues(s, t, e, m) ==
  /\ t.handling = s.handling /\ t.handled = s.handled /\ t.channel = s.channel /\ t.settled = s.settled
  /\ \A x \in End : /\ t.port[x].wire = s.port[x].wire /\ t.port[x].listeners = s.port[x].listeners
                    /\ \A v \in Event : t.port[x].pending[v] = IF x = e /\ v = m.event THEN Append(s.port[x].pending[v], m)
                                                               ELSE s.port[x].pending[v]

LEMMA QueuePending ==
  ASSUME ChannelAssumption, NEW s \in ChannelState, NEW e \in End, NEW m \in Message,
         NEW t, t = [s EXCEPT !.port[e].pending[m.event] = Append(@, m)]
  PROVE  t \in ChannelState /\ Queues(s, t, e, m)
<1> DEFINE pe == [s.port[e].pending EXCEPT ![m.event] = Append(s.port[e].pending[m.event], m)]
           po == [s.port[e] EXCEPT !.pending = pe]
<1>1. /\ t.handling = s.handling /\ t.handled = s.handled /\ t.channel = s.channel /\ t.settled = s.settled
      /\ t.port = [s.port EXCEPT ![e] = po]
      /\ t = [port |-> t.port, channel |-> t.channel, handling |-> t.handling, handled |-> t.handled, settled |-> t.settled]
  BY DEF ChannelState
<1>2. m.event \in Event
  BY MessageKinds
<1>3. s.port \in [End -> PortState]
  BY DEF ChannelState
<1>4. pe \in [Event -> Seq(Message)] /\ \A v \in Event : pe[v] = IF v = m.event THEN Append(s.port[e].pending[v], m) ELSE s.port[e].pending[v]
  <2>1. s.port[e].pending \in [Event -> Seq(Message)]
    BY <1>3 DEF PortState
  <2>2. Append(s.port[e].pending[m.event], m) \in Seq(Message)
    BY <1>2, <2>1
  <2> QED
    BY <1>2, <2>1, <2>2
<1> HIDE DEF pe
<1>5. po \in PortState /\ po.wire = s.port[e].wire /\ po.listeners = s.port[e].listeners /\ po.pending = pe
  BY <1>3, <1>4 DEF PortState
<1> HIDE DEF po
<1>6. t \in ChannelState
  BY <1>1, <1>3, <1>5 DEF ChannelState
<1>7. \A x \in End : t.port[x] = IF x = e THEN po ELSE s.port[x]
  BY <1>1, <1>3
<1>8. ASSUME NEW x \in End, NEW v \in Event
      PROVE  t.port[x].pending[v] = IF x = e /\ v = m.event THEN Append(s.port[x].pending[v], m) ELSE s.port[x].pending[v]
  <2>1. CASE x = e
    <3>1. t.port[x].pending = pe
      BY <1>5, <1>7, <2>1
    <3> QED
      BY <1>4, <2>1, <3>1
  <2>2. CASE x # e
    <3>1. t.port[x] = s.port[x]
      BY <1>7, <2>2
    <3> QED
      BY <2>2, <3>1
  <2> QED
    BY <2>1, <2>2
<1>9. \A x \in End : t.port[x].wire = s.port[x].wire /\ t.port[x].listeners = s.port[x].listeners
  BY <1>5, <1>7
<1> QED
  BY <1>1, <1>6, <1>8, <1>9 DEF Queues

------------------------------------------------------------------------------
(* What is kept by the pieces of a step, in any state of both ends.         *)

WasHandled(s, e, id) == id \in IdsOf(s.handled[e][id[1]])

\* The requests at an end, of one method; a listener leaves nothing pending.
LineOk(s, e, c) ==
  /\ Line(s.handled[e][c], s.port[e].pending[c], s.port[e].wire, s.channel[Other(e)].next, c)
  /\ \A i \in DOMAIN s.port[e].pending[c] : s.port[e].pending[c][i].event = c
  /\ c \in s.port[e].listeners => s.port[e].pending[c] = <<>>
LinesOk(s) == \A e \in End, c \in Method : LineOk(s, e, c)

\* An answer was given by the other end's handler, wherever it is.
AnswersOk(s) ==
  /\ \A e \in End : \A id \in DOMAIN s.settled[e] :
        s.settled[e][id] = "rejected" \/ (s.settled[e][id] = id /\ WasHandled(s, Other(e), id))
  /\ \A h \in s.handling : h.id[1] = h.call /\ WasHandled(s, h.end, h.id)
  /\ \A e \in End : \A i \in DOMAIN s.port[e].wire :
        s.port[e].wire[i].event \notin Method => WasHandled(s, Other(e), s.port[e].wire[i].id)

\* Between direct ports nothing is under way, and a request that has no answer
\* waits for it until the ports are closed.
PromisesOk(s) ==
  direct => \A e \in End :
    /\ s.port[e].wire = <<>>
    /\ \A i \in DOMAIN s.channel[e].calls :
        /\ open = End => s.channel[e].calls[i][1] \in DOMAIN s.settled[e] \cup s.channel[e].pendingPromises
        /\ open = {} /\ s.channel[e].calls[i][2] => s.channel[e].calls[i][1] \in DOMAIN s.settled[e]

\* Whatever was requested is in line at the other end.
AllAt(s, e, c) == AllOf(s.handled[e][c], s.port[e].pending[c], s.port[e].wire, c)
MadeIn(s, e, c) == {id \in {s.channel[e].calls[i][1] : i \in DOMAIN s.channel[e].calls} : id[1] = c}
MadeOk(s) == open = End => \A e \in End, c \in Method : MadeIn(s, Other(e), c) = AllAt(s, e, c)

IsOk(s) == LinesOk(s) /\ AnswersOk(s) /\ PromisesOk(s)

\* A message is added to those at an end, and the requests made are the same.
Takes(s, t, e, m) ==
  /\ \A x \in End : t.channel[x].next = s.channel[x].next /\ t.channel[x].calls = s.channel[x].calls
  /\ \A x \in End, c \in Method : AllAt(t, x, c) = AllAt(s, x, c) \cup (IF x = e /\ c = m.event THEN {m.id} ELSE {})

LEMMA FieldTypes ==
  ASSUME ChannelAssumption, NEW s \in ChannelState, NEW e \in End
  PROVE  /\ s.port[e].wire \in Seq(Message) /\ s.port[e].listeners \in SUBSET Event
         /\ \A v \in Event : s.port[e].pending[v] \in Seq(Message)
         /\ \A c \in Method : c \in Event /\ s.handled[e][c] \in Seq(Id)
         /\ s.channel[e].next \in Nat /\ s.channel[e].calls \in Seq(Id \X BOOLEAN) /\ s.channel[e].pendingPromises \in SUBSET Id
         /\ DOMAIN s.settled[e] \subseteq Id
<1>1. s.port[e] \in PortState /\ s.channel[e] \in EndState /\ s.handled[e] \in [Method -> Seq(Id)] /\ s.settled[e] \in Answers
  BY DEF ChannelState
<1>2. PICK D \in SUBSET Id : s.settled[e] \in [D -> Id \cup {"rejected"}]
  BY <1>1 DEF Answers
<1>3. DOMAIN s.settled[e] = D
  BY <1>2
<1>4. /\ s.port[e].wire \in Seq(Message) /\ s.port[e].listeners \in SUBSET Event
      /\ \A v \in Event : s.port[e].pending[v] \in Seq(Message)
  BY <1>1 DEF PortState
<1>5. s.channel[e].next \in Nat /\ s.channel[e].calls \in Seq(Id \X BOOLEAN) /\ s.channel[e].pendingPromises \in SUBSET Id
  BY <1>1 DEF EndState, ChannelAssumption
<1> QED
  BY <1>1, <1>3, <1>4, <1>5 DEF Event

LEMMA ReceivedByHandler ==
  ASSUME ChannelAssumption, NEW s \in ChannelState, NEW e \in End, NEW m \in Message, m.event \in Method,
         IsOk(s), m.event \in s.port[e].listeners,
         m.id[2] <= s.channel[Other(e)].next,
         \A x \in IdsOf(s.handled[e][m.event]) : x[2] < m.id[2],
         \A x \in IdsIn(s.port[e].wire, m.event) : m.id[2] < x[2],
         NEW t, t = Trigger(s, e, m)
  PROVE  t \in ChannelState /\ IsOk(t) /\ Takes(s, t, e, m)
<1> DEFINE h == Append(s.handled[e][m.event], m.id)
<1>1. /\ t \in ChannelState
      /\ t.port = s.port /\ t.channel = s.channel /\ t.settled = s.settled
      /\ t.handling = s.handling \cup {[end |-> e, call |-> m.event, id |-> m.id]}
      /\ t.handled = [s.handled EXCEPT ![e] = [s.handled[e] EXCEPT ![m.event] = h]]
  BY TriggerRequest
<1>2. /\ s.handled \in [End -> [Method -> Seq(Id)]] /\ s.handling \in SUBSET [end : End, call : Method, id : Id]
      /\ Other(e) \in End
  BY OtherEnd DEF ChannelState
<1>3. \A x \in End, c \in Method : t.handled[x][c] = IF x = e /\ c = m.event THEN h ELSE s.handled[x][c]
  <2> HIDE DEF h
  <2> QED
    BY <1>1, <1>2
<1>4. m.id \in Id /\ m.id[1] = m.event
  BY MessageKinds
<1>5. LineOk(s, e, m.event) /\ s.port[e].pending[m.event] = <<>>
  BY DEF IsOk, LinesOk, LineOk
<1>6. /\ Line(h, s.port[e].pending[m.event], s.port[e].wire, s.channel[Other(e)].next, m.event)
      /\ AllOf(h, s.port[e].pending[m.event], s.port[e].wire, m.event) = AllAt(s, e, m.event) \cup {m.id}
  <2>1. /\ s.handled[e][m.event] \in Seq(Id) /\ s.port[e].pending[m.event] \in Seq(Message) /\ s.port[e].wire \in Seq(Message)
        /\ s.channel[Other(e)].next \in Nat
    BY <1>2, FieldTypes
  <2>2. Line(s.handled[e][m.event], s.port[e].pending[m.event], s.port[e].wire, s.channel[Other(e)].next, m.event)
    BY <1>5 DEF LineOk
  <2>3. IdsIn(s.port[e].pending[m.event], m.event) = {}
    BY <1>5, IdsOfNone
  <2> QED
    BY <1>4, <2>1, <2>2, <2>3, LineHandles DEF AllAt
<1> HIDE DEF h
<1>7. ASSUME NEW x \in End, NEW c \in Method
      PROVE  LineOk(t, x, c) /\ AllAt(t, x, c) = AllAt(s, x, c) \cup (IF x = e /\ c = m.event THEN {m.id} ELSE {})
  <2>1. CASE x = e /\ c = m.event
    BY <1>1, <1>3, <1>5, <1>6, <2>1 DEF LineOk, AllAt
  <2>2. CASE ~(x = e /\ c = m.event)
    <3>1. t.handled[x][c] = s.handled[x][c]
      BY <1>3, <2>2
    <3>2. LineOk(s, x, c)
      BY DEF IsOk, LinesOk
    <3> QED
      BY <1>1, <2>2, <3>1, <3>2 DEF LineOk, AllAt
  <2> QED
    BY <2>1, <2>2
<1>8. ASSUME NEW x \in End, NEW id \in Id PROVE WasHandled(s, x, id) => WasHandled(t, x, id)
  <2>1. id[1] \in Method
    BY DEF Id
  <2>2. IdsOf(s.handled[e][m.event]) \subseteq IdsOf(h)
    <3>1. s.handled[e][m.event] \in Seq(Id)
      BY <1>2
    <3> QED
      BY <1>4, <3>1, IdsOfOneMore DEF h
  <2>3. IdsOf(s.handled[x][id[1]]) \subseteq IdsOf(t.handled[x][id[1]])
    BY <1>3, <2>1, <2>2
  <2> QED
    BY <2>3 DEF WasHandled
<1>9. WasHandled(t, e, m.id)
  <2>1. s.handled[e][m.event] \in Seq(Id)
    BY <1>2
  <2>2. m.id \in IdsOf(h)
    BY <1>4, <2>1, IdsOfOneMore DEF h
  <2> QED
    BY <1>3, <1>4, <2>2 DEF WasHandled
<1>10. AnswersOk(t)
  <2>1. /\ \A x \in End : DOMAIN s.settled[x] \subseteq Id /\ s.port[x].wire \in Seq(Message) /\ Other(x) \in End
        /\ \A x \in End : \A i \in DOMAIN s.port[x].wire : s.port[x].wire[i].id \in Id
    BY FieldTypes, OtherEnd, MessageKinds
  <2>2. \A x \in End : \A id \in DOMAIN t.settled[x] :
          t.settled[x][id] = "rejected" \/ (t.settled[x][id] = id /\ WasHandled(t, Other(x), id))
    BY <1>1, <1>8, <2>1 DEF IsOk, AnswersOk
  <2>3. ASSUME NEW k \in t.handling PROVE k.id[1] = k.call /\ WasHandled(t, k.end, k.id)
    <3>1. CASE k \in s.handling
      <4>1. k.end \in End /\ k.id \in Id
        BY <1>2, <3>1
      <4> QED
        BY <1>8, <3>1, <4>1 DEF IsOk, AnswersOk
    <3>2. CASE k = [end |-> e, call |-> m.event, id |-> m.id]
      BY <1>4, <1>9, <3>2
    <3> QED
      BY <1>1, <2>3, <3>1, <3>2
  <2>4. \A x \in End : \A i \in DOMAIN t.port[x].wire :
          t.port[x].wire[i].event \notin Method => WasHandled(t, Other(x), t.port[x].wire[i].id)
    BY <1>1, <1>8, <2>1 DEF IsOk, AnswersOk
  <2> QED
    BY <2>2, <2>3, <2>4 DEF IsOk, AnswersOk
<1>11. PromisesOk(t)
  BY <1>1 DEF IsOk, PromisesOk
<1> QED
  BY <1>1, <1>7, <1>10, <1>11 DEF IsOk, Takes, LinesOk

LEMMA ReceivedByPromise ==
  ASSUME ChannelAssumption, NEW s \in ChannelState, NEW e \in End, NEW m \in Message, m.event \notin Method,
         IsOk(s), WasHandled(s, Other(e), m.id),
         NEW t, t = Trigger(s, e, m)
  PROVE  t \in ChannelState /\ IsOk(t) /\ Takes(s, t, e, m)
<1>0. t \in ChannelState /\ Settles(s, t, e, m)
  BY TriggerResponse
<1>1. /\ t \in ChannelState
      /\ t.handling = s.handling /\ t.handled = s.handled
      /\ \A x \in End : /\ t.channel[x].next = s.channel[x].next /\ t.channel[x].calls = s.channel[x].calls
                        /\ t.channel[x].pendingPromises = IF x = e THEN s.channel[x].pendingPromises \ {m.id}
                                                          ELSE s.channel[x].pendingPromises
                        /\ t.port[x].wire = s.port[x].wire /\ t.port[x].pending = s.port[x].pending
                        /\ t.port[x].listeners \subseteq s.port[x].listeners
                        /\ x # e => t.settled[x] = s.settled[x]
      /\ DOMAIN t.settled[e] = DOMAIN s.settled[e] \cup {m.id}
      /\ \A id \in DOMAIN t.settled[e] : t.settled[e][id] = IF id = m.id THEN m.id ELSE s.settled[e][id]
  BY <1>0 DEF Settles
<1>2. \A x \in End : Other(x) \in End
  BY OtherEnd
<1>3. ASSUME NEW x \in End, NEW c \in Method PROVE LineOk(t, x, c) /\ AllAt(t, x, c) = AllAt(s, x, c)
  <2>1. LineOk(s, x, c)
    BY DEF IsOk, LinesOk
  <2>2. /\ t.handled[x][c] = s.handled[x][c] /\ t.port[x].pending[c] = s.port[x].pending[c] /\ t.port[x].wire = s.port[x].wire
        /\ t.channel[Other(x)].next = s.channel[Other(x)].next
        /\ c \in t.port[x].listeners => c \in s.port[x].listeners
    BY <1>1, <1>2
  <2> QED
    BY <2>1, <2>2 DEF LineOk, AllAt
<1>4. \A x, id : WasHandled(t, x, id) <=> WasHandled(s, x, id)
  BY <1>1 DEF WasHandled
<1>5. AnswersOk(t)
  <2>1. ASSUME NEW x \in End, NEW id \in DOMAIN t.settled[x]
        PROVE  t.settled[x][id] = "rejected" \/ (t.settled[x][id] = id /\ WasHandled(t, Other(x), id))
    <3>1. CASE x = e /\ id = m.id
      BY <1>1, <1>4, <3>1
    <3>2. CASE ~(x = e /\ id = m.id)
      <4>1. id \in DOMAIN s.settled[x] /\ t.settled[x][id] = s.settled[x][id]
        <5>1. CASE x = e
          BY <1>1, <2>1, <3>2, <5>1
        <5>2. CASE x # e
          <6>1. t.settled[x] = s.settled[x]
            BY <1>1, <5>2
          <6> QED
            BY <2>1, <6>1
        <5> QED
          BY <5>1, <5>2
      <4> QED
        BY <1>4, <4>1 DEF IsOk, AnswersOk
    <3> QED
      BY <3>1, <3>2
  <2>2. \A h \in t.handling : h.id[1] = h.call /\ WasHandled(t, h.end, h.id)
    BY <1>1, <1>4 DEF IsOk, AnswersOk
  <2>3. \A x \in End : \A i \in DOMAIN t.port[x].wire :
          t.port[x].wire[i].event \notin Method => WasHandled(t, Other(x), t.port[x].wire[i].id)
    BY <1>1, <1>4 DEF IsOk, AnswersOk
  <2> QED
    BY <2>1, <2>2, <2>3 DEF IsOk, AnswersOk
<1>6. PromisesOk(t)
  <2>1. \A x \in End : /\ DOMAIN s.settled[x] \subseteq DOMAIN t.settled[x]
                       /\ s.channel[x].pendingPromises \subseteq t.channel[x].pendingPromises \cup DOMAIN t.settled[x]
    BY <1>1
  <2>2. SUFFICES ASSUME direct, NEW x \in End
                 PROVE  /\ t.port[x].wire = <<>>
                        /\ \A i \in DOMAIN t.channel[x].calls :
                            /\ open = End => t.channel[x].calls[i][1] \in DOMAIN t.settled[x] \cup t.channel[x].pendingPromises
                            /\ open = {} /\ t.channel[x].calls[i][2] => t.channel[x].calls[i][1] \in DOMAIN t.settled[x]
    BY DEF IsOk, PromisesOk
  <2>3. t.channel[x].calls = s.channel[x].calls /\ t.port[x].wire = s.port[x].wire
    BY <1>1
  <2> QED
    BY <2>1, <2>2, <2>3 DEF IsOk, PromisesOk
<1> QED
  BY <1>1, <1>3, <1>5, <1>6 DEF IsOk, Takes, LinesOk

\* A message nobody listens to waits; it is before what comes.
LEMMA ReceivedByNobody ==
  ASSUME ChannelAssumption, NEW s \in ChannelState, NEW e \in End, NEW m \in Message,
         IsOk(s), m.event \notin s.port[e].listeners,
         m.event \in Method =>
            /\ m.id[2] <= s.channel[Other(e)].next
            /\ \A x \in IdsOf(s.handled[e][m.event]) \cup IdsIn(s.port[e].pending[m.event], m.event) : x[2] < m.id[2]
            /\ \A x \in IdsIn(s.port[e].wire, m.event) : m.id[2] < x[2],
         NEW t, t = [s EXCEPT !.port[e].pending[m.event] = Append(@, m)]
  PROVE  t \in ChannelState /\ IsOk(t) /\ Takes(s, t, e, m)
<1>0. t \in ChannelState /\ Queues(s, t, e, m)
  BY QueuePending
<1>1. /\ t \in ChannelState
      /\ t.handling = s.handling /\ t.handled = s.handled /\ t.channel = s.channel /\ t.settled = s.settled
      /\ \A x \in End : /\ t.port[x].wire = s.port[x].wire /\ t.port[x].listeners = s.port[x].listeners
                        /\ \A v \in Event : t.port[x].pending[v] = IF x = e /\ v = m.event THEN Append(s.port[x].pending[v], m)
                                                                   ELSE s.port[x].pending[v]
  BY <1>0 DEF Queues
<1>2. ASSUME NEW x \in End, NEW c \in Method
      PROVE  LineOk(t, x, c) /\ AllAt(t, x, c) = AllAt(s, x, c) \cup (IF x = e /\ c = m.event THEN {m.id} ELSE {})
  <2>1. LineOk(s, x, c) /\ c \in Event
    BY DEF IsOk, LinesOk, Event
  <2>2. CASE x = e /\ c = m.event
    <3>1. /\ s.handled[x][c] \in Seq(Id) /\ s.port[x].pending[c] \in Seq(Message) /\ s.port[x].wire \in Seq(Message)
          /\ s.channel[Other(x)].next \in Nat
      BY OtherEnd, FieldTypes
    <3>2. /\ Line(s.handled[x][c], Append(s.port[x].pending[c], m), s.port[x].wire, s.channel[Other(x)].next, c)
          /\ AllOf(s.handled[x][c], Append(s.port[x].pending[c], m), s.port[x].wire, c) = AllAt(s, x, c) \cup {m.id}
      BY <2>1, <2>2, <3>1, LineWaits DEF LineOk, AllAt
    <3>3. t.port[x].pending[c] = Append(s.port[x].pending[c], m)
      BY <1>1, <2>1, <2>2
    <3>4. \A i \in DOMAIN t.port[x].pending[c] : t.port[x].pending[c][i].event = c
      <4> DEFINE p == s.port[x].pending[c]
      <4>1. p \in Seq(Message) /\ \A i \in DOMAIN p : p[i].event = c
        BY <2>1, <3>1 DEF LineOk
      <4> HIDE DEF p
      <4>2. \A i \in DOMAIN Append(p, m) : Append(p, m)[i] = m \/ (i \in DOMAIN p /\ Append(p, m)[i] = p[i])
        BY <4>1
      <4>3. \A i \in DOMAIN Append(p, m) : Append(p, m)[i].event = c
        BY <2>2, <4>1, <4>2
      <4> QED
        BY <3>3, <4>3 DEF p
    <3> QED
      BY <1>1, <2>2, <3>2, <3>3, <3>4 DEF LineOk, AllAt
  <2>3. CASE ~(x = e /\ c = m.event)
    <3>1. t.port[x].pending[c] = s.port[x].pending[c]
      BY <1>1, <2>1, <2>3
    <3> QED
      BY <1>1, <2>1, <2>3, <3>1 DEF LineOk, AllAt
  <2> QED
    BY <2>2, <2>3
<1>3. AnswersOk(t)
  <2>1. \A x, id : WasHandled(t, x, id) <=> WasHandled(s, x, id)
    BY <1>1 DEF WasHandled
  <2>2. \A x \in End : t.port[x].wire = s.port[x].wire
    BY <1>1
  <2>3. t.settled = s.settled /\ t.handling = s.handling
    BY <1>1
  <2>4. AnswersOk(s)
    BY DEF IsOk
  <2>5. \A x \in End : \A id \in DOMAIN t.settled[x] :
          t.settled[x][id] = "rejected" \/ (t.settled[x][id] = id /\ WasHandled(t, Other(x), id))
    BY <2>1, <2>3, <2>4 DEF AnswersOk
  <2>6. \A h \in t.handling : h.id[1] = h.call /\ WasHandled(t, h.end, h.id)
    BY <2>1, <2>3, <2>4 DEF AnswersOk
  <2>7. \A x \in End : \A i \in DOMAIN t.port[x].wire :
          t.port[x].wire[i].event \notin Method => WasHandled(t, Other(x), t.port[x].wire[i].id)
    BY <2>1, <2>2, <2>4 DEF AnswersOk
  <2> QED
    BY <2>5, <2>6, <2>7 DEF AnswersOk
<1>4. PromisesOk(t)
  BY <1>1 DEF IsOk, PromisesOk
<1> QED
  BY <1>1, <1>2, <1>3, <1>4 DEF IsOk, Takes, LinesOk

\* A message that comes after all that were handled or wait, and before all
\* that are still on the way.
IsNext(s, e, m) ==
  /\ m.event \in Method =>
        /\ m.id[2] <= s.channel[Other(e)].next
        /\ \A x \in IdsOf(s.handled[e][m.event]) \cup IdsIn(s.port[e].pending[m.event], m.event) : x[2] < m.id[2]
        /\ \A x \in IdsIn(s.port[e].wire, m.event) : m.id[2] < x[2]
  /\ m.event \notin Method => WasHandled(s, Other(e), m.id)

LEMMA Received ==
  ASSUME ChannelAssumption, NEW s \in ChannelState, NEW e \in End, NEW m \in Message,
         IsOk(s), IsNext(s, e, m), NEW t, t = Receive(s, e, m)
  PROVE  t \in ChannelState /\ IsOk(t) /\ Takes(s, t, e, m)
<1>1. CASE m.event \in s.port[e].listeners /\ m.event \in Method
  BY <1>1, ReceivedByHandler DEF IsNext, Receive
<1>2. CASE m.event \in s.port[e].listeners /\ m.event \notin Method
  BY <1>2, ReceivedByPromise DEF IsNext, Receive
<1>3. CASE m.event \notin s.port[e].listeners
  BY <1>3, ReceivedByNobody DEF IsNext, Receive
<1> QED
  BY <1>1, <1>2, <1>3

\* A message is posted that comes after all the others.
IsLast(s, e, m) ==
  /\ m.event \in Method =>
        /\ m.id[2] <= s.channel[Other(e)].next
        /\ \A x \in AllAt(s, e, m.event) : x[2] < m.id[2]
  /\ m.event \notin Method => WasHandled(s, Other(e), m.id)

LEMMA Posted ==
  ASSUME ChannelAssumption, NEW s \in ChannelState, NEW e \in End, NEW m \in Message,
         IsOk(s), IsLast(s, e, m), NEW t, t = PostMessage(s, e, m)
  PROVE  t \in ChannelState /\ IsOk(t) /\ (open = End => Takes(s, t, e, m))
<1>1. CASE direct
  <2>1. s.port[e].wire = <<>>
    BY <1>1 DEF IsOk, PromisesOk
  <2>2. IdsIn(s.port[e].wire, m.event) = {}
    BY <2>1, IdsOfNone
  <2>3. IsNext(s, e, m)
    BY <2>2 DEF IsLast, IsNext, AllAt, AllOf
  <2>4. t = Receive(s, e, m)
    BY <1>1 DEF PostMessage
  <2> QED
    BY <2>3, <2>4, Received
<1>2. CASE ~direct /\ open # End
  BY <1>2 DEF PostMessage
<1>3. CASE ~direct /\ open = End
  <2> DEFINE w == Append(s.port[e].wire, m)
             po == [s.port[e] EXCEPT !.wire = w]
  <2>1. /\ t.handling = s.handling /\ t.handled = s.handled /\ t.channel = s.channel /\ t.settled = s.settled
        /\ t.port = [s.port EXCEPT ![e] = po]
        /\ t = [port |-> t.port, channel |-> t.channel, handling |-> t.handling, handled |-> t.handled, settled |-> t.settled]
    BY <1>3 DEF PostMessage, ChannelState
  <2>2. s.port \in [End -> PortState] /\ s.port[e].wire \in Seq(Message)
    BY FieldTypes DEF ChannelState
  <2>3. w \in Seq(Message)
    BY <2>2
  <2> HIDE DEF w
  <2>4. po \in PortState /\ po.listeners = s.port[e].listeners /\ po.pending = s.port[e].pending /\ po.wire = w
    <3>1. s.port[e] \in PortState
      BY <2>2
    <3> QED
      BY <2>3, <3>1 DEF PortState
  <2> HIDE DEF po
  <2>5. t.port \in [End -> PortState] /\ \A x \in End : t.port[x] = IF x = e THEN po ELSE s.port[x]
    BY <2>1, <2>2, <2>4
  <2>6. t \in ChannelState
    <3>1. /\ t.channel \in [End -> EndState] /\ t.settled \in [End -> Answers]
          /\ t.handling \in SUBSET [end : End, call : Method, id : Id] /\ t.handled \in [End -> [Method -> Seq(Id)]]
      BY <2>1 DEF ChannelState
    <3>2. [port |-> t.port, channel |-> t.channel, handling |-> t.handling, handled |-> t.handled, settled |-> t.settled] \in ChannelState
      BY <2>5, <3>1, ChannelStates
    <3> QED
      BY <2>1, <3>2, Zenon
  <2>7. ASSUME NEW x \in End, NEW c \in Method
        PROVE  LineOk(t, x, c) /\ AllAt(t, x, c) = AllAt(s, x, c) \cup (IF x = e /\ c = m.event THEN {m.id} ELSE {})
    <3>1. LineOk(s, x, c)
      BY DEF IsOk, LinesOk
    <3>2. CASE x = e
      <4>1. /\ s.handled[e][c] \in Seq(Id) /\ s.port[e].pending[c] \in Seq(Message) /\ s.port[e].wire \in Seq(Message)
            /\ s.channel[Other(e)].next \in Nat
        BY OtherEnd, FieldTypes
      <4>2. Line(s.handled[e][c], s.port[e].pending[c], s.port[e].wire, s.channel[Other(e)].next, c)
        BY <3>1, <3>2 DEF LineOk
      <4>3. m.event = c => m.id[2] <= s.channel[Other(e)].next
                           /\ \A y \in AllOf(s.handled[e][c], s.port[e].pending[c], s.port[e].wire, c) : y[2] < m.id[2]
        BY DEF IsLast, AllAt
      <4>4. /\ Line(s.handled[e][c], s.port[e].pending[c], w, s.channel[Other(e)].next, c)
            /\ AllOf(s.handled[e][c], s.port[e].pending[c], w, c)
                 = AllOf(s.handled[e][c], s.port[e].pending[c], s.port[e].wire, c) \cup (IF m.event = c THEN {m.id} ELSE {})
        BY <4>1, <4>2, <4>3, LineComes DEF w
      <4>5. t.port[x].pending = s.port[x].pending /\ t.port[x].wire = w /\ t.port[x].listeners = s.port[x].listeners
        BY <2>4, <2>5, <3>2
      <4> QED
        BY <2>1, <3>1, <3>2, <4>4, <4>5 DEF LineOk, AllAt
    <3>3. CASE x # e
      <4>1. t.port[x] = s.port[x]
        BY <2>5, <3>3
      <4> QED
        BY <2>1, <3>1, <3>3, <4>1 DEF LineOk, AllAt
    <3> QED
      BY <3>2, <3>3
  <2>8. AnswersOk(t)
    <3>1. AnswersOk(s)
      BY DEF IsOk
    <3>2. \A x, id : WasHandled(t, x, id) <=> WasHandled(s, x, id)
      BY <2>1 DEF WasHandled
    <3>3. \A x \in End : \A id \in DOMAIN t.settled[x] :
            t.settled[x][id] = "rejected" \/ (t.settled[x][id] = id /\ WasHandled(t, Other(x), id))
      BY <2>1, <3>1, <3>2 DEF AnswersOk
    <3>4. \A h \in t.handling : h.id[1] = h.call /\ WasHandled(t, h.end, h.id)
      BY <2>1, <3>1, <3>2 DEF AnswersOk
    <3>5. ASSUME NEW x \in End, NEW i \in DOMAIN t.port[x].wire, t.port[x].wire[i].event \notin Method
          PROVE  WasHandled(t, Other(x), t.port[x].wire[i].id)
      <4>1. CASE x = e
        <5>1. t.port[x].wire = w /\ i \in DOMAIN w
          BY <2>4, <2>5, <3>5, <4>1
        <5>2. w[i] = m \/ (i \in DOMAIN s.port[x].wire /\ w[i] = s.port[x].wire[i])
          BY <2>2, <4>1, <5>1 DEF w
        <5>3. CASE w[i] = m
          BY <3>2, <3>5, <4>1, <5>1, <5>3 DEF IsLast
        <5>4. CASE i \in DOMAIN s.port[x].wire /\ w[i] = s.port[x].wire[i]
          BY <3>1, <3>2, <3>5, <5>1, <5>4 DEF AnswersOk
        <5> QED
          BY <5>2, <5>3, <5>4
      <4>2. CASE x # e
        <5>1. t.port[x] = s.port[x]
          BY <2>5, <4>2
        <5> QED
          BY <3>1, <3>2, <3>5, <5>1 DEF AnswersOk
      <4> QED
        BY <4>1, <4>2
    <3> QED
      BY <3>3, <3>4, <3>5 DEF AnswersOk
  <2>9. PromisesOk(t)
    BY <1>3 DEF PromisesOk
  <2> QED
    BY <2>1, <2>6, <2>7, <2>8, <2>9 DEF IsOk, LinesOk, Takes
<1> QED
  BY <1>1, <1>2, <1>3

------------------------------------------------------------------------------
(* The steps.                                                               *)

ChannelInv ==
  /\ direct \in BOOLEAN /\ open \in SUBSET End /\ (direct => open \in {End, {}})
  /\ Here \in ChannelState /\ IsOk(Here) /\ MadeOk(Here)

\* The state a handler leaves is the next one.
LEMMA Left ==
  ASSUME NEW s, s \in ChannelState, Leave(s), IsOk(s), MadeOk(s), open' = open, ChannelInv
  PROVE  ChannelInv'
<1>1. Here' = s /\ direct' = direct
  BY DEF Here, Leave, ChannelState
<1>2. LinesOk(Here)'
  BY <1>1 DEF IsOk, LinesOk, LineOk
<1>3. AnswersOk(Here)'
  BY <1>1 DEF IsOk, AnswersOk, WasHandled
<1>4. PromisesOk(Here)'
  BY <1>1 DEF IsOk, PromisesOk
<1>5. MadeOk(Here)'
  BY <1>1 DEF MadeOk, MadeIn, AllAt
<1>6. (Here \in ChannelState)'
  BY <1>1 DEF ChannelState, EndState
<1> QED
  BY <1>1, <1>2, <1>3, <1>4, <1>5, <1>6 DEF ChannelInv, IsOk

\* A handler is done.
LEMMA HandlingEnds ==
  ASSUME ChannelAssumption, NEW s \in ChannelState, IsOk(s), MadeOk(s), NEW h, NEW t, t = [s EXCEPT !.handling = @ \ {h}]
  PROVE  t \in ChannelState /\ IsOk(t) /\ MadeOk(t)
<1>1. /\ t.port = s.port /\ t.channel = s.channel /\ t.handling = s.handling \ {h} /\ t.handled = s.handled /\ t.settled = s.settled
      /\ t = [port |-> t.port, channel |-> t.channel, handling |-> t.handling, handled |-> t.handled, settled |-> t.settled]
  BY DEF ChannelState
<1>2. t \in ChannelState
  <2>1. /\ t.port \in [End -> PortState] /\ t.channel \in [End -> EndState] /\ t.settled \in [End -> Answers]
        /\ t.handled \in [End -> [Method -> Seq(Id)]] /\ s.handling \in SUBSET [end : End, call : Method, id : Id]
    BY <1>1 DEF ChannelState
  <2>2. t.handling \in SUBSET [end : End, call : Method, id : Id]
    BY <1>1, <2>1, Zenon
  <2>3. [port |-> t.port, channel |-> t.channel, handling |-> t.handling, handled |-> t.handled, settled |-> t.settled] \in ChannelState
    BY <2>1, <2>2, ChannelStates
  <2> QED
    BY <1>1, <2>3, Zenon
<1>3. LinesOk(t)
  BY <1>1 DEF IsOk, LinesOk, LineOk
<1>4. AnswersOk(t)
  <2>1. AnswersOk(s) /\ \A x, id : WasHandled(t, x, id) <=> WasHandled(s, x, id)
    BY <1>1 DEF IsOk, WasHandled
  <2>2. \A x \in End : \A id \in DOMAIN t.settled[x] :
          t.settled[x][id] = "rejected" \/ (t.settled[x][id] = id /\ WasHandled(t, Other(x), id))
    BY <1>1, <2>1 DEF AnswersOk
  <2>3. \A k \in t.handling : k.id[1] = k.call /\ WasHandled(t, k.end, k.id)
    BY <1>1, <2>1 DEF AnswersOk
  <2>4. \A x \in End : \A i \in DOMAIN t.port[x].wire :
          t.port[x].wire[i].event \notin Method => WasHandled(t, Other(x), t.port[x].wire[i].id)
    BY <1>1, <2>1 DEF AnswersOk
  <2> QED
    BY <2>2, <2>3, <2>4 DEF AnswersOk
<1>5. PromisesOk(t)
  BY <1>1 DEF IsOk, PromisesOk
<1>6. MadeOk(t)
  BY <1>1 DEF MadeOk, MadeIn, AllAt
<1> QED
  BY <1>2, <1>3, <1>4, <1>5, <1>6 DEF IsOk

LEMMA HandlerThrowsStep ==
  ASSUME ChannelAssumption, ChannelInv, NEW h \in handling, HandlerThrows(h)
  PROVE  ChannelInv'
<1> DEFINE s == [Here EXCEPT !.handling = @ \ {h}]
<1>1. /\ s.port = port /\ s.channel = channel /\ s.handling = handling \ {h} /\ s.handled = handled /\ s.settled = settled
      /\ Here.port = port /\ Here.channel = channel /\ Here.handling = handling /\ Here.handled = handled /\ Here.settled = settled
  BY DEF Here
<1>2. Leave(s) /\ open' = open
  BY <1>1 DEF HandlerThrows, Leave
<1> HIDE DEF s
<1>3. s \in ChannelState /\ IsOk(s) /\ MadeOk(s)
  <2>1. Here \in ChannelState /\ IsOk(Here) /\ MadeOk(Here)
    BY DEF ChannelInv
  <2> QED
    BY <2>1, HandlingEnds DEF s
<1> QED
  BY <1>2, <1>3, Left

LEMMA MadeWhenTaken ==
  ASSUME NEW s, NEW t, NEW e, NEW m, MadeOk(s), m.event \notin Method, open = End => Takes(s, t, e, m)
  PROVE  MadeOk(t)
<1>1. SUFFICES ASSUME open = End, NEW x \in End, NEW c \in Method PROVE MadeIn(t, Other(x), c) = AllAt(t, x, c)
  BY DEF MadeOk
<1>2. AllAt(t, x, c) = AllAt(s, x, c) /\ t.channel[Other(x)].calls = s.channel[Other(x)].calls
  <2>1. Takes(s, t, e, m) /\ Other(x) \in End /\ c # m.event
    BY <1>1, OtherEnd
  <2>2. AllAt(t, x, c) = AllAt(s, x, c) \cup {}
    BY <2>1 DEF Takes
  <2> QED
    BY <2>1, <2>2 DEF Takes
<1> QED
  BY <1>1, <1>2 DEF MadeOk, MadeIn

LEMMA PostResponseStep ==
  ASSUME ChannelAssumption, ChannelInv, NEW h \in handling, PostResponse(h)
  PROVE  ChannelInv'
<1> DEFINE s == [Here EXCEPT !.handling = @ \ {h}]
           m == Response(h.id)
           t == PostMessage(s, Other(h.end), m)
<1>1. s \in ChannelState /\ IsOk(s) /\ MadeOk(s)
  <2>1. Here \in ChannelState /\ IsOk(Here) /\ MadeOk(Here)
    BY DEF ChannelInv
  <2> QED
    BY <2>1, HandlingEnds
<1>2. h.end \in End /\ h.id \in Id /\ Other(h.end) \in End /\ Other(Other(h.end)) = h.end
  <2>1. h.end \in End /\ h.id \in Id
    BY DEF ChannelInv, Here, ChannelState
  <2> QED
    BY <2>1, OtherEnd
<1>3. m \in Message /\ m.event \notin Method /\ m.id = h.id
  BY <1>2 DEF Message, Response, ChannelAssumption, Id
<1>4. WasHandled(s, h.end, h.id)
  BY DEF ChannelInv, IsOk, AnswersOk, WasHandled, Here
<1>5. Leave(t) /\ open' = open
  BY DEF PostResponse
<1> HIDE DEF s, m
<1>6. IsLast(s, Other(h.end), m)
  BY <1>2, <1>3, <1>4 DEF IsLast
<1>7. t \in ChannelState /\ IsOk(t) /\ (open = End => Takes(s, t, Other(h.end), m))
  BY <1>1, <1>2, <1>3, <1>6, Posted
<1> HIDE DEF t
<1>8. MadeOk(t)
  BY <1>1, <1>3, <1>7, MadeWhenTaken
<1> QED
  BY <1>5, <1>7, <1>8, Left

LEMMA DeliverStep ==
  ASSUME ChannelAssumption, ChannelInv, NEW e \in End, Deliver(e)
  PROVE  ChannelInv'
<1> DEFINE s == [Here EXCEPT !.port[e].wire = Tail(@)]
           m == Head(port[e].wire)
           t == Receive(s, e, m)
           po == [port[e] EXCEPT !.wire = Tail(port[e].wire)]
<1>1. Leave(t) /\ open' = open /\ port[e].wire # <<>>
  BY DEF Deliver
<1>2. /\ Here \in ChannelState /\ LinesOk(Here) /\ AnswersOk(Here) /\ PromisesOk(Here) /\ MadeOk(Here)
      /\ Here.port = port /\ Here.channel = channel /\ Here.handling = handling /\ Here.handled = handled /\ Here.settled = settled
  BY DEF ChannelInv, IsOk, Here
<1>3. /\ port \in [End -> PortState] /\ port[e] \in PortState /\ port[e].wire \in Seq(Message) /\ Other(e) \in End
      /\ channel \in [End -> EndState] /\ settled \in [End -> Answers]
      /\ handling \in SUBSET [end : End, call : Method, id : Id] /\ handled \in [End -> [Method -> Seq(Id)]]
  BY <1>2, OtherEnd DEF ChannelState, PortState
<1>4. /\ s.handling = handling /\ s.handled = handled /\ s.channel = channel /\ s.settled = settled
      /\ s.port = [port EXCEPT ![e] = po]
      /\ s = [port |-> s.port, channel |-> channel, handling |-> handling, handled |-> handled, settled |-> settled]
  <2>1. s = [Here EXCEPT !.port = [Here.port EXCEPT ![e] = [Here.port[e] EXCEPT !.wire = Tail(Here.port[e].wire)]]]
    BY <1>2 DEF ChannelState
  <2>2. s = [Here EXCEPT !.port = [port EXCEPT ![e] = po]]
    BY <1>2, <2>1
  <2> HIDE DEF s, po
  <2> QED
    BY <1>2, <2>2 DEF Here
<1>5. m \in Message /\ Tail(port[e].wire) \in Seq(Message)
  BY <1>1, <1>3
<1>6. /\ po \in PortState /\ po.listeners = port[e].listeners /\ po.pending = port[e].pending
      /\ po.wire = Tail(port[e].wire)
  BY <1>3, <1>5 DEF PortState
<1> HIDE DEF po
<1>7. s.port \in [End -> PortState] /\ \A x \in End : s.port[x] = IF x = e THEN po ELSE port[x]
  BY <1>3, <1>4, <1>6
<1>8. s \in ChannelState
  <2>1. [port |-> s.port, channel |-> channel, handling |-> handling, handled |-> handled, settled |-> settled] \in ChannelState
    BY <1>3, <1>7, ChannelStates
  <2> QED
    BY <1>4, <2>1, Zenon
<1> HIDE DEF s, t
<1>9. ASSUME NEW x \in End, NEW c \in Method
      PROVE  /\ LineOk(s, x, c)
             /\ AllAt(Here, x, c) = AllAt(s, x, c) \cup (IF x = e /\ c = m.event THEN {m.id} ELSE {})
             /\ x = e /\ c = m.event =>
                  /\ m.id[2] <= s.channel[Other(e)].next
                  /\ \A y \in IdsOf(s.handled[e][c]) \cup IdsIn(s.port[e].pending[c], c) : y[2] < m.id[2]
                  /\ \A y \in IdsIn(s.port[e].wire, c) : m.id[2] < y[2]
  <2>1. LineOk(Here, x, c)
    BY <1>2 DEF LinesOk
  <2>2. CASE x = e
    <3>1. /\ handled[e][c] \in Seq(Id) /\ port[e].pending[c] \in Seq(Message) /\ channel[Other(e)].next \in Nat
      BY <1>2, <1>3, FieldTypes
    <3>2. Line(handled[e][c], port[e].pending[c], port[e].wire, channel[Other(e)].next, c)
      BY <1>2, <2>1, <2>2 DEF LineOk
    <3>3. /\ Line(handled[e][c], port[e].pending[c], Tail(port[e].wire), channel[Other(e)].next, c)
          /\ AllOf(handled[e][c], port[e].pending[c], port[e].wire, c)
               = AllOf(handled[e][c], port[e].pending[c], Tail(port[e].wire), c) \cup (IF m.event = c THEN {m.id} ELSE {})
          /\ m.event = c => /\ m.id[2] <= channel[Other(e)].next
                            /\ \A y \in IdsOf(handled[e][c]) \cup IdsIn(port[e].pending[c], c) : y[2] < m.id[2]
                            /\ \A y \in IdsIn(Tail(port[e].wire), c) : m.id[2] < y[2]
      BY <1>1, <1>3, <3>1, <3>2, LineTaken
    <3>4. s.port[x].pending = port[e].pending /\ s.port[x].wire = Tail(port[e].wire) /\ s.port[x].listeners = port[e].listeners
      BY <1>6, <1>7, <2>2
    <3> HIDE DEF m
    <3> QED
      BY <1>2, <1>4, <2>1, <2>2, <3>3, <3>4 DEF LineOk, AllAt
  <2>3. CASE x # e
    <3>1. s.port[x] = port[x]
      BY <1>7, <2>3
    <3> QED
      BY <1>2, <1>4, <2>1, <2>3, <3>1 DEF LineOk, AllAt
  <2> QED
    BY <2>2, <2>3
<1>10. m.event \notin Method => WasHandled(s, Other(e), m.id)
  <2>1. 1 \in DOMAIN port[e].wire /\ m = port[e].wire[1]
    BY <1>1, <1>3
  <2> HIDE DEF m
  <2> QED
    BY <1>2, <1>4, <2>1 DEF AnswersOk, WasHandled
<1>11. AnswersOk(s)
  <2>1. \A x, id : WasHandled(s, x, id) <=> WasHandled(Here, x, id)
    BY <1>2, <1>4 DEF WasHandled
  <2>2. \A x \in End : \A id \in DOMAIN s.settled[x] :
          s.settled[x][id] = "rejected" \/ (s.settled[x][id] = id /\ WasHandled(s, Other(x), id))
    BY <1>2, <1>4, <2>1 DEF AnswersOk
  <2>3. \A k \in s.handling : k.id[1] = k.call /\ WasHandled(s, k.end, k.id)
    BY <1>2, <1>4, <2>1 DEF AnswersOk
  <2>4. ASSUME NEW x \in End, NEW i \in DOMAIN s.port[x].wire, s.port[x].wire[i].event \notin Method
        PROVE  WasHandled(s, Other(x), s.port[x].wire[i].id)
    <3>1. CASE x = e
      <4>1. s.port[x].wire = Tail(port[e].wire)
        BY <1>6, <1>7, <3>1
      <4>2. i + 1 \in DOMAIN port[e].wire /\ s.port[x].wire[i] = port[e].wire[i + 1]
        BY <1>1, <1>3, <2>4, <4>1
      <4> QED
        BY <1>2, <2>1, <2>4, <3>1, <4>2 DEF AnswersOk
    <3>2. CASE x # e
      <4>1. s.port[x] = port[x]
        BY <1>7, <3>2
      <4> QED
        BY <1>2, <2>1, <2>4, <4>1 DEF AnswersOk
    <3> QED
      BY <3>1, <3>2
  <2> QED
    BY <2>2, <2>3, <2>4 DEF AnswersOk
<1>12. ~direct /\ PromisesOk(s)
  BY <1>1, <1>2 DEF PromisesOk
<1>13. IsOk(s) /\ IsNext(s, e, m)
  BY <1>9, <1>10, <1>11, <1>12 DEF IsOk, LinesOk, IsNext
<1> HIDE DEF m
<1>14. t \in ChannelState /\ IsOk(t) /\ Takes(s, t, e, m)
  BY <1>5, <1>8, <1>13, Received DEF t
<1>15. MadeOk(t)
  <2>1. SUFFICES ASSUME open = End, NEW x \in End, NEW c \in Method PROVE MadeIn(t, Other(x), c) = AllAt(t, x, c)
    BY DEF MadeOk
  <2>2. AllAt(t, x, c) = AllAt(Here, x, c)
    <3>1. AllAt(Here, x, c) = AllAt(s, x, c) \cup (IF x = e /\ c = m.event THEN {m.id} ELSE {})
      BY <1>9
    <3>2. AllAt(t, x, c) = AllAt(s, x, c) \cup (IF x = e /\ c = m.event THEN {m.id} ELSE {})
      BY <1>14 DEF Takes
    <3> QED
      BY <3>1, <3>2, Zenon
  <2>3. t.channel[Other(x)].calls = Here.channel[Other(x)].calls
    BY <1>2, <1>4, <1>14, OtherEnd DEF Takes
  <2> QED
    BY <1>2, <2>1, <2>2, <2>3 DEF MadeOk, MadeIn
<1> QED
  BY <1>1, <1>14, <1>15, Left

\* A request has the next number and its promise waits, before it is posted.
LEMMA SendStep ==
  ASSUME ChannelAssumption, ChannelInv, NEW e \in End, NEW call \in Method, Send(e, call)
  PROVE  ChannelInv'
<1> DEFINE n == channel[e].next + 1
           id == ResponseId(call, n)
           ch == [channel[e] EXCEPT !.next = n, !.pendingPromises = @ \cup {id}, !.calls = Append(@, <<id, open = End>>)]
           s == [Here EXCEPT !.channel[e] = ch, !.port[e].listeners = @ \cup {id}]
           m == Request(call, n)
           t == PostMessage(s, Other(e), m)
           po == [port[e] EXCEPT !.listeners = port[e].listeners \cup {id}]
<1>1. n <= MaxSent /\ Leave(t) /\ open' = open
  BY DEF Send
<1>2. /\ Here \in ChannelState /\ LinesOk(Here) /\ AnswersOk(Here) /\ PromisesOk(Here) /\ MadeOk(Here)
      /\ Here.port = port /\ Here.channel = channel /\ Here.handling = handling /\ Here.handled = handled /\ Here.settled = settled
  BY DEF ChannelInv, IsOk, Here
<1>3. /\ port \in [End -> PortState] /\ port[e] \in PortState /\ Other(e) \in End
      /\ channel \in [End -> EndState] /\ channel[e] \in EndState /\ settled \in [End -> Answers]
      /\ handling \in SUBSET [end : End, call : Method, id : Id] /\ handled \in [End -> [Method -> Seq(Id)]]
  BY <1>2, OtherEnd DEF ChannelState
<1>4. n \in 1..MaxSent /\ channel[e].next \in Nat /\ n \in Nat /\ channel[e].calls \in Seq(Id \X BOOLEAN)
  BY <1>1, <1>3 DEF EndState, ChannelAssumption
<1> HIDE DEF n
<1>5. id \in Id /\ id[1] = call /\ id[2] = n /\ id \notin Method /\ id \in Event
  BY <1>4 DEF ResponseId, Id, ChannelAssumption, Event
<1>6. m \in Message /\ m.event = call /\ m.id = id
  BY <1>4 DEF Message, Request
<1> HIDE DEF id, m
<1>7. s = [Here EXCEPT !.channel = [channel EXCEPT ![e] = ch], !.port = [port EXCEPT ![e] = po]]
  <2> DEFINE r == [Here EXCEPT !.channel[e] = ch]
  <2>2. s = [Here EXCEPT !.channel[e] = ch, !.port[e].listeners = @ \cup {id}]
    OBVIOUS
  <2> HIDE DEF ch
  <2>3. r = [Here EXCEPT !.channel = [channel EXCEPT ![e] = ch]]
    BY <1>2 DEF ChannelState
  <2>4. r.port = port
    BY <1>2, <2>3 DEF Here
  <2>5. s = [r EXCEPT !.port[e].listeners = @ \cup {id}]
    BY <2>2
  <2> HIDE DEF r, s
  <2>6. s = [r EXCEPT !.port = [port EXCEPT ![e] = po]]
    BY <2>4, <2>5 DEF ChannelState
  <2> QED
    BY <2>3, <2>6
<1> HIDE DEF ch, po, s
<1>8. /\ s.handling = handling /\ s.handled = handled /\ s.settled = settled
      /\ s.channel = [channel EXCEPT ![e] = ch] /\ s.port = [port EXCEPT ![e] = po]
      /\ s = [port |-> s.port, channel |-> s.channel, handling |-> handling, handled |-> handled, settled |-> settled]
  BY <1>2, <1>7 DEF Here
<1>9. /\ ch \in EndState /\ ch.next = n /\ ch.pendingPromises = channel[e].pendingPromises \cup {id}
      /\ ch.calls = Append(channel[e].calls, <<id, open = End>>)
  <2>1. Append(channel[e].calls, <<id, open = End>>) \in Seq(Id \X BOOLEAN)
    <3>1. <<id, open = End>> \in Id \X BOOLEAN
      BY <1>5
    <3> QED
      BY <1>4, <3>1
  <2>2. n \in 0..MaxSent
    BY <1>4
  <2> HIDE DEF ChannelInv
  <2> QED
    BY <1>3, <1>5, <2>1, <2>2 DEF EndState, ch
<1>10. /\ po \in PortState /\ po.wire = port[e].wire /\ po.pending = port[e].pending
       /\ po.listeners = port[e].listeners \cup {id}
  BY <1>3, <1>5 DEF PortState, po
<1>11. /\ s.port \in [End -> PortState] /\ s.channel \in [End -> EndState]
       /\ \A x \in End : s.port[x] = (IF x = e THEN po ELSE port[x]) /\ s.channel[x] = IF x = e THEN ch ELSE channel[x]
  BY <1>3, <1>8, <1>9, <1>10
<1>12. s \in ChannelState
  <2>1. [port |-> s.port, channel |-> s.channel, handling |-> handling, handled |-> handled, settled |-> settled] \in ChannelState
    BY <1>3, <1>11, ChannelStates
  <2> QED
    BY <1>8, <2>1, Zenon
<1>13. /\ \A x \in End : /\ s.port[x].wire = port[x].wire /\ s.port[x].pending = port[x].pending
                         /\ \A c \in Method : c \in s.port[x].listeners => c \in port[x].listeners
  <2> SUFFICES ASSUME NEW x \in End
               PROVE  /\ s.port[x].wire = port[x].wire /\ s.port[x].pending = port[x].pending
                      /\ \A c \in Method : c \in s.port[x].listeners => c \in port[x].listeners
    OBVIOUS
  <2>1. CASE x = e
    <3>1. s.port[x] = po
      BY <1>11, <2>1
    <3> QED
      BY <1>5, <1>10, <2>1, <3>1
  <2>2. CASE x # e
    BY <1>11, <2>2
  <2> QED
    BY <2>1, <2>2
<1>14. ASSUME NEW x \in End, NEW c \in Method
       PROVE  /\ LineOk(s, x, c) /\ AllAt(s, x, c) = AllAt(Here, x, c)
              /\ x = Other(e) => \A y \in AllAt(s, x, c) : y[2] < n
  <2>1. LineOk(Here, x, c)
    BY <1>2 DEF LinesOk
  <2>2. /\ s.handled[x][c] = handled[x][c] /\ s.port[x].pending[c] = port[x].pending[c] /\ s.port[x].wire = port[x].wire
        /\ c \in s.port[x].listeners => c \in port[x].listeners
    BY <1>8, <1>13
  <2>3. AllAt(s, x, c) = AllAt(Here, x, c)
    BY <1>2, <2>2 DEF AllAt
  <2>4. /\ handled[x][c] \in Seq(Id) /\ port[x].pending[c] \in Seq(Message) /\ port[x].wire \in Seq(Message)
    BY <1>2, FieldTypes
  <2>5. Line(handled[x][c], port[x].pending[c], port[x].wire, channel[Other(x)].next, c)
    BY <1>2, <2>1 DEF LineOk
  <2>6. CASE x = Other(e)
    <3>1. Other(x) = e /\ s.channel[Other(x)].next = channel[e].next + 1
      BY <1>9, <1>11, <2>6, OtherEnd DEF n
    <3>2. Line(handled[x][c], port[x].pending[c], port[x].wire, channel[e].next + 1, c)
      BY <1>4, <2>4, <2>5, <3>1, LineIsNumbered
    <3>3. \A y \in AllAt(Here, x, c) : y[2] <= channel[e].next /\ y[2] \in Nat
      <4>1. \A y \in AllAt(Here, x, c) : y[2] <= channel[e].next
        BY <1>2, <2>5, <3>1 DEF Line, AllAt, AllOf
      <4>2. \A y \in IdsOf(handled[x][c]) : y[2] \in Nat
        BY <2>4 DEF IdsOf, Id, ChannelAssumption
      <4>3. \A y \in IdsIn(port[x].pending[c], c) \cup IdsIn(port[x].wire, c) : y[2] \in Nat
        BY <2>4, IdsAreTyped
      <4> QED
        BY <1>2, <4>1, <4>2, <4>3 DEF AllAt, AllOf
    <3>4. \A y \in AllAt(s, x, c) : y[2] < n
      BY <1>4, <2>3, <3>3 DEF n
    <3> QED
      BY <1>2, <2>1, <2>2, <2>3, <3>1, <3>2, <3>4 DEF LineOk
  <2>7. CASE x # Other(e)
    <3>1. Other(x) # e /\ Other(x) \in End
      BY <2>7, OtherEnd
    <3>2. s.channel[Other(x)].next = channel[Other(x)].next
      BY <1>11, <3>1
    <3> QED
      BY <1>2, <2>1, <2>2, <2>3, <2>5, <2>7, <3>2 DEF LineOk
  <2> QED
    BY <2>6, <2>7
<1>15. AnswersOk(s)
  <2>1. \A x, y : WasHandled(s, x, y) <=> WasHandled(Here, x, y)
    BY <1>2, <1>8 DEF WasHandled
  <2>2. \A x \in End : \A y \in DOMAIN s.settled[x] :
          s.settled[x][y] = "rejected" \/ (s.settled[x][y] = y /\ WasHandled(s, Other(x), y))
    BY <1>2, <1>8, <2>1 DEF AnswersOk
  <2>3. \A k \in s.handling : k.id[1] = k.call /\ WasHandled(s, k.end, k.id)
    BY <1>2, <1>8, <2>1 DEF AnswersOk
  <2>4. \A x \in End : \A i \in DOMAIN s.port[x].wire :
          s.port[x].wire[i].event \notin Method => WasHandled(s, Other(x), s.port[x].wire[i].id)
    BY <1>2, <1>13, <2>1 DEF AnswersOk
  <2> QED
    BY <2>2, <2>3, <2>4 DEF AnswersOk
<1>16. /\ DOMAIN ch.calls = DOMAIN channel[e].calls \cup {Len(channel[e].calls) + 1}
       /\ ch.calls[Len(channel[e].calls) + 1] = <<id, open = End>>
       /\ \A i \in DOMAIN channel[e].calls : ch.calls[i] = channel[e].calls[i]
  <2>1. <<id, open = End>> \in Id \X BOOLEAN
    BY <1>5
  <2> QED
    BY <1>4, <1>9, <2>1, OneMore
<1>17. PromisesOk(s)
  <2>1. SUFFICES ASSUME direct, NEW x \in End
                 PROVE  /\ s.port[x].wire = <<>>
                        /\ \A i \in DOMAIN s.channel[x].calls :
                            /\ open = End => s.channel[x].calls[i][1] \in DOMAIN s.settled[x] \cup s.channel[x].pendingPromises
                            /\ open = {} /\ s.channel[x].calls[i][2] => s.channel[x].calls[i][1] \in DOMAIN s.settled[x]
    BY DEF PromisesOk
  <2>2. s.port[x].wire = <<>> /\ s.settled[x] = settled[x]
    BY <1>2, <1>8, <1>13, <2>1 DEF PromisesOk
  <2>3. CASE x # e
    <3>1. s.channel[x] = channel[x]
      BY <1>11, <2>3
    <3> QED
      BY <1>2, <2>1, <2>2, <3>1 DEF PromisesOk
  <2>4. CASE x = e
    <3>1. s.channel[x] = ch
      BY <1>11, <2>4
    <3>2. End # {}
      BY DEF End
    <3>3. ASSUME NEW i \in DOMAIN ch.calls
          PROVE  /\ open = End => ch.calls[i][1] \in DOMAIN settled[x] \cup ch.pendingPromises
                 /\ open = {} /\ ch.calls[i][2] => ch.calls[i][1] \in DOMAIN settled[x]
      <4>1. CASE i \in DOMAIN channel[e].calls
        BY <1>2, <1>9, <1>16, <2>1, <2>4, <4>1 DEF PromisesOk
      <4>2. CASE i = Len(channel[e].calls) + 1
        <5>1. ch.calls[i] = <<id, open = End>>
          BY <1>16, <4>2
        <5>2. ch.calls[i][1] = id
          BY <5>1
        <5>3. CASE open = {}
          <6>1. (open = End) = FALSE
            BY <3>2, <5>3
          <6>2. ch.calls[i] = <<id, FALSE>>
            BY <5>1, <6>1
          <6>3. ch.calls[i][2] = FALSE
            BY <6>2
          <6> QED
            BY <6>1, <6>3
        <5> QED
          BY <1>9, <5>2, <5>3
      <4> QED
        BY <1>16, <3>3, <4>1, <4>2
    <3> QED
      BY <2>2, <3>1, <3>3
  <2> QED
    BY <2>3, <2>4
<1>18. IsOk(s)
  BY <1>14, <1>15, <1>17 DEF IsOk, LinesOk
<1>19. IsLast(s, Other(e), m)
  <2>1. s.channel[e].next = n /\ n <= n /\ Other(Other(e)) = e
    BY <1>4, <1>9, <1>11, OtherEnd
  <2> QED
    BY <1>3, <1>5, <1>6, <1>14, <2>1 DEF IsLast
<1>20. t \in ChannelState /\ IsOk(t) /\ (open = End => Takes(s, t, Other(e), m))
  BY <1>3, <1>6, <1>12, <1>18, <1>19, Posted
<1> HIDE DEF t
<1>21. MadeOk(t)
  <2>1. SUFFICES ASSUME open = End, NEW x \in End, NEW c \in Method PROVE MadeIn(t, Other(x), c) = AllAt(t, x, c)
    BY DEF MadeOk
  <2>2. AllAt(t, x, c) = AllAt(Here, x, c) \cup (IF x = Other(e) /\ c = call THEN {id} ELSE {})
    <3>1. AllAt(t, x, c) = AllAt(s, x, c) \cup (IF x = Other(e) /\ c = call THEN {id} ELSE {})
      BY <1>6, <1>20, <2>1 DEF Takes
    <3>2. AllAt(s, x, c) = AllAt(Here, x, c)
      BY <1>14
    <3> QED
      BY <3>1, <3>2, Zenon
  <2>3. t.channel[Other(x)].calls = s.channel[Other(x)].calls
    BY <1>20, <2>1, OtherEnd DEF Takes
  <2>4. MadeIn(Here, Other(x), c) = AllAt(Here, x, c)
    BY <1>2, <2>1 DEF MadeOk
  <2>5. CASE x = Other(e)
    <3>1. Other(x) = e /\ s.channel[Other(x)] = ch
      BY <1>11, <2>5, OtherEnd
    <3>2. {t.channel[e].calls[i][1] : i \in DOMAIN t.channel[e].calls} = {channel[e].calls[i][1] : i \in DOMAIN channel[e].calls} \cup {id}
      <4>1. t.channel[e].calls = ch.calls
        BY <2>3, <3>1
      <4>2. ch.calls[Len(channel[e].calls) + 1][1] = id
        BY <1>16
      <4> QED
        BY <1>16, <4>1, <4>2
    <3>3. MadeIn(t, e, c) = MadeIn(Here, e, c) \cup (IF c = call THEN {id} ELSE {})
      BY <1>2, <1>5, <3>2 DEF MadeIn
    <3> QED
      BY <2>2, <2>4, <2>5, <3>1, <3>3
  <2>6. CASE x # Other(e)
    <3>1. Other(x) # e /\ Other(x) \in End
      BY <2>6, OtherEnd
    <3>2. t.channel[Other(x)].calls = channel[Other(x)].calls
      BY <1>11, <2>3, <3>1
    <3>3. MadeIn(t, Other(x), c) = MadeIn(Here, Other(x), c)
      BY <1>2, <3>2 DEF MadeIn
    <3> QED
      BY <2>2, <2>4, <2>6, <3>3
  <2> QED
    BY <2>5, <2>6
<1> QED
  BY <1>1, <1>20, <1>21, Left

\* A handler listens, and gets all that waited for it.
LEMMA SetOnStep ==
  ASSUME ChannelAssumption, ChannelInv, NEW e \in End, NEW call \in Method, SetOn(e, call)
  PROVE  ChannelInv'
<1> DEFINE s == [Here EXCEPT !.port[e].listeners = @ \cup {call}, !.channel[e].attached = @ \cup {call}]
           t == FlushPending(s, e, call)
           waiting == port[e].pending[call]
           h == handled[e][call] \o [i \in DOMAIN waiting |-> waiting[i].id]
           more == {[end |-> e, call |-> call, id |-> waiting[i].id] : i \in DOMAIN waiting}
           pe == [port[e].pending EXCEPT ![call] = <<>>]
           ch == [channel[e] EXCEPT !.attached = channel[e].attached \cup {call}]
           p0 == [port[e] EXCEPT !.listeners = port[e].listeners \cup {call}]
           po == [p0 EXCEPT !.pending = pe]
<1>1. Leave(t) /\ open' = open
  BY DEF SetOn
<1>2. /\ Here \in ChannelState /\ LinesOk(Here) /\ AnswersOk(Here) /\ PromisesOk(Here) /\ MadeOk(Here)
      /\ Here.port = port /\ Here.channel = channel /\ Here.handling = handling /\ Here.handled = handled /\ Here.settled = settled
  BY DEF ChannelInv, IsOk, Here
<1>3. /\ port \in [End -> PortState] /\ port[e] \in PortState /\ Other(e) \in End
      /\ port[e].pending \in [Event -> Seq(Message)] /\ call \in Event
      /\ channel \in [End -> EndState] /\ channel[e] \in EndState /\ settled \in [End -> Answers]
      /\ handling \in SUBSET [end : End, call : Method, id : Id] /\ handled \in [End -> [Method -> Seq(Id)]]
  BY <1>2, OtherEnd DEF ChannelState, PortState, Event
<1>4. LineOk(Here, e, call) /\ waiting \in Seq(Message) /\ \A i \in DOMAIN waiting : waiting[i].event = call
  <2>1. LineOk(Here, e, call)
    BY <1>2 DEF LinesOk
  <2> QED
    BY <1>2, <1>3, <2>1 DEF LineOk
<1>5. \A i \in DOMAIN waiting : waiting[i].id \in Id /\ waiting[i].id[1] = call
  BY <1>4, MessageKinds
<1>6. /\ h \in Seq(Id) /\ Line(h, <<>>, port[e].wire, channel[Other(e)].next, call)
      /\ AllOf(h, <<>>, port[e].wire, call) = AllOf(handled[e][call], waiting, port[e].wire, call)
      /\ IdsOf(h) = IdsOf(handled[e][call]) \cup {waiting[i].id : i \in DOMAIN waiting}
  <2>1. /\ handled[e][call] \in Seq(Id) /\ port[e].wire \in Seq(Message) /\ channel[Other(e)].next \in Nat
    BY <1>2, <1>3, FieldTypes
  <2>2. Line(handled[e][call], waiting, port[e].wire, channel[Other(e)].next, call)
    BY <1>2, <1>4 DEF LineOk
  <2>3. h = Flushed(handled[e][call], waiting)
    BY DEF Flushed
  <2> HIDE DEF waiting, h
  <2> QED
    BY <1>4, <2>1, <2>2, <2>3, LineIsFlushed
<1>7. s = [Here EXCEPT !.port = [port EXCEPT ![e] = p0], !.channel = [channel EXCEPT ![e] = ch]]
  <2> DEFINE r == [Here EXCEPT !.port[e].listeners = @ \cup {call}]
  <2>1. s = [r EXCEPT !.channel[e].attached = @ \cup {call}]
    OBVIOUS
  <2>2. r = [Here EXCEPT !.port = [port EXCEPT ![e] = p0]]
    BY <1>2 DEF ChannelState
  <2> HIDE DEF r, s, p0
  <2>3. r.channel = channel
    BY <1>2, <2>2 DEF Here
  <2>4. s = [r EXCEPT !.channel = [channel EXCEPT ![e] = ch]]
    BY <2>1, <2>3 DEF ChannelState
  <2> QED
    BY <2>2, <2>4
<1> HIDE DEF s
<1>8. /\ s.port = [port EXCEPT ![e] = p0] /\ s.channel = [channel EXCEPT ![e] = ch]
      /\ s.handling = handling /\ s.handled = handled /\ s.settled = settled
      /\ s = [port |-> s.port, channel |-> s.channel, handling |-> handling, handled |-> handled, settled |-> settled]
  <2> HIDE DEF p0, ch
  <2> QED
    BY <1>2, <1>7 DEF Here
<1>9. /\ p0 \in PortState /\ p0.pending = port[e].pending /\ p0.wire = port[e].wire /\ p0.listeners = port[e].listeners \cup {call}
  BY <1>3 DEF PortState
<1>10. /\ ch \in EndState /\ ch.next = channel[e].next /\ ch.calls = channel[e].calls /\ ch.pendingPromises = channel[e].pendingPromises
  BY <1>3 DEF EndState
<1>11. pe \in [Event -> Seq(Message)] /\ \A v \in Event : pe[v] = IF v = call THEN <<>> ELSE port[e].pending[v]
  <2>1. <<>> \in Seq(Message)
    OBVIOUS
  <2> QED
    BY <1>3, <2>1
<1> HIDE DEF p0, ch, pe
<1>12. s.port[e] = p0 /\ s.port[e].pending[call] = waiting
  BY <1>3, <1>8, <1>9
<1>13. /\ t.port = [port EXCEPT ![e] = po] /\ t.channel = s.channel /\ t.settled = settled
       /\ t.handling = handling \cup more /\ t.handled = [handled EXCEPT ![e] = [handled[e] EXCEPT ![call] = h]]
       /\ t = [port |-> t.port, channel |-> t.channel, handling |-> t.handling, handled |-> t.handled, settled |-> t.settled]
  <2>1. t = [s EXCEPT !.port[e].pending[call] = <<>>, !.handling = @ \cup more,
                      !.handled[e][call] = @ \o [i \in DOMAIN waiting |-> waiting[i].id]]
    BY <1>12 DEF FlushPending
  <2> DEFINE r == [s EXCEPT !.port[e].pending[call] = <<>>]
             q == [r EXCEPT !.handling = @ \cup more]
  <2>2. t = [q EXCEPT !.handled[e][call] = @ \o [i \in DOMAIN waiting |-> waiting[i].id]]
    BY <2>1
  <2> HIDE DEF t
  <2>3. r = [s EXCEPT !.port = [s.port EXCEPT ![e] = [s.port[e] EXCEPT !.pending = [s.port[e].pending EXCEPT ![call] = <<>>]]]]
    BY <1>8
  <2>4. [s.port EXCEPT ![e] = [s.port[e] EXCEPT !.pending = [s.port[e].pending EXCEPT ![call] = <<>>]]] = [port EXCEPT ![e] = po]
    BY <1>3, <1>8, <1>9, <1>12 DEF pe
  <2> HIDE DEF r, po, more, h
  <2>5. r = [s EXCEPT !.port = [port EXCEPT ![e] = po]]
    BY <2>3, <2>4
  <2>6. q = [s EXCEPT !.port = [port EXCEPT ![e] = po], !.handling = handling \cup more]
    BY <1>8, <2>5
  <2> HIDE DEF q
  <2>7. q.handled = handled /\ q = [port |-> q.port, channel |-> q.channel, handling |-> q.handling, handled |-> q.handled, settled |-> q.settled]
    BY <1>8, <2>6
  <2>8. t = [q EXCEPT !.handled = [handled EXCEPT ![e] = [handled[e] EXCEPT ![call] = h]]]
    BY <2>2, <2>7 DEF h
  <2> QED
    BY <1>8, <2>6, <2>7, <2>8
<1>14. /\ po \in PortState /\ po.pending = pe /\ po.wire = port[e].wire /\ po.listeners = port[e].listeners \cup {call}
  BY <1>9, <1>11 DEF PortState
<1> HIDE DEF t, h, po
<1>15. /\ t.port \in [End -> PortState] /\ t.channel \in [End -> EndState]
       /\ \A x \in End : t.port[x] = (IF x = e THEN po ELSE port[x]) /\ t.channel[x] = IF x = e THEN ch ELSE channel[x]
  BY <1>3, <1>8, <1>10, <1>13, <1>14
<1>16. \A x \in End : /\ t.channel[x].next = channel[x].next /\ t.channel[x].calls = channel[x].calls
                      /\ t.channel[x].pendingPromises = channel[x].pendingPromises
                      /\ t.port[x].wire = port[x].wire
  <2> TAKE x \in End
  <2>1. CASE x = e
    <3>1. t.channel[x] = ch /\ t.port[x] = po
      BY <1>15, <2>1
    <3> QED
      BY <1>10, <1>14, <2>1, <3>1
  <2>2. CASE x # e
    BY <1>15, <2>2
  <2> QED
    BY <2>1, <2>2
<1>17. t.handled \in [End -> [Method -> Seq(Id)]] /\ \A x \in End, c \in Method : t.handled[x][c] = IF x = e /\ c = call THEN h ELSE handled[x][c]
  BY <1>3, <1>6, <1>13
<1>18. more \in SUBSET [end : End, call : Method, id : Id]
  BY <1>5
<1>19. t \in ChannelState
  <2>1. t.handling \in SUBSET [end : End, call : Method, id : Id] /\ t.settled \in [End -> Answers]
    <3> HIDE DEF more
    <3> QED
      BY <1>3, <1>13, <1>18
  <2>2. [port |-> t.port, channel |-> t.channel, handling |-> t.handling, handled |-> t.handled, settled |-> t.settled] \in ChannelState
    BY <1>15, <1>17, <2>1, ChannelStates
  <2> QED
    BY <1>13, <2>2, Zenon
<1>20. ASSUME NEW x \in End, NEW c \in Method
       PROVE  LineOk(t, x, c) /\ AllAt(t, x, c) = AllAt(Here, x, c)
  <2>1. LineOk(Here, x, c) /\ c \in Event /\ Other(x) \in End
    BY <1>2, OtherEnd DEF LinesOk, Event
  <2>2. t.port[x].wire = port[x].wire /\ t.channel[Other(x)].next = channel[Other(x)].next
    BY <1>16, <2>1
  <2>3. CASE x = e /\ c = call
    <3>1. t.port[x].pending[c] = <<>> /\ t.handled[x][c] = h
      BY <1>3, <1>11, <1>14, <1>15, <1>17, <2>3
    <3> QED
      BY <1>2, <1>6, <2>2, <2>3, <3>1 DEF LineOk, AllAt
  <2>4. CASE x = e /\ c # call
    <3>1. /\ t.port[x].pending[c] = port[x].pending[c] /\ t.handled[x][c] = handled[x][c]
          /\ c \in t.port[x].listeners => c \in port[x].listeners
      <4>1. t.port[x] = po
        BY <1>15, <2>4
      <4> QED
        BY <1>11, <1>14, <1>17, <2>1, <2>4, <4>1
    <3> QED
      BY <1>2, <2>1, <2>2, <3>1 DEF LineOk, AllAt
  <2>5. CASE x # e
    <3>1. t.port[x] = port[x] /\ t.handled[x][c] = handled[x][c]
      BY <1>15, <1>17, <2>5
    <3> QED
      BY <1>2, <2>1, <2>2, <3>1 DEF LineOk, AllAt
  <2> QED
    BY <2>3, <2>4, <2>5
<1>21. ASSUME NEW x \in End, NEW y \in Id, WasHandled(Here, x, y) PROVE WasHandled(t, x, y)
  <2>1. y[1] \in Method /\ y \in IdsOf(handled[x][y[1]])
    BY <1>2, <1>21 DEF WasHandled, Id
  <2>2. IdsOf(handled[x][y[1]]) \subseteq IdsOf(t.handled[x][y[1]])
    BY <1>6, <1>17, <2>1
  <2> QED
    BY <2>1, <2>2 DEF WasHandled
<1>22. AnswersOk(t)
  <2>1. ASSUME NEW x \in End, NEW y \in DOMAIN t.settled[x]
        PROVE  t.settled[x][y] = "rejected" \/ (t.settled[x][y] = y /\ WasHandled(t, Other(x), y))
    <3>1. t.settled[x] = Here.settled[x] /\ y \in Id /\ Other(x) \in End
      BY <1>2, <1>13, <2>1, FieldTypes, OtherEnd
    <3> QED
      BY <1>2, <1>21, <2>1, <3>1 DEF AnswersOk
  <2>2. ASSUME NEW k \in t.handling PROVE k.id[1] = k.call /\ WasHandled(t, k.end, k.id)
    <3>1. CASE k \in handling
      <4>1. k.end \in End /\ k.id \in Id
        BY <1>3, <3>1
      <4> QED
        BY <1>2, <1>21, <3>1, <4>1 DEF AnswersOk
    <3>2. CASE k \in more
      <4>1. PICK i \in DOMAIN waiting : k = [end |-> e, call |-> call, id |-> waiting[i].id]
        BY <3>2
      <4>2. k.end = e /\ k.call = call /\ k.id = waiting[i].id /\ k.id[1] = call
        BY <1>5, <4>1
      <4>3. k.id \in IdsOf(h)
        BY <1>6, <4>2
      <4> QED
        BY <1>17, <4>2, <4>3 DEF WasHandled
    <3> QED
      BY <1>13, <2>2, <3>1, <3>2
  <2>3. ASSUME NEW x \in End, NEW i \in DOMAIN t.port[x].wire, t.port[x].wire[i].event \notin Method
        PROVE  WasHandled(t, Other(x), t.port[x].wire[i].id)
    <3>1. t.port[x].wire = Here.port[x].wire /\ Other(x) \in End
      BY <1>2, <1>16, OtherEnd
    <3>2. Here.port[x].wire[i].id \in Id /\ WasHandled(Here, Other(x), Here.port[x].wire[i].id)
      <4>1. Here.port[x].wire \in Seq(Message)
        BY <1>2, FieldTypes
      <4> QED
        BY <1>2, <2>3, <3>1, <4>1, MessageKinds DEF AnswersOk
    <3> QED
      BY <1>21, <3>1, <3>2
  <2> QED
    BY <2>1, <2>2, <2>3 DEF AnswersOk
<1>23. PromisesOk(t)
  <2>1. SUFFICES ASSUME direct, NEW x \in End
                 PROVE  /\ t.port[x].wire = <<>>
                        /\ \A i \in DOMAIN t.channel[x].calls :
                            /\ open = End => t.channel[x].calls[i][1] \in DOMAIN t.settled[x] \cup t.channel[x].pendingPromises
                            /\ open = {} /\ t.channel[x].calls[i][2] => t.channel[x].calls[i][1] \in DOMAIN t.settled[x]
    BY DEF PromisesOk
  <2>2. /\ t.port[x].wire = Here.port[x].wire /\ t.channel[x].calls = Here.channel[x].calls
        /\ t.channel[x].pendingPromises = Here.channel[x].pendingPromises /\ t.settled[x] = Here.settled[x]
    BY <1>2, <1>13, <1>16
  <2> QED
    BY <1>2, <2>1, <2>2 DEF PromisesOk
<1>24. MadeOk(t)
  <2>1. SUFFICES ASSUME open = End, NEW x \in End, NEW c \in Method PROVE MadeIn(t, Other(x), c) = AllAt(t, x, c)
    BY DEF MadeOk
  <2>2. t.channel[Other(x)].calls = Here.channel[Other(x)].calls
    BY <1>2, <1>16, OtherEnd
  <2> QED
    BY <1>2, <1>20, <2>1, <2>2 DEF MadeOk, MadeIn
<1> QED
  BY <1>1, <1>19, <1>20, <1>22, <1>23, <1>24, Left DEF IsOk, LinesOk

\* What an end waits for is rejected, and all it has is forgotten.
Closes(s, t, e) ==
  /\ LinesOk(t) /\ AnswersOk(t)
  /\ \A x \in End : /\ t.channel[x].calls = s.channel[x].calls
                    /\ x # e => /\ t.port[x].wire = s.port[x].wire /\ t.settled[x] = s.settled[x]
                                /\ t.channel[x].pendingPromises = s.channel[x].pendingPromises
  /\ t.port[e].wire = <<>> /\ DOMAIN t.settled[e] = DOMAIN s.settled[e] \cup s.channel[e].pendingPromises

LEMMA Rejections ==
  ASSUME NEW f \in Answers, NEW P \in SUBSET Id
  PROVE  [i \in DOMAIN f \cup P |-> IF i \in P THEN "rejected" ELSE f[i]] \in Answers
<1>1. PICK D \in SUBSET Id : f \in [D -> Id \cup {"rejected"}]
  BY DEF Answers
<1>2. D \cup P \in SUBSET Id /\ DOMAIN f = D
  BY <1>1
<1>3. [i \in D \cup P |-> IF i \in P THEN "rejected" ELSE f[i]] \in [D \cup P -> Id \cup {"rejected"}]
  BY <1>1
<1> QED
  BY <1>2, <1>3 DEF Answers

LEMMA Nothing == /\ NothingPending \in [Event -> Seq(Message)] /\ \A v \in Event : NothingPending[v] = <<>>
                 /\ [listeners |-> {}, pending |-> NothingPending, wire |-> <<>>] \in PortState
<1>1. <<>> \in Seq(Message)
  OBVIOUS
<1>2. NothingPending \in [Event -> Seq(Message)] /\ \A v \in Event : NothingPending[v] = <<>>
  BY <1>1 DEF NothingPending, Event, Id
<1> QED
  BY <1>1, <1>2 DEF PortState

LEMMA StateIsClosed ==
  ASSUME ChannelAssumption, NEW s \in ChannelState, NEW e \in End, LinesOk(s), AnswersOk(s), NEW t, t = CloseState(s, e)
  PROVE  t \in ChannelState /\ Closes(s, t, e)
<1> DEFINE P == s.channel[e].pendingPromises
           ch == [s.channel[e] EXCEPT !.pendingPromises = {}]
           po == [listeners |-> {}, pending |-> NothingPending, wire |-> <<>>]
           an == [i \in DOMAIN s.settled[e] \cup P |-> IF i \in P THEN "rejected" ELSE s.settled[e][i]]
<1>1. /\ t.handling = s.handling /\ t.handled = s.handled
      /\ t.channel = [s.channel EXCEPT ![e] = ch]
      /\ t.port = [s.port EXCEPT ![e] = po]
      /\ t.settled = [s.settled EXCEPT ![e] = an]
      /\ t = [port |-> t.port, channel |-> t.channel, handling |-> t.handling, handled |-> t.handled, settled |-> t.settled]
  BY DEF CloseState, ChannelState
<1>2. /\ s.port \in [End -> PortState] /\ s.channel \in [End -> EndState] /\ s.settled \in [End -> Answers]
      /\ s.handling \in SUBSET [end : End, call : Method, id : Id] /\ s.handled \in [End -> [Method -> Seq(Id)]]
  BY DEF ChannelState
<1>3. /\ ch \in EndState /\ ch.next = s.channel[e].next /\ ch.calls = s.channel[e].calls
      /\ P \in SUBSET Id
  <2>1. s.channel[e] \in EndState
    BY <1>2
  <2> QED
    BY <2>1 DEF EndState
<1>4. po \in PortState /\ po.wire = <<>> /\ po.listeners = {} /\ \A v \in Event : po.pending[v] = <<>>
  BY Nothing
<1>5. an \in Answers
  <2>1. s.settled[e] \in Answers /\ P \in SUBSET Id
    BY <1>2, <1>3
  <2> HIDE DEF P
  <2> QED
    BY <2>1, Rejections
<1>6. DOMAIN an = DOMAIN s.settled[e] \cup P /\ \A id \in DOMAIN an : an[id] = "rejected" \/ (id \in DOMAIN s.settled[e] /\ an[id] = s.settled[e][id])
  OBVIOUS
<1> HIDE DEF ch, po, an
<1>7. t \in ChannelState
  <2>1. t.channel \in [End -> EndState]
    BY <1>1, <1>2, <1>3
  <2>2. t.port \in [End -> PortState]
    BY <1>1, <1>2, <1>4
  <2>3. t.settled \in [End -> Answers]
    BY <1>1, <1>2, <1>5
  <2>4. t.handling \in SUBSET [end : End, call : Method, id : Id] /\ t.handled \in [End -> [Method -> Seq(Id)]]
    BY <1>1, <1>2, Zenon
  <2>5. [port |-> t.port, channel |-> t.channel, handling |-> t.handling, handled |-> t.handled, settled |-> t.settled] \in ChannelState
    BY <2>1, <2>2, <2>3, <2>4, ChannelStates
  <2> QED
    BY <1>1, <2>5, Zenon
<1>8. \A x \in End : /\ t.port[x] = (IF x = e THEN po ELSE s.port[x]) /\ t.channel[x] = (IF x = e THEN ch ELSE s.channel[x])
                     /\ t.settled[x] = IF x = e THEN an ELSE s.settled[x]
  BY <1>1, <1>2
<1>9. \A x \in End : t.channel[x].next = s.channel[x].next /\ t.channel[x].calls = s.channel[x].calls
  BY <1>3, <1>8
<1>10. ASSUME NEW x \in End, NEW c \in Method PROVE LineOk(t, x, c)
  <2>1. LineOk(s, x, c) /\ c \in Event /\ t.channel[Other(x)].next = s.channel[Other(x)].next
    BY <1>9, OtherEnd DEF LinesOk, Event
  <2>2. CASE x = e
    <3>1. t.port[x].pending[c] = <<>> /\ t.port[x].wire = <<>>
      BY <1>4, <1>8, <2>1, <2>2
    <3>2. Line(s.handled[x][c], <<>>, <<>>, s.channel[Other(x)].next, c)
      BY <2>1, LineIsCleared DEF LineOk
    <3> QED
      BY <1>1, <2>1, <3>1, <3>2 DEF LineOk
  <2>3. CASE x # e
    <3>1. t.port[x] = s.port[x]
      BY <1>8, <2>3
    <3> QED
      BY <1>1, <2>1, <3>1 DEF LineOk
  <2> QED
    BY <2>2, <2>3
<1>11. AnswersOk(t)
  <2>1. \A x, id : WasHandled(t, x, id) <=> WasHandled(s, x, id)
    BY <1>1 DEF WasHandled
  <2>2. ASSUME NEW x \in End, NEW id \in DOMAIN t.settled[x]
        PROVE  t.settled[x][id] = "rejected" \/ (t.settled[x][id] = id /\ WasHandled(t, Other(x), id))
    <3>1. CASE x = e
      <4>1. t.settled[x] = an
        BY <1>8, <3>1
      <4> QED
        BY <1>6, <2>1, <2>2, <3>1, <4>1 DEF AnswersOk
    <3>2. CASE x # e
      <4>1. t.settled[x] = s.settled[x]
        BY <1>8, <3>2
      <4> QED
        BY <2>1, <2>2, <4>1 DEF AnswersOk
    <3> QED
      BY <3>1, <3>2
  <2>3. \A k \in t.handling : k.id[1] = k.call /\ WasHandled(t, k.end, k.id)
    BY <1>1, <2>1 DEF AnswersOk
  <2>4. ASSUME NEW x \in End, NEW i \in DOMAIN t.port[x].wire, t.port[x].wire[i].event \notin Method
        PROVE  WasHandled(t, Other(x), t.port[x].wire[i].id)
    <3>1. x # e
      BY <1>4, <1>8, <2>4
    <3>2. t.port[x] = s.port[x]
      BY <1>8, <3>1
    <3> QED
      BY <2>1, <2>4, <3>2 DEF AnswersOk
  <2> QED
    BY <2>2, <2>3, <2>4 DEF AnswersOk
<1>12. \A x \in End : x # e => /\ t.port[x].wire = s.port[x].wire /\ t.settled[x] = s.settled[x]
                               /\ t.channel[x].pendingPromises = s.channel[x].pendingPromises
  BY <1>8
<1>13. t.port[e].wire = <<>> /\ DOMAIN t.settled[e] = DOMAIN s.settled[e] \cup P
  BY <1>4, <1>6, <1>8
<1> QED
  BY <1>7, <1>9, <1>10, <1>11, <1>12, <1>13 DEF Closes, LinesOk

\* DirectPort.close: everyone who waited while the ports were open is told.
LEMMA DirectCloseStep ==
  ASSUME ChannelAssumption, ChannelInv, NEW e \in End, ClosePort(e), direct
  PROVE  ChannelInv'
<1> DEFINE s == CloseState(Here, e)
           t == CloseState(s, Other(e))
<1>1. Leave(t) /\ open' = {} /\ open = End
  <2>1. e \in open
    BY DEF ClosePort
  <2> QED
    BY <2>1 DEF ClosePort, CloseBothStates, ChannelInv
<1>2. Here \in ChannelState /\ LinesOk(Here) /\ AnswersOk(Here) /\ PromisesOk(Here) /\ Other(e) \in End
  BY OtherEnd DEF ChannelInv, IsOk
<1>3. s \in ChannelState /\ Closes(Here, s, e)
  BY <1>2, StateIsClosed
<1> HIDE DEF s
<1>4. t \in ChannelState /\ Closes(s, t, Other(e))
  <2>1. LinesOk(s) /\ AnswersOk(s)
    BY <1>3 DEF Closes
  <2> QED
    BY <1>2, <1>3, <2>1, StateIsClosed
<1> HIDE DEF t
<1>5. Here' = t /\ direct' = direct
  BY <1>1, <1>4 DEF Here, Leave, ChannelState
<1>6. \A x \in End : /\ t.port[x].wire = <<>> /\ t.channel[x].calls = Here.channel[x].calls
                     /\ DOMAIN t.settled[x] = DOMAIN Here.settled[x] \cup Here.channel[x].pendingPromises
  <2> TAKE x \in End
  <2>1. x = e \/ x = Other(e)
    BY OtherEnd
  <2>2. CASE x = e
    <3>1. x # Other(e)
      BY <2>2, OtherEnd
    <3> QED
      BY <1>3, <1>4, <2>2, <3>1 DEF Closes
  <2>3. CASE x = Other(e)
    <3>1. x # e
      BY <2>3, OtherEnd
    <3> QED
      BY <1>3, <1>4, <2>3, <3>1 DEF Closes
  <2> QED
    BY <2>1, <2>2, <2>3
<1>7. open' # End
  BY <1>1 DEF End
<1>8. PromisesOk(Here)'
  <2>1. ASSUME NEW x \in End, NEW i \in DOMAIN t.channel[x].calls PROVE t.channel[x].calls[i][1] \in DOMAIN t.settled[x]
    BY <1>1, <1>2, <1>6 DEF PromisesOk
  <2> QED
    BY <1>5, <1>6, <1>7, <2>1 DEF PromisesOk
<1>9. LinesOk(t) /\ AnswersOk(t)
  BY <1>4 DEF Closes
<1>10. LinesOk(Here)'
  BY <1>5, <1>9 DEF LinesOk, LineOk
<1>11. AnswersOk(Here)'
  BY <1>5, <1>9 DEF AnswersOk, WasHandled
<1>12. MadeOk(Here)'
  BY <1>7 DEF MadeOk
<1>13. (Here \in ChannelState)'
  BY <1>4, <1>5 DEF ChannelState, EndState
<1>14. (direct \in BOOLEAN /\ open \in SUBSET End /\ (direct => open \in {End, {}}))'
  BY <1>1, <1>5 DEF ChannelInv
<1> QED
  BY <1>8, <1>10, <1>11, <1>12, <1>13, <1>14 DEF ChannelInv, IsOk

\* ThreadPort.close: what waits is forgotten, and some of what was on its way.
LEMMA ThreadCloseStep ==
  ASSUME ChannelAssumption, ChannelInv, NEW e \in End, ClosePort(e), ~direct
  PROVE  ChannelInv'
<1> DEFINE o == Other(e)
<1>1. PICK kept \in 0..Len(port[o].wire) :
        port' = [port EXCEPT ![e].pending = NothingPending, ![e].wire = <<>>, ![o].wire = SubSeq(@, 1, kept)]
  BY DEF ClosePort
<1>2. /\ open' = open \ {e} /\ direct' = direct /\ channel' = channel /\ handling' = handling /\ handled' = handled
      /\ settled' = settled
  BY DEF ClosePort
<1>3. /\ Here \in ChannelState /\ LinesOk(Here) /\ AnswersOk(Here) /\ o \in End /\ o # e /\ End = {e, o}
      /\ Here.port = port /\ Here.channel = channel /\ Here.handling = handling /\ Here.handled = handled /\ Here.settled = settled
      /\ port \in [End -> PortState] /\ port[e] \in PortState /\ port[o] \in PortState
  <2>1. Here \in ChannelState /\ LinesOk(Here) /\ AnswersOk(Here)
    BY DEF ChannelInv, IsOk
  <2>2. Here.port = port /\ Here.channel = channel /\ Here.handling = handling /\ Here.handled = handled /\ Here.settled = settled
    BY DEF Here
  <2>3. o \in End /\ o # e /\ End = {e, o}
    BY OtherEnd
  <2>4. port \in [End -> PortState]
    BY <2>1, <2>2 DEF ChannelState
  <2> QED
    BY <2>1, <2>2, <2>3, <2>4
<1> HIDE DEF o
<1>4. port'[e] \in PortState /\ port'[e].listeners = port[e].listeners /\ port'[e].pending = NothingPending /\ port'[e].wire = <<>>
  <2>1. port'[e] = [port[e] EXCEPT !.pending = NothingPending, !.wire = <<>>]
    BY <1>1, <1>3
  <2>2. <<>> \in Seq(Message)
    OBVIOUS
  <2> QED
    BY <1>3, <2>1, <2>2, Nothing DEF PortState
<1>5. /\ port'[o] \in PortState /\ port'[o].listeners = port[o].listeners /\ port'[o].pending = port[o].pending
      /\ port'[o].wire = SubSeq(port[o].wire, 1, kept)
  <2>1. port'[o] = [port[o] EXCEPT !.wire = SubSeq(port[o].wire, 1, kept)]
    BY <1>1, <1>3
  <2>2. port[o].wire \in Seq(Message)
    BY <1>3 DEF PortState
  <2>3. SubSeq(port[o].wire, 1, kept) \in Seq(Message)
    BY <2>2
  <2> QED
    BY <1>3, <2>1, <2>3 DEF PortState
<1>6. /\ Here'.port = port' /\ Here'.channel = channel /\ Here'.handling = handling /\ Here'.handled = handled /\ Here'.settled = settled
      /\ Here' = [port |-> port', channel |-> channel, handling |-> handling, handled |-> handled, settled |-> settled]
  BY <1>2 DEF Here
<1>7. Here' \in ChannelState
  <2>1. port' \in [End -> PortState]
    <3>1. DOMAIN port' = End /\ port' = [x \in End |-> port'[x]]
      BY <1>1, <1>3
    <3>2. \A x \in End : port'[x] \in PortState
      BY <1>3, <1>4, <1>5
    <3> QED
      BY <3>1, <3>2
  <2>2. /\ channel \in [End -> EndState] /\ handling \in SUBSET [end : End, call : Method, id : Id]
        /\ handled \in [End -> [Method -> Seq(Id)]] /\ settled \in [End -> Answers]
    BY <1>3 DEF ChannelState
  <2>3. [port |-> port', channel |-> channel, handling |-> handling, handled |-> handled, settled |-> settled] \in ChannelState
    BY <2>1, <2>2, ChannelStates
  <2> QED
    BY <1>6, <2>3, Zenon
<1>8. ASSUME NEW x \in End, NEW c \in Method PROVE LineOk(Here, x, c)'
  <2>1. /\ LineOk(Here, x, c) /\ c \in Event
        /\ handled[x][c] \in Seq(Id) /\ port[x].pending[c] \in Seq(Message) /\ port[x].wire \in Seq(Message) /\ channel[Other(x)].next \in Nat
    BY <1>3, OtherEnd, FieldTypes DEF LinesOk, Event
  <2>2. Line(handled[x][c], port[x].pending[c], port[x].wire, channel[Other(x)].next, c)
    BY <1>3, <2>1 DEF LineOk
  <2>3. CASE x = e
    <3>1. port'[x].pending[c] = <<>> /\ port'[x].wire = <<>>
      BY <1>4, <2>1, <2>3, Nothing
    <3>2. Line(handled[x][c], <<>>, <<>>, channel[Other(x)].next, c)
      BY <2>2, LineIsCleared
    <3> QED
      BY <1>6, <3>1, <3>2 DEF LineOk
  <2>4. CASE x = o
    <3>1. Line(handled[x][c], port[x].pending[c], SubSeq(port[x].wire, 1, kept), channel[Other(x)].next, c)
      BY <2>1, <2>2, <2>4, LineIsCut
    <3> QED
      BY <1>3, <1>5, <1>6, <2>1, <2>4, <3>1 DEF LineOk
  <2> QED
    BY <1>3, <2>3, <2>4
<1>9. AnswersOk(Here)'
  <2>1. \A x, id : WasHandled(Here, x, id)' <=> id \in IdsOf(handled[x][id[1]])
    BY <1>6 DEF WasHandled
  <2>2. \A x, id : WasHandled(Here, x, id) <=> id \in IdsOf(handled[x][id[1]])
    BY <1>3 DEF WasHandled
  <2>3. ASSUME NEW x \in End, NEW i \in DOMAIN port'[x].wire, port'[x].wire[i].event \notin Method
        PROVE  port'[x].wire[i].id \in IdsOf(handled[Other(x)][port'[x].wire[i].id[1]])
    <3>1. x = o
      BY <1>3, <1>4, <2>3
    <3>2. i \in DOMAIN port[o].wire /\ port'[x].wire[i] = port[o].wire[i]
      <4>1. port[o].wire \in Seq(Message)
        BY <1>3 DEF PortState
      <4> QED
        BY <1>5, <2>3, <3>1, <4>1
    <3> QED
      BY <1>3, <2>2, <2>3, <3>1, <3>2 DEF AnswersOk
  <2>4. \A x \in End : \A id \in DOMAIN settled[x] :
          settled[x][id] = "rejected" \/ (settled[x][id] = id /\ id \in IdsOf(handled[Other(x)][id[1]]))
    BY <1>3, <2>2 DEF AnswersOk
  <2>5. \A k \in handling : k.id[1] = k.call /\ k.id \in IdsOf(handled[k.end][k.id[1]])
    BY <1>3, <2>2 DEF AnswersOk
  <2> QED
    BY <1>6, <2>3, <2>4, <2>5 DEF AnswersOk, WasHandled
<1>10. PromisesOk(Here)' /\ MadeOk(Here)'
  <2>1. open' # End
    BY <1>2
  <2> QED
    BY <1>2, <2>1 DEF PromisesOk, MadeOk
<1>11. (direct \in BOOLEAN /\ open \in SUBSET End /\ (direct => open \in {End, {}}))'
  BY <1>2 DEF ChannelInv
<1> QED
  BY <1>7, <1>8, <1>9, <1>10, <1>11 DEF ChannelInv, IsOk, LinesOk

LEMMA ChannelStarts ==
  ASSUME ChannelAssumption, ChannelInit
  PROVE  ChannelInv
<1> DEFINE po == [listeners |-> {}, pending |-> NothingPending, wire |-> <<>>]
           ch == [next |-> 0, pendingPromises |-> {}, attached |-> {}, calls |-> <<>>]
<1>1. /\ Here.port = [e \in End |-> po] /\ Here.channel = [e \in End |-> ch] /\ Here.handling = {}
      /\ Here.handled = [e \in End |-> [c \in Method |-> <<>>]] /\ Here.settled = [e \in End |-> <<>>]
      /\ Here = [port |-> Here.port, channel |-> Here.channel, handling |-> Here.handling, handled |-> Here.handled, settled |-> Here.settled]
      /\ direct \in BOOLEAN /\ open = End
  BY DEF ChannelInit, Here
<1>2. po \in PortState /\ po.listeners = {} /\ po.wire = <<>> /\ \A v \in Event : po.pending[v] = <<>>
  BY Nothing
<1>3. ch \in EndState /\ ch.next = 0 /\ ch.calls = <<>>
  <2>1. <<>> \in Seq(Id \X BOOLEAN)
    OBVIOUS
  <2> QED
    BY <2>1 DEF EndState, ChannelAssumption
<1>4. <<>> \in Answers /\ DOMAIN <<>> = {}
  <2>1. <<>> \in [{} -> Id \cup {"rejected"}] /\ DOMAIN <<>> = {}
    OBVIOUS
  <2> QED
    BY <2>1 DEF Answers
<1> HIDE DEF po, ch
<1>5. Here \in ChannelState
  <2>1. /\ Here.port \in [End -> PortState] /\ Here.channel \in [End -> EndState] /\ Here.settled \in [End -> Answers]
        /\ Here.handling \in SUBSET [end : End, call : Method, id : Id]
    BY <1>1, <1>2, <1>3, <1>4
  <2>2. Here.handled \in [End -> [Method -> Seq(Id)]]
    BY <1>1
  <2>3. [port |-> Here.port, channel |-> Here.channel, handling |-> Here.handling, handled |-> Here.handled, settled |-> Here.settled] \in ChannelState
    BY <2>1, <2>2, ChannelStates
  <2> QED
    BY <1>1, <2>3, Zenon
<1>6. ASSUME NEW e \in End, NEW c \in Method
      PROVE  LineOk(Here, e, c) /\ AllAt(Here, e, c) = {} /\ MadeIn(Here, Other(e), c) = {}
  <2>1. /\ Here.port[e] = po /\ Here.channel[Other(e)] = ch /\ Here.handled[e][c] = <<>> /\ c \in Event
    BY <1>1, OtherEnd DEF Event
  <2>2. Here.port[e].pending[c] = <<>> /\ Here.port[e].wire = <<>> /\ Here.channel[Other(e)].next = 0 /\ Here.channel[Other(e)].calls = <<>>
    BY <1>2, <1>3, <2>1
  <2>3. Line(<<>>, <<>>, <<>>, 0, c) /\ AllOf(<<>>, <<>>, <<>>, c) = {}
    BY NothingInLine
  <2> QED
    BY <2>1, <2>2, <2>3 DEF LineOk, AllAt, MadeIn
<1>7. AnswersOk(Here)
  <2>1. \A e \in End : Here.settled[e] = <<>> /\ Here.port[e].wire = <<>>
    BY <1>1, <1>2
  <2> QED
    BY <1>1, <2>1 DEF AnswersOk
<1>8. PromisesOk(Here)
  <2>1. \A e \in End : Here.channel[e].calls = <<>> /\ Here.port[e].wire = <<>>
    BY <1>1, <1>2, <1>3
  <2> QED
    BY <2>1 DEF PromisesOk
<1> QED
  BY <1>1, <1>5, <1>6, <1>7, <1>8 DEF ChannelInv, IsOk, LinesOk, MadeOk

\* Any step keeps the invariant.
LEMMA ChannelSteps ==
  ASSUME ChannelAssumption, ChannelInv, [ChannelNext]_channelVars
  PROVE  ChannelInv'
<1>1. ASSUME NEW e \in End, NEW call \in Method, Send(e, call) PROVE ChannelInv'
  BY <1>1, SendStep
<1>2. ASSUME NEW e \in End, NEW call \in Method, SetOn(e, call) PROVE ChannelInv'
  BY <1>2, SetOnStep
<1>3. ASSUME NEW h \in handling, PostResponse(h) PROVE ChannelInv'
  BY <1>3, PostResponseStep
<1>4. ASSUME NEW h \in handling, HandlerThrows(h) PROVE ChannelInv'
  BY <1>4, HandlerThrowsStep
<1>5. ASSUME NEW e \in End, Deliver(e) PROVE ChannelInv'
  BY <1>5, DeliverStep
<1>6. ASSUME NEW e \in End, ClosePort(e) PROVE ChannelInv'
  BY <1>6, DirectCloseStep, ThreadCloseStep
<1>7. ASSUME UNCHANGED channelVars PROVE ChannelInv'
  <2>1. Here' = Here /\ direct' = direct /\ open' = open
    BY <1>7 DEF Here, channelVars
  <2>2. (direct \in BOOLEAN /\ open \in SUBSET End /\ (direct => open \in {End, {}}))'
    BY <2>1 DEF ChannelInv
  <2>3. (Here \in ChannelState)'
    BY <2>1 DEF ChannelInv, ChannelState, EndState
  <2>4. LinesOk(Here)'
    BY <2>1 DEF ChannelInv, IsOk, LinesOk, LineOk
  <2>5. AnswersOk(Here)'
    BY <2>1 DEF ChannelInv, IsOk, AnswersOk, WasHandled
  <2>6. PromisesOk(Here)'
    BY <2>1 DEF ChannelInv, IsOk, PromisesOk
  <2>7. MadeOk(Here)'
    BY <2>1 DEF ChannelInv, MadeOk, MadeIn, AllAt
  <2> QED
    BY <2>2, <2>3, <2>4, <2>5, <2>6, <2>7 DEF ChannelInv, IsOk
<1> QED
  BY <1>1, <1>2, <1>3, <1>4, <1>5, <1>6, <1>7 DEF ChannelNext

LEMMA LinesAreServed ==
  ASSUME ChannelAssumption, ChannelInv
  PROVE  RequestsAreServed
<1>1. /\ Here \in ChannelState /\ LinesOk(Here) /\ AnswersOk(Here) /\ PromisesOk(Here) /\ MadeOk(Here)
      /\ Here.port = port /\ Here.channel = channel /\ Here.handled = handled /\ Here.settled = settled
  BY DEF ChannelInv, IsOk, Here
<1>2. \A e, c : Handled(e, c) = IdsOf(handled[e][c])
  BY DEF Handled, IdsOf
<1>3. OwnAnswers
  BY <1>1, <1>2 DEF OwnAnswers, AnswersOk, WasHandled
<1>4. ASSUME NEW e \in End, NEW c \in Method
      PROVE  /\ \A i, j \in DOMAIN handled[e][c] : i < j => handled[e][c][i][2] < handled[e][c][j][2]
             /\ InSequence(port[e].pending[c], c) /\ InSequence(port[e].wire, c)
             /\ Before(Handled(e, c), Pending(e, c) \cup Coming(e, c))
             /\ Before(Pending(e, c), Coming(e, c))
             /\ open = End => Made(Other(e), c) = Handled(e, c) \cup Pending(e, c) \cup Coming(e, c)
             /\ c \in port[e].listeners => port[e].pending[c] = <<>>
  <2>1. LineOk(Here, e, c)
    BY <1>1 DEF LinesOk
  <2>2. open = End => Made(Other(e), c) = AllAt(Here, e, c)
    BY <1>1 DEF MadeOk, MadeIn, Made
  <2> QED
    BY <1>1, <1>2, <2>1, <2>2 DEF LineOk, Line, AllAt, AllOf, Pending, Coming
<1>5. NobodyWaits
  BY <1>1 DEF NobodyWaits, PromisesOk
<1> QED
  BY <1>3, <1>4, <1>5 DEF RequestsAreServed, OneLine

\* A promise gets a rejection or the answer to its own request, requests are
\* handled once and in order, whether they come before their handler or not, and
\* whoever waits when direct ports are closed is told: PortState, DirectPort,
\* ThreadPort and Channel, for any methods and any number of requests.
THEOREM ServedRequests == ChannelSpec => []RequestsAreServed
<1>1. ChannelInit => ChannelInv
  BY ChannelAssumption, ChannelStarts
<1>2. ChannelInv /\ [ChannelNext]_channelVars => ChannelInv'
  BY ChannelAssumption, ChannelSteps
<1>3. ChannelInv => RequestsAreServed
  BY ChannelAssumption, LinesAreServed
<1> QED
  BY <1>1, <1>2, <1>3, PTL DEF ChannelSpec
==============================================================================
