-------------------------- MODULE WorkReportsProofs --------------------------
(***************************************************************************)
(* Proofs about WorkReports for any reports, packages, cores and epoch, and *)
(* without a bound on the blocks, the slots between them and the verdicts.  *)
(***************************************************************************)
EXTENDS WorkReports, TLAPS, WellFoundedInduction, SequenceTheorems, FiniteSetTheorems

(* Counting *)

\* A set of numbers that is not empty has a least one.
LEMMA LeastNumber ==
  ASSUME NEW T, T \subseteq Nat, T # {}
  PROVE  \E n \in T : \A m \in T : n <= m
<1> DEFINE less == {pair \in Nat \X Nat : pair[1] < pair[2]}
<1>1. IsWellFoundedOn(less, Nat)
  BY NatLessThanWellFounded, Zenon DEF OpToRel
<1>2. PICK n \in T : \A m \in T : ~(<<m, n>> \in less)
  <2> HIDE DEF less
  <2> QED
    BY <1>1, WFMin, Zenon
<1>3. ASSUME NEW m \in T PROVE n <= m
  <2>1. m \in Nat /\ n \in Nat
    OBVIOUS
  <2>2. m < n => <<m, n>> \in less
    BY <2>1
  <2> HIDE DEF less
  <2>3. ~(m < n)
    BY <2>2, <1>2
  <2> QED
    BY <2>1, <2>3
<1> QED
  BY <1>3

\* Induction over the first numbers: X has 0, and with a number the next one.
LEMMA CountingUp ==
  ASSUME NEW N \in Nat, NEW X, 0 \in X, \A n \in 1 .. N : n - 1 \in X => n \in X
  PROVE  0 .. N \subseteq X
<1> DEFINE T == (0 .. N) \ X
<1> SUFFICES ASSUME T # {} PROVE FALSE
  OBVIOUS
<1>1. PICK n \in T : \A m \in T : n <= m
  <2>1. T \subseteq Nat
    OBVIOUS
  <2> HIDE DEF T
  <2> QED
    BY <2>1, LeastNumber
<1>2. n \in 1 .. N /\ n - 1 \in 0 .. N /\ ~(n <= n - 1)
  OBVIOUS
<1>3. n - 1 \in X
  BY <1>1, <1>2
<1> QED
  BY <1>2, <1>3

\* f[n] is what n steps make of base.
Steps(N, base, step, f) ==
    f = [n \in 0 .. N |-> IF n = 0 THEN base ELSE step[<<n, f[n - 1]>>]]

\* A function on the first numbers can be told one step after another.
LEMMA StepsExist ==
  ASSUME NEW N \in Nat, NEW X, NEW base \in X, NEW step \in [(1 .. N) \X X -> X]
  PROVE  \E f \in [0 .. N -> X] : Steps(N, base, step, f)
<1> DEFINE Told == {n \in 0 .. N : \E f \in [0 .. n -> X] : Steps(n, base, step, f)}
<1>1. 0 \in Told
  <2>1. Steps(0, base, step, [k \in 0 .. 0 |-> base])
    BY DEF Steps
  <2> QED
    BY <2>1
<1>2. ASSUME NEW n \in 1 .. N, n - 1 \in Told PROVE n \in Told
  <2>1. PICK f \in [0 .. n - 1 -> X] : Steps(n - 1, base, step, f)
    BY <1>2
  <2>2. f[n - 1] \in X /\ <<n, f[n - 1]>> \in (1 .. N) \X X
    OBVIOUS
  <2> DEFINE g == [k \in 0 .. n |-> IF k = n THEN step[<<n, f[n - 1]>>] ELSE f[k]]
  <2>3. g \in [0 .. n -> X]
    BY <2>2
  <2>4. ASSUME NEW k \in 0 .. n
        PROVE  g[k] = IF k = 0 THEN base ELSE step[<<k, g[k - 1]>>]
    <3>1. CASE k = n
      <4>1. n # 0 /\ n - 1 \in 0 .. n /\ n - 1 # n
        OBVIOUS
      <4>2. g[n - 1] = f[n - 1]
        BY <4>1
      <4>3. g[n] = step[<<n, f[n - 1]>>]
        OBVIOUS
      <4> QED
        BY <3>1, <4>1, <4>2, <4>3
    <3>2. CASE k # n
      <4>1. k \in 0 .. (n - 1) /\ g[k] = f[k]
        BY <3>2
      <4>2. f[k] = IF k = 0 THEN base ELSE step[<<k, f[k - 1]>>]
        BY <2>1, <4>1 DEF Steps
      <4>3. k # 0 => g[k - 1] = f[k - 1]
        BY <4>1
      <4> QED
        BY <4>1, <4>2, <4>3
    <3> QED
      BY <3>1, <3>2
  <2>5. Steps(n, base, step, g)
    <3>1. g = [k \in 0 .. n |-> g[k]]
      OBVIOUS
    <3> HIDE DEF g
    <3> QED
      BY <2>4, <3>1 DEF Steps
  <2> QED
    BY <2>3, <2>5
<1>3. 0 .. N \subseteq Told
  <2> HIDE DEF Told
  <2> QED
    BY <1>1, <1>2, CountingUp
<1> QED
  BY <1>3

(* Sequences *)

\* out are the chosen ones among the first elements of seq up to last, and
\* at[i] is the place of out[i] in seq.
Picked(seq, chosen, last, out, at) ==
    /\ at \in [1 .. Len(out) -> 1 .. last]
    /\ \A i \in 1 .. Len(out) : out[i] = seq[at[i]] /\ out[i] \in chosen /\ i <= at[i]
    /\ \A i, j \in 1 .. Len(out) : i < j => at[i] < at[j]
    /\ \A k \in 1 .. last : seq[k] \in chosen => \E i \in 1 .. Len(out) : at[i] = k

\* One more element is picked or not.
LEMMA PickedStep ==
  ASSUME NEW S, NEW seq \in Seq(S), NEW chosen, NEW n \in 1 .. Len(seq),
         NEW out \in Seq(S), NEW at, Picked(seq, chosen, n - 1, out, at)
  PROVE  \E bt : Picked(seq, chosen, n,
                        IF seq[n] \in chosen THEN Append(out, seq[n]) ELSE out, bt)
<1>1. Len(seq) \in Nat /\ Len(out) \in Nat /\ n \in Nat \ {0} /\ seq[n] \in S
  OBVIOUS
<1>2. CASE seq[n] \notin chosen
  <2>1. at \in [1 .. Len(out) -> 1 .. n]
    BY <1>1 DEF Picked
  <2>2. Picked(seq, chosen, n, out, at)
    BY <1>1, <1>2, <2>1 DEF Picked
  <2> QED
    BY <1>2, <2>2
<1>3. CASE seq[n] \in chosen
  <2> DEFINE new == Append(out, seq[n])
             last == Len(out) + 1
             bt == [i \in 1 .. last |-> IF i = last THEN n ELSE at[i]]
  <2>1. Len(new) = last /\ new[last] = seq[n] /\ \A i \in 1 .. Len(out) : new[i] = out[i]
    BY <1>1
  <2>2. \A i \in 1 .. Len(out) : i \in 1 .. last /\ i # last /\ bt[i] = at[i]
    BY <1>1
  <2>3. bt[last] = n /\ last \in 1 .. last
    BY <1>1
  <2>4. \A i \in 1 .. last : i = last \/ i \in 1 .. Len(out)
    BY <1>1
  <2>5. \A i \in 1 .. Len(out) : at[i] \in 1 .. (n - 1)
    BY DEF Picked
  <2>6. Len(out) <= n - 1
    <3>1. CASE Len(out) = 0
      BY <1>1, <3>1
    <3>2. CASE Len(out) # 0
      <4>1. Len(out) \in 1 .. Len(out)
        BY <1>1, <3>2
      <4>2. Len(out) <= at[Len(out)]
        BY <4>1 DEF Picked
      <4> QED
        BY <1>1, <4>1, <4>2, <2>5
    <3> QED
      BY <3>1, <3>2
  <2>7. bt \in [1 .. last -> 1 .. n]
    BY <1>1, <2>5
  <2> HIDE DEF new, last, bt
  <2>8. \A i \in 1 .. Len(new) : new[i] = seq[bt[i]] /\ new[i] \in chosen /\ i <= bt[i]
    <3> SUFFICES ASSUME NEW i \in 1 .. last
                 PROVE  new[i] = seq[bt[i]] /\ new[i] \in chosen /\ i <= bt[i]
      BY <2>1
    <3>1. CASE i = last
      <4>1. i <= n
        BY <3>1, <2>6, <1>1 DEF last
      <4> QED
        BY <3>1, <4>1, <2>1, <2>3, <1>3
    <3>2. CASE i # last
      BY <3>2, <2>1, <2>2, <2>4 DEF Picked
    <3> QED
      BY <3>1, <3>2
  <2>9. \A i, j \in 1 .. Len(new) : i < j => bt[i] < bt[j]
    <3> SUFFICES ASSUME NEW i \in 1 .. last, NEW j \in 1 .. last, i < j PROVE bt[i] < bt[j]
      BY <2>1
    <3>1. i \in 1 .. Len(out)
      BY <1>1 DEF last
    <3>2. bt[i] = at[i] /\ at[i] < n
      BY <3>1, <2>2, <2>5, <1>1
    <3>3. CASE j = last
      BY <3>3, <3>2, <2>3
    <3>4. CASE j # last
      BY <3>4, <3>1, <3>2, <2>2, <2>4 DEF Picked
    <3> QED
      BY <3>3, <3>4
  <2>10. \A k \in 1 .. n : seq[k] \in chosen => \E i \in 1 .. Len(new) : bt[i] = k
    <3> SUFFICES ASSUME NEW k \in 1 .. n, seq[k] \in chosen
                 PROVE  \E i \in 1 .. last : bt[i] = k
      BY <2>1
    <3>1. CASE k = n
      BY <3>1, <2>3
    <3>2. CASE k # n
      <4>1. k \in 1 .. (n - 1)
        BY <3>2, <1>1
      <4>2. PICK i \in 1 .. Len(out) : at[i] = k
        BY <4>1 DEF Picked
      <4> QED
        BY <4>2, <2>2
    <3> QED
      BY <3>1, <3>2
  <2>11. Picked(seq, chosen, n, new, bt)
    BY <2>1, <2>7, <2>8, <2>9, <2>10 DEF Picked
  <2> QED
    BY <1>3, <2>11 DEF new
<1> QED
  BY <1>2, <1>3

ThoseStep(seq, chosen, f) ==
    f = [n \in 0 .. Len(seq) |->
            IF n = 0 THEN <<>>
            ELSE IF seq[n] \in chosen THEN Append(f[n - 1], seq[n]) ELSE f[n - 1]]

\* The chosen elements of a sequence are picked from it.
LEMMA ThoseArePicked ==
  ASSUME NEW S, NEW seq \in Seq(S), NEW chosen
  PROVE  /\ Those(seq, chosen) \in Seq(S)
         /\ \E at : Picked(seq, chosen, Len(seq), Those(seq, chosen), at)
<1> DEFINE N == Len(seq)
           step == [p \in (1 .. N) \X Seq(S) |->
                       IF seq[p[1]] \in chosen THEN Append(p[2], seq[p[1]]) ELSE p[2]]
           h == CHOOSE f : ThoseStep(seq, chosen, f)
<1>1. N \in Nat /\ \A n \in 1 .. N : seq[n] \in S
  OBVIOUS
<1>2. step \in [(1 .. N) \X Seq(S) -> Seq(S)]
  BY <1>1
<1>3. PICK f \in [0 .. N -> Seq(S)] : Steps(N, <<>>, step, f)
  <2>1. <<>> \in Seq(S)
    OBVIOUS
  <2> HIDE DEF step, N
  <2> QED
    BY <1>1, <1>2, <2>1, StepsExist
<1>4. \A n \in 1 .. N : f[n - 1] \in Seq(S)
  BY <1>1
<1>5. \A n \in 0 .. N : f[n] = IF n = 0 THEN <<>>
                             ELSE IF seq[n] \in chosen THEN Append(f[n - 1], seq[n]) ELSE f[n - 1]
  <2>1. \A n \in 0 .. N : f[n] = IF n = 0 THEN <<>> ELSE step[<<n, f[n - 1]>>]
    BY <1>3 DEF Steps
  <2>2. \A n \in 1 .. N : step[<<n, f[n - 1]>>] =
                 IF seq[n] \in chosen THEN Append(f[n - 1], seq[n]) ELSE f[n - 1]
    BY <1>4
  <2>3. \A n \in 0 .. N : n = 0 \/ n \in 1 .. N
    BY <1>1
  <2> HIDE DEF step, N
  <2> QED
    BY <2>1, <2>2, <2>3, Zenon
<1>6. ThoseStep(seq, chosen, f)
  <2>1. f = [n \in 0 .. N |-> f[n]]
    OBVIOUS
  <2> HIDE DEF step
  <2> QED
    BY <2>1, <1>5 DEF ThoseStep
<1>7. ThoseStep(seq, chosen, h)
  BY <1>6
<1> HIDE DEF h
<1>8. \A n \in 0 .. N : h[n] = IF n = 0 THEN <<>>
                             ELSE IF seq[n] \in chosen THEN Append(h[n - 1], seq[n]) ELSE h[n - 1]
  BY <1>7 DEF ThoseStep
<1> DEFINE X == {n \in 0 .. N : h[n] \in Seq(S) /\ \E at : Picked(seq, chosen, n, h[n], at)}
<1>9. 0 \in X
  <2>1. h[0] = <<>>
    BY <1>8, <1>1
  <2>2. Picked(seq, chosen, 0, <<>>, [i \in 1 .. 0 |-> 0])
    BY DEF Picked
  <2>3. h[0] \in Seq(S) /\ \E at : Picked(seq, chosen, 0, h[0], at)
    BY <2>1, <2>2
  <2>4. 0 \in 0 .. N
    BY <1>1
  <2> HIDE DEF N
  <2> QED
    BY <2>3, <2>4
<1>10. ASSUME NEW n \in 1 .. N, n - 1 \in X PROVE n \in X
  <2>1. h[n - 1] \in Seq(S) /\ \E at : Picked(seq, chosen, n - 1, h[n - 1], at)
    BY <1>10
  <2>2. h[n] = IF seq[n] \in chosen THEN Append(h[n - 1], seq[n]) ELSE h[n - 1]
    BY <1>8
  <2>3. h[n] \in Seq(S)
    BY <2>1, <2>2, <1>1
  <2>4. \E at : Picked(seq, chosen, n, h[n], at)
    BY <2>1, <2>2, PickedStep
  <2> QED
    BY <2>3, <2>4
<1>11. 0 .. N \subseteq X
  <2> HIDE DEF X, N
  <2> QED
    BY <1>1, <1>9, <1>10, CountingUp
<1>12. Those(seq, chosen) = h[N]
  BY DEF Those, h, ThoseStep
<1> QED
  BY <1>11, <1>12, <1>1

\* The chosen elements are elements of the sequence, and there are no more of them.
LEMMA ThoseFacts ==
  ASSUME NEW S, NEW seq \in Seq(S), NEW chosen
  PROVE  /\ ToSet(Those(seq, chosen)) = ToSet(seq) \cap chosen
         /\ Len(Those(seq, chosen)) <= Len(seq)
<1> DEFINE out == Those(seq, chosen)
<1>1. out \in Seq(S)
  BY ThoseArePicked
<1>2. PICK at : Picked(seq, chosen, Len(seq), out, at)
  BY ThoseArePicked
<1> HIDE DEF out
<1>3. DOMAIN out = 1 .. Len(out) /\ DOMAIN seq = 1 .. Len(seq)
  BY <1>1
<1>4. ToSet(out) = ToSet(seq) \cap chosen
  <2>1. ASSUME NEW i \in 1 .. Len(out) PROVE out[i] \in ToSet(seq) \cap chosen
    BY <1>2, <1>3 DEF Picked, ToSet
  <2>2. ASSUME NEW k \in 1 .. Len(seq), seq[k] \in chosen PROVE seq[k] \in ToSet(out)
    BY <1>2, <1>3, <2>2 DEF Picked, ToSet
  <2> QED
    BY <1>3, <2>1, <2>2 DEF ToSet
<1>5. Len(out) <= Len(seq)
  <2>1. Len(out) \in Nat /\ Len(seq) \in Nat
    BY <1>1
  <2>2. CASE Len(out) # 0
    <3>1. Len(out) \in 1 .. Len(out)
      BY <2>1, <2>2
    <3>2. Len(out) <= at[Len(out)] /\ at[Len(out)] \in 1 .. Len(seq)
      BY <1>2, <3>1 DEF Picked
    <3> QED
      BY <2>1, <3>2
  <2> QED
    BY <2>1, <2>2
<1> QED
  BY <1>4, <1>5 DEF out

\* The elements of sequences and of their parts.
LEMMA Elements ==
  ASSUME NEW S, NEW s \in Seq(S), NEW t \in Seq(S), NEW n \in 0 .. Len(s)
  PROVE  /\ ToSet(s) \subseteq S
         /\ s \o t \in Seq(S) /\ ToSet(s \o t) = ToSet(s) \cup ToSet(t)
         /\ SubSeq(s, 1, n) \in Seq(S) /\ Len(SubSeq(s, 1, n)) = n
         /\ \A i \in 1 .. n : SubSeq(s, 1, n)[i] = s[i]
         /\ ToSet(SubSeq(s, 1, n)) \subseteq ToSet(s)
<1>1. DOMAIN s = 1 .. Len(s) /\ DOMAIN t = 1 .. Len(t) /\ Len(s) \in Nat /\ Len(t) \in Nat
  OBVIOUS
<1>2. s \o t \in Seq(S) /\ Len(s \o t) = Len(s) + Len(t)
  OBVIOUS
<1>3. \A i \in 1 .. Len(s) : (s \o t)[i] = s[i]
  OBVIOUS
<1>4. \A i \in 1 .. Len(t) : (s \o t)[Len(s) + i] = t[i]
  OBVIOUS
<1>5. ToSet(s \o t) = ToSet(s) \cup ToSet(t)
  <2>1. DOMAIN (s \o t) = 1 .. Len(s) + Len(t)
    BY <1>2
  <2>2. ASSUME NEW i \in 1 .. Len(s) + Len(t) PROVE (s \o t)[i] \in ToSet(s) \cup ToSet(t)
    <3>1. CASE i <= Len(s)
      BY <3>1, <1>1, <1>3 DEF ToSet
    <3>2. CASE i > Len(s)
      <4>1. i - Len(s) \in 1 .. Len(t) /\ i = Len(s) + (i - Len(s))
        BY <3>2, <1>1
      <4> QED
        BY <4>1, <1>1, <1>4 DEF ToSet
    <3> QED
      BY <1>1, <3>1, <3>2
  <2>3. ASSUME NEW i \in 1 .. Len(s) PROVE s[i] \in ToSet(s \o t)
    <3>1. i \in 1 .. Len(s) + Len(t)
      BY <1>1
    <3> QED
      BY <3>1, <2>1, <1>3 DEF ToSet
  <2>4. ASSUME NEW i \in 1 .. Len(t) PROVE t[i] \in ToSet(s \o t)
    <3>1. Len(s) + i \in 1 .. Len(s) + Len(t)
      BY <1>1
    <3> QED
      BY <3>1, <2>1, <1>4 DEF ToSet
  <2> QED
    BY <1>1, <2>1, <2>2, <2>3, <2>4 DEF ToSet
<1>6. /\ SubSeq(s, 1, n) \in Seq(S) /\ Len(SubSeq(s, 1, n)) = n
      /\ \A i \in 1 .. n : SubSeq(s, 1, n)[i] = s[i]
  BY <1>1
<1>7. ToSet(SubSeq(s, 1, n)) \subseteq ToSet(s)
  BY <1>1, <1>6 DEF ToSet
<1>8. ToSet(s) \subseteq S
  BY <1>1 DEF ToSet
<1> QED
  BY <1>2, <1>5, <1>6, <1>7, <1>8

\* The packages of sequences of reports and of their parts.
LEMMA PackagesOfParts ==
  ASSUME NEW s \in Seq(Report), NEW t \in Seq(Report), NEW n \in 0 .. Len(s)
  PROVE  /\ Packages(s) \subseteq Package
         /\ Packages(s \o t) = Packages(s) \cup Packages(t)
         /\ Packages(SubSeq(s, 1, n)) \subseteq Packages(s)
BY Elements, ReportAssumption DEF Packages

(* The operations of the queue *)

\* The entries that a set of packages leaves in the queue: kept[i] comes from
\* entries[at[i]].
Pruned(entries, packages, kept, at) ==
    /\ at \in [1 .. Len(kept) -> 1 .. Len(entries)]
    /\ \A i \in 1 .. Len(kept) :
           /\ kept[i] = [report |-> entries[at[i]].report,
                         needs |-> entries[at[i]].needs \ packages]
           /\ PackageOf[entries[at[i]].report] \notin packages
    /\ \A i, j \in 1 .. Len(kept) : at[i] = at[j] => i = j

LEMMA PruneFacts ==
  ASSUME NEW entries \in Seq(Entry), NEW packages
  PROVE  /\ PruneQueue(entries, packages) \in Seq(Entry)
         /\ \E at : Pruned(entries, packages, PruneQueue(entries, packages), at)
<1> DEFINE open == {e \in ToSet(entries) : PackageOf[e.report] \notin packages}
           kept == Those(entries, open)
           out == PruneQueue(entries, packages)
<1>1. kept \in Seq(Entry)
  BY ThoseArePicked
<1>2. PICK at : Picked(entries, open, Len(entries), kept, at)
  BY ThoseArePicked
<1>3. out = [i \in DOMAIN kept |-> [kept[i] EXCEPT !.needs = @ \ packages]]
  BY DEF PruneQueue
<1> HIDE DEF kept, out
<1>4. DOMAIN kept = 1 .. Len(kept) /\ Len(kept) \in Nat /\ \A i \in 1 .. Len(kept) : kept[i] \in Entry
  BY <1>1
<1>5. \A i \in 1 .. Len(kept) : out[i] = [report |-> kept[i].report, needs |-> kept[i].needs \ packages]
  BY <1>3, <1>4 DEF Entry
<1>6. \A i \in 1 .. Len(kept) : out[i] \in Entry
  <2> SUFFICES ASSUME NEW i \in 1 .. Len(kept) PROVE out[i] \in Entry
    OBVIOUS
  <2>1. kept[i].report \in Report /\ kept[i].needs \subseteq Package
    BY <1>4 DEF Entry
  <2>2. kept[i].needs \ packages \subseteq Package
    BY <2>1
  <2>3. out[i] = [report |-> kept[i].report, needs |-> kept[i].needs \ packages]
    BY <1>5
  <2> QED
    BY <2>1, <2>2, <2>3 DEF Entry
<1>7. out \in Seq(Entry) /\ Len(out) = Len(kept)
  BY <1>3, <1>4, <1>6
<1>8. Pruned(entries, packages, out, at)
  <2>1. \A i \in 1 .. Len(kept) : kept[i] = entries[at[i]] /\ PackageOf[kept[i].report] \notin packages
    BY <1>2 DEF Picked
  <2>2. \A i, j \in 1 .. Len(kept) : at[i] = at[j] => i = j
    <3> SUFFICES ASSUME NEW i \in 1 .. Len(kept), NEW j \in 1 .. Len(kept), i < j
                 PROVE  at[i] # at[j]
      BY <1>4
    <3>1. at[i] < at[j] /\ at[i] \in 1 .. Len(entries) /\ at[j] \in 1 .. Len(entries)
      BY <1>2 DEF Picked
    <3> QED
      BY <3>1
  <2>3. at \in [1 .. Len(out) -> 1 .. Len(entries)]
    BY <1>2, <1>7 DEF Picked
  <2> QED
    BY <1>5, <1>7, <2>1, <2>2, <2>3 DEF Pruned
<1> QED
  BY <1>7, <1>8 DEF out

\* What waits: a report with the needs that history does not fulfil.
LaterOf(reports, history, later, at) ==
    /\ at \in [1 .. Len(later) -> 1 .. Len(reports)]
    /\ \A i \in 1 .. Len(later) :
           /\ later[i] = [report |-> reports[at[i]], needs |-> Needs[reports[at[i]]] \ history]
           /\ PackageOf[reports[at[i]]] \notin history
    /\ \A i, j \in 1 .. Len(later) : at[i] = at[j] => i = j

LEMMA LaterFacts ==
  ASSUME NEW reports \in Seq(Report), NEW history
  PROVE  /\ ToAccumulateLater(reports, history) \in Seq(Entry)
         /\ \E at : LaterOf(reports, history, ToAccumulateLater(reports, history), at)
<1> DEFINE needy == {r \in Report : Needs[r] # {}}
           waiting == Those(reports, needy)
           entries == [i \in DOMAIN waiting |-> [report |-> waiting[i], needs |-> Needs[waiting[i]]]]
           later == ToAccumulateLater(reports, history)
<1>1. waiting \in Seq(Report)
  BY ThoseArePicked
<1>2. PICK at : Picked(reports, needy, Len(reports), waiting, at)
  BY ThoseArePicked
<1>3. later = PruneQueue(entries, history)
  BY DEF ToAccumulateLater
<1> HIDE DEF waiting, later
<1>4. DOMAIN waiting = 1 .. Len(waiting) /\ Len(waiting) \in Nat
      /\ \A i \in 1 .. Len(waiting) : waiting[i] \in Report
  BY <1>1
<1>5. \A i \in 1 .. Len(waiting) : entries[i] = [report |-> waiting[i], needs |-> Needs[waiting[i]]]
  BY <1>4
<1>6. \A i \in 1 .. Len(waiting) : entries[i] \in Entry
  BY <1>4, <1>5, ReportAssumption DEF Entry
<1>7. entries \in Seq(Entry) /\ Len(entries) = Len(waiting)
  BY <1>4, <1>6
<1> HIDE DEF entries
<1>8. later \in Seq(Entry)
  BY <1>3, <1>7, PruneFacts
<1>9. PICK bt : Pruned(entries, history, later, bt)
  BY <1>3, <1>7, PruneFacts
<1>10. Len(later) \in Nat /\ bt \in [1 .. Len(later) -> 1 .. Len(waiting)]
  BY <1>7, <1>8, <1>9 DEF Pruned
<1> DEFINE ct == [i \in 1 .. Len(later) |-> at[bt[i]]]
<1>11. at \in [1 .. Len(waiting) -> 1 .. Len(reports)]
  BY <1>2 DEF Picked
<1>12. ct \in [1 .. Len(later) -> 1 .. Len(reports)] /\ \A i \in 1 .. Len(later) : ct[i] = at[bt[i]]
  BY <1>10, <1>11
<1> HIDE DEF ct
<1>13. ASSUME NEW i \in 1 .. Len(later)
       PROVE  /\ later[i] = [report |-> reports[ct[i]], needs |-> Needs[reports[ct[i]]] \ history]
              /\ PackageOf[reports[ct[i]]] \notin history
  <2>1. bt[i] \in 1 .. Len(waiting) /\ ct[i] = at[bt[i]]
    BY <1>10, <1>12
  <2>2. waiting[bt[i]] = reports[ct[i]]
    BY <2>1, <1>2 DEF Picked
  <2>3. entries[bt[i]] = [report |-> reports[ct[i]], needs |-> Needs[reports[ct[i]]]]
    BY <2>1, <2>2, <1>5
  <2>4. later[i] = [report |-> entries[bt[i]].report, needs |-> entries[bt[i]].needs \ history]
        /\ PackageOf[entries[bt[i]].report] \notin history
    BY <1>9 DEF Pruned
  <2> QED
    BY <2>3, <2>4
<1>14. ASSUME NEW i \in 1 .. Len(waiting), NEW j \in 1 .. Len(waiting), at[i] = at[j] PROVE i = j
  <2>1. i < j => at[i] < at[j]
    BY <1>2 DEF Picked
  <2>2. j < i => at[j] < at[i]
    BY <1>2 DEF Picked
  <2>3. at[i] \in Nat /\ at[j] \in Nat /\ i \in Nat /\ j \in Nat
    BY <1>11
  <2> QED
    BY <2>1, <2>2, <2>3, <1>14
<1>15. ASSUME NEW i \in 1 .. Len(later), NEW j \in 1 .. Len(later), ct[i] = ct[j] PROVE i = j
  <2>1. bt[i] = bt[j]
    <3>1. bt[i] \in 1 .. Len(waiting) /\ bt[j] \in 1 .. Len(waiting)
      BY <1>10
    <3>2. at[bt[i]] = at[bt[j]]
      BY <1>12, <1>15
    <3> QED
      BY <3>1, <3>2, <1>14
  <2> QED
    BY <2>1, <1>9 DEF Pruned
<1> QED
  <2>1. LaterOf(reports, history, later, ct)
    BY <1>12, <1>13, <1>15 DEF LaterOf
  <2> QED
    BY <1>8, <2>1 DEF later

\* What is ready: the reports of entries without needs.
LEMMA ReadyFacts ==
  ASSUME NEW entries \in Seq(Entry)
  PROVE  /\ Ready(entries) \in Seq(Report)
         /\ \A i \in 1 .. Len(Ready(entries)) :
                \E e \in ToSet(entries) : e.needs = {} /\ Ready(entries)[i] = e.report
<1> DEFINE free == {e \in ToSet(entries) : e.needs = {}}
           kept == Those(entries, free)
           ready == Ready(entries)
<1>1. kept \in Seq(Entry)
  BY ThoseArePicked
<1>2. PICK at : Picked(entries, free, Len(entries), kept, at)
  BY ThoseArePicked
<1>3. ready = [i \in DOMAIN kept |-> kept[i].report]
  BY DEF Ready
<1> HIDE DEF kept, ready
<1>4. DOMAIN kept = 1 .. Len(kept) /\ Len(kept) \in Nat
      /\ \A i \in 1 .. Len(kept) : kept[i] \in Entry /\ kept[i] \in free
  BY <1>1, <1>2 DEF Picked
<1>5. \A i \in 1 .. Len(kept) : ready[i] = kept[i].report /\ kept[i].report \in Report
  BY <1>3, <1>4 DEF Entry
<1>6. ready \in Seq(Report) /\ Len(ready) = Len(kept)
  BY <1>3, <1>4, <1>5
<1> QED
  BY <1>4, <1>5, <1>6 DEF ready

(* The order of accumulation *)

\* Every report comes after what it needs, unless that is done.
Ordered(done, s) ==
    \A i \in 1 .. Len(s) : Needs[s[i]] \subseteq done \cup {PackageOf[s[j]] : j \in 1 .. (i - 1)}

LEMMA OrderedConcat ==
  ASSUME NEW s \in Seq(Report), NEW t \in Seq(Report), NEW done,
         Ordered(done, s), Ordered(done \cup Packages(s), t)
  PROVE  Ordered(done, s \o t)
<1>1. /\ DOMAIN s = 1 .. Len(s) /\ Len(s) \in Nat /\ Len(t) \in Nat
      /\ Len(s \o t) = Len(s) + Len(t)
  OBVIOUS
<1>2. \A i \in 1 .. Len(s) : (s \o t)[i] = s[i]
  OBVIOUS
<1>3. \A i \in 1 .. Len(t) : (s \o t)[Len(s) + i] = t[i]
  OBVIOUS
<1> DEFINE st == s \o t
<1> HIDE DEF st
<1>4. SUFFICES ASSUME NEW i \in 1 .. Len(s) + Len(t)
               PROVE  Needs[st[i]] \subseteq done \cup {PackageOf[st[j]] : j \in 1 .. (i - 1)}
  BY <1>1 DEF Ordered, st
<1>5. CASE i <= Len(s)
  <2>1. i \in 1 .. Len(s) /\ \A j \in 1 .. (i - 1) : j \in 1 .. Len(s)
    BY <1>1, <1>5
  <2>2. {PackageOf[s[j]] : j \in 1 .. (i - 1)} = {PackageOf[st[j]] : j \in 1 .. (i - 1)}
    BY <1>2, <2>1 DEF st
  <2> QED
    BY <1>2, <2>1, <2>2 DEF st, Ordered
<1>6. CASE i > Len(s)
  <2> DEFINE k == i - Len(s)
  <2>1. k \in 1 .. Len(t) /\ i = Len(s) + k
    BY <1>1, <1>6
  <2>2. st[i] = t[k]
    BY <1>3, <2>1 DEF st
  <2>3. Needs[t[k]] \subseteq done \cup Packages(s) \cup {PackageOf[t[j]] : j \in 1 .. (k - 1)}
    BY <2>1 DEF Ordered
  <2>4. ASSUME NEW j \in 1 .. Len(s) PROVE PackageOf[s[j]] \in {PackageOf[st[m]] : m \in 1 .. (i - 1)}
    <3>1. j \in 1 .. (i - 1) /\ st[j] = s[j]
      BY <1>1, <1>2, <1>6 DEF st
    <3> QED
      BY <3>1
  <2>5. ASSUME NEW j \in 1 .. (k - 1) PROVE PackageOf[t[j]] \in {PackageOf[st[m]] : m \in 1 .. (i - 1)}
    <3>1. Len(s) + j \in 1 .. (i - 1) /\ j \in 1 .. Len(t)
      BY <1>1, <2>1
    <3>2. st[Len(s) + j] = t[j]
      BY <1>3, <3>1 DEF st
    <3> QED
      BY <3>1, <3>2
  <2>6. Packages(s) \subseteq {PackageOf[st[m]] : m \in 1 .. (i - 1)}
    BY <1>1, <2>4 DEF Packages, ToSet
  <2> HIDE DEF k
  <2>7. {PackageOf[t[j]] : j \in 1 .. (k - 1)} \subseteq {PackageOf[st[m]] : m \in 1 .. (i - 1)}
    BY <2>5
  <2> QED
    BY <2>2, <2>3, <2>6, <2>7
<1> QED
  BY <1>1, <1>5, <1>6

LEMMA OrderedPrefix ==
  ASSUME NEW s \in Seq(Report), NEW done, NEW n \in 0 .. Len(s), Ordered(done, s)
  PROVE  Ordered(done, SubSeq(s, 1, n))
<1> DEFINE p == SubSeq(s, 1, n)
<1>1. Len(p) = n /\ \A i \in 1 .. n : p[i] = s[i]
  BY Elements
<1> HIDE DEF p
<1>2. ASSUME NEW i \in 1 .. n
      PROVE  Needs[p[i]] \subseteq done \cup {PackageOf[p[j]] : j \in 1 .. (i - 1)}
  <2>1. i \in 1 .. Len(s) /\ \A j \in 1 .. (i - 1) : j \in 1 .. n
    OBVIOUS
  <2>2. {PackageOf[p[j]] : j \in 1 .. (i - 1)} = {PackageOf[s[j]] : j \in 1 .. (i - 1)}
    BY <1>1, <2>1
  <2> QED
    BY <1>1, <2>1, <2>2 DEF Ordered
<1> QED
  BY <1>1, <1>2 DEF Ordered, p

\* The needs of an entry that are not open are done.
Met(done, entries) == \A e \in ToSet(entries) : Needs[e.report] \subseteq e.needs \cup done

\* What pruning leaves are entries of other packages.
LEMMA PrunedStay ==
  ASSUME NEW entries \in Seq(Entry), NEW packages, NEW e \in ToSet(PruneQueue(entries, packages))
  PROVE  /\ PackageOf[e.report] \notin packages
         /\ \E f \in ToSet(entries) : f.report = e.report /\ e.needs = f.needs \ packages
<1> DEFINE kept == PruneQueue(entries, packages)
<1>1. kept \in Seq(Entry)
  BY PruneFacts
<1>2. PICK at : Pruned(entries, packages, kept, at)
  BY PruneFacts
<1> HIDE DEF kept
<1>3. PICK i \in 1 .. Len(kept) : e = kept[i]
  BY <1>1 DEF ToSet, kept
<1>4. at[i] \in 1 .. Len(entries) /\ entries[at[i]] \in ToSet(entries)
  BY <1>2 DEF Pruned, ToSet
<1>5. e = [report |-> entries[at[i]].report, needs |-> entries[at[i]].needs \ packages]
      /\ PackageOf[entries[at[i]].report] \notin packages
  BY <1>2, <1>3 DEF Pruned
<1> QED
  BY <1>4, <1>5

\* Pruning the queue makes what was pruned done.
LEMMA PrunedAreMet ==
  ASSUME NEW entries \in Seq(Entry), NEW done, NEW packages, Met(done, entries)
  PROVE  Met(done \cup packages, PruneQueue(entries, packages))
<1>1. ASSUME NEW e \in ToSet(PruneQueue(entries, packages))
      PROVE  Needs[e.report] \subseteq e.needs \cup (done \cup packages)
  <2>1. PICK f \in ToSet(entries) : f.report = e.report /\ e.needs = f.needs \ packages
    BY PrunedStay
  <2>2. Needs[f.report] \subseteq f.needs \cup done
    BY DEF Met
  <2> QED
    BY <2>1, <2>2
<1> QED
  BY <1>1 DEF Met

\* What is ready needs only what is done.
LEMMA ReadyIsOrdered ==
  ASSUME NEW entries \in Seq(Entry), NEW done, Met(done, entries)
  PROVE  /\ Ordered(done, Ready(entries))
         /\ \A r \in ToSet(Ready(entries)) : \E e \in ToSet(entries) : r = e.report
<1>1. Ready(entries) \in Seq(Report)
  BY ReadyFacts
<1>2. ASSUME NEW i \in 1 .. Len(Ready(entries))
      PROVE  /\ Needs[Ready(entries)[i]] \subseteq done
             /\ \E e \in ToSet(entries) : Ready(entries)[i] = e.report
  <2>1. PICK e \in ToSet(entries) : Ready(entries)[i] = e.report /\ e.needs = {}
    BY ReadyFacts
  <2>2. Needs[e.report] \subseteq e.needs \cup done
    BY DEF Met
  <2> QED
    BY <2>1, <2>2
<1> QED
  BY <1>1, <1>2 DEF Ordered, ToSet

Rounds == [result : Seq(Report), open : Seq(Entry)]

NextRound(x) ==
    [result |-> x.result \o Ready(x.open),
     open |-> PruneQueue(x.open, Packages(Ready(x.open)))]

\* What a round keeps: the order, the needs of what is open, and the reports.
RoundOK(entries, done, x) ==
    /\ x \in Rounds
    /\ Ordered(done, x.result)
    /\ Met(done \cup Packages(x.result), x.open)
    /\ \A r \in ToSet(x.result) : \E e \in ToSet(entries) : r = e.report
    /\ \A f \in ToSet(x.open) : \E e \in ToSet(entries) : f.report = e.report

LEMMA RoundKeeps ==
  ASSUME NEW entries \in Seq(Entry), NEW done, NEW x, RoundOK(entries, done, x)
  PROVE  RoundOK(entries, done, NextRound(x))
<1> DEFINE result == x.result
           open == x.open
           ready == Ready(open)
           more == result \o ready
           rest == PruneQueue(open, Packages(ready))
<1>1. /\ result \in Seq(Report) /\ open \in Seq(Entry)
      /\ Ordered(done, result) /\ Met(done \cup Packages(result), open)
      /\ \A r \in ToSet(result) : \E e \in ToSet(entries) : r = e.report
      /\ \A f \in ToSet(open) : \E e \in ToSet(entries) : f.report = e.report
  BY DEF RoundOK, Rounds
<1>2. NextRound(x) = [result |-> more, open |-> rest]
  BY DEF NextRound
<1> HIDE DEF result, open
<1>3. ready \in Seq(Report)
  BY <1>1, ReadyFacts
<1>4. Ordered(done \cup Packages(result), ready)
      /\ \A r \in ToSet(ready) : \E e \in ToSet(open) : r = e.report
  BY <1>1, ReadyIsOrdered
<1> HIDE DEF ready
<1>5. more \in Seq(Report) /\ ToSet(more) = ToSet(result) \cup ToSet(ready)
  <2>1. 0 \in 0 .. Len(result)
    BY <1>1
  <2> QED
    BY <1>1, <1>3, <2>1, Elements
<1>6. Packages(more) = Packages(result) \cup Packages(ready)
  BY <1>5 DEF Packages
<1>7. Ordered(done, more)
  BY <1>1, <1>3, <1>4, OrderedConcat
<1>8. rest \in Seq(Entry)
  BY <1>1, PruneFacts
<1>9. /\ Met((done \cup Packages(result)) \cup Packages(ready), rest)
      /\ \A f \in ToSet(rest) : \E e \in ToSet(open) : f.report = e.report
  <2> DEFINE d == done \cup Packages(result)
             p == Packages(ready)
  <2>1. Met(d, open)
    BY <1>1
  <2> HIDE DEF d, p
  <2>2. Met(d \cup p, PruneQueue(open, p))
    BY <1>1, <2>1, PrunedAreMet
  <2>3. \A f \in ToSet(PruneQueue(open, p)) : \E e \in ToSet(open) : f.report = e.report
    <3> SUFFICES ASSUME NEW f \in ToSet(PruneQueue(open, p))
                 PROVE  \E e \in ToSet(open) : f.report = e.report
      OBVIOUS
    <3>1. \E e \in ToSet(open) : e.report = f.report /\ f.needs = e.needs \ p
      BY <1>1, PrunedStay
    <3> QED
      BY <3>1
  <2> QED
    BY <2>2, <2>3 DEF d, p
<1> HIDE DEF more, rest
<1>10. Met(done \cup Packages(more), rest)
  <2>1. (done \cup Packages(result)) \cup Packages(ready) = done \cup Packages(more)
    BY <1>6
  <2> QED
    BY <1>9, <2>1
<1>11. \A r \in ToSet(more) : \E e \in ToSet(entries) : r = e.report
  BY <1>1, <1>4, <1>5
<1>12. \A f \in ToSet(rest) : \E e \in ToSet(entries) : f.report = e.report
  BY <1>1, <1>9
<1>13. NextRound(x).result = more /\ NextRound(x).open = rest /\ NextRound(x) \in Rounds
  BY <1>2, <1>5, <1>8 DEF Rounds
<1> QED
  BY <1>7, <1>10, <1>11, <1>12, <1>13 DEF RoundOK

EnqueueStep(entries, f) ==
    f = [n \in 0 .. Len(entries) |->
            IF n = 0 THEN [result |-> <<>>, open |-> entries] ELSE NextRound(f[n - 1])]

\* What leaves the queue is ordered, when what no entry waits for is done.
LEMMA EnqueueFacts ==
  ASSUME NEW entries \in Seq(Entry), NEW done, Met(done, entries)
  PROVE  /\ EnqueueReports(entries) \in Seq(Report)
         /\ Ordered(done, EnqueueReports(entries))
         /\ \A r \in ToSet(EnqueueReports(entries)) : \E e \in ToSet(entries) : r = e.report
<1> DEFINE N == Len(entries)
           base == [result |-> <<>>, open |-> entries]
           step == [p \in (1 .. N) \X Rounds |-> NextRound(p[2])]
           h == CHOOSE f : EnqueueStep(entries, f)
<1>1. N \in Nat /\ base \in Rounds
  BY DEF Rounds
<1>2. ASSUME NEW x \in Rounds PROVE NextRound(x) \in Rounds
  <2>1. x.result \in Seq(Report) /\ x.open \in Seq(Entry)
    BY DEF Rounds
  <2>2. Ready(x.open) \in Seq(Report)
    BY <2>1, ReadyFacts
  <2>3. x.result \o Ready(x.open) \in Seq(Report)
    BY <2>1, <2>2
  <2>4. PruneQueue(x.open, Packages(Ready(x.open))) \in Seq(Entry)
    BY <2>1, PruneFacts
  <2> QED
    BY <2>3, <2>4 DEF Rounds, NextRound
<1>3. step \in [(1 .. N) \X Rounds -> Rounds]
  BY <1>2
<1>4. PICK f \in [0 .. N -> Rounds] : Steps(N, base, step, f)
  <2> HIDE DEF step, N, base
  <2> QED
    BY <1>1, <1>3, StepsExist
<1>5. EnqueueStep(entries, f)
  <2>1. \A n \in 0 .. N : f[n] = IF n = 0 THEN base ELSE step[<<n, f[n - 1]>>]
    BY <1>4 DEF Steps
  <2>2. \A n \in 1 .. N : f[n - 1] \in Rounds
    BY <1>1
  <2>3. \A n \in 1 .. N : step[<<n, f[n - 1]>>] = NextRound(f[n - 1])
    BY <2>2
  <2>4. \A n \in 0 .. N : n = 0 \/ n \in 1 .. N
    BY <1>1
  <2>5. f = [n \in 0 .. N |-> f[n]]
    OBVIOUS
  <2>6. \A n \in 0 .. N : f[n] = IF n = 0 THEN base ELSE NextRound(f[n - 1])
    <3> HIDE DEF step, N, base
    <3> QED
      BY <2>1, <2>3, <2>4, Zenon
  <2> HIDE DEF step
  <2> QED
    BY <2>5, <2>6 DEF EnqueueStep
<1>6. EnqueueStep(entries, h)
  BY <1>5
<1> HIDE DEF h, step
<1>7. \A n \in 0 .. N : h[n] = IF n = 0 THEN base ELSE NextRound(h[n - 1])
  BY <1>6 DEF EnqueueStep
<1> DEFINE X == {n \in 0 .. N : RoundOK(entries, done, h[n])}
<1>8. 0 \in X
  <2>1. h[0] = base
    BY <1>1, <1>7
  <2>2. base.result = <<>> /\ base.open = entries
    OBVIOUS
  <2>3. ToSet(<<>>) = {} /\ Ordered(done, <<>>) /\ <<>> \in Seq(Report)
    BY DEF ToSet, Ordered
  <2>4. Packages(<<>>) = {}
    BY <2>3 DEF Packages
  <2>5. Met(done \cup Packages(<<>>), entries)
    BY <2>4 DEF Met
  <2> HIDE DEF base
  <2>6. RoundOK(entries, done, base)
    BY <1>1, <2>2, <2>3, <2>5 DEF RoundOK
  <2> QED
    BY <1>1, <2>1, <2>6
<1>9. ASSUME NEW n \in 1 .. N, n - 1 \in X PROVE n \in X
  <2>1. RoundOK(entries, done, h[n - 1])
    BY <1>9
  <2>2. n \in 0 .. N /\ n # 0
    BY <1>1
  <2>3. h[n] = NextRound(h[n - 1])
    BY <1>7, <2>2
  <2> QED
    BY <2>1, <2>2, <2>3, RoundKeeps
<1>10. 0 .. N \subseteq X
  <2> HIDE DEF X, N
  <2> QED
    BY <1>1, <1>8, <1>9, CountingUp
<1>11. EnqueueReports(entries) = h[N].result
  BY DEF EnqueueReports, h, EnqueueStep, NextRound
<1>12. RoundOK(entries, done, h[N])
  <2>1. N \in 0 .. N
    BY <1>1
  <2> HIDE DEF N
  <2> QED
    BY <1>10, <2>1
<1> QED
  BY <1>11, <1>12 DEF RoundOK, Rounds

(* The gas of a block *)

GasStep(reports, f) ==
    f = [n \in 0 .. Len(reports) |-> IF n = 0 THEN 0 ELSE f[n - 1] + GasOf[reports[n]]]

LEMMA GasFacts ==
  ASSUME NEW reports \in Seq(Report)
  PROVE  /\ GasUpTo(reports) \in [0 .. Len(reports) -> Nat]
         /\ GasUpTo(reports)[0] = 0
         /\ \A n \in 1 .. Len(reports) :
                GasUpTo(reports)[n] = GasUpTo(reports)[n - 1] + GasOf[reports[n]]
<1> DEFINE N == Len(reports)
           step == [p \in (1 .. N) \X Nat |-> p[2] + GasOf[reports[p[1]]]]
           h == CHOOSE f : GasStep(reports, f)
<1>1. N \in Nat /\ \A n \in 1 .. N : reports[n] \in Report /\ GasOf[reports[n]] \in Nat
  BY ReportAssumption
<1>2. step \in [(1 .. N) \X Nat -> Nat]
  BY <1>1
<1>3. PICK f \in [0 .. N -> Nat] : Steps(N, 0, step, f)
  <2>1. 0 \in Nat
    OBVIOUS
  <2> HIDE DEF step, N
  <2> QED
    BY <1>1, <1>2, <2>1, StepsExist
<1>4. GasStep(reports, f)
  <2>1. \A n \in 0 .. N : f[n] = IF n = 0 THEN 0 ELSE step[<<n, f[n - 1]>>]
    BY <1>3 DEF Steps
  <2>2. \A n \in 1 .. N : f[n - 1] \in Nat
    <3>1. N \in Nat /\ f \in [0 .. N -> Nat]
      BY <1>1
    <3>2. \A n \in 1 .. N : n - 1 \in 0 .. N
      BY <1>1
    <3> HIDE DEF step, N
    <3> QED
      BY <3>1, <3>2
  <2>3. \A n \in 1 .. N : step[<<n, f[n - 1]>>] = f[n - 1] + GasOf[reports[n]]
    <3> SUFFICES ASSUME NEW n \in 1 .. N
                 PROVE  step[<<n, f[n - 1]>>] = f[n - 1] + GasOf[reports[n]]
      OBVIOUS
    <3> DEFINE p == <<n, f[n - 1]>>
    <3>1. p \in (1 .. N) \X Nat /\ p[1] = n /\ p[2] = f[n - 1]
      BY <2>2
    <3>2. step[p] = p[2] + GasOf[reports[p[1]]]
      BY <3>1
    <3> QED
      BY <3>1, <3>2
  <2>4. \A n \in 0 .. N : n = 0 \/ n \in 1 .. N
    BY <1>1
  <2>5. f = [n \in 0 .. N |-> f[n]]
    OBVIOUS
  <2>6. \A n \in 0 .. N : f[n] = IF n = 0 THEN 0 ELSE f[n - 1] + GasOf[reports[n]]
    <3> HIDE DEF step, N
    <3> QED
      BY <2>1, <2>3, <2>4, Zenon
  <2> HIDE DEF step
  <2> QED
    BY <2>5, <2>6 DEF GasStep
<1>5. GasStep(reports, h)
  BY <1>4
<1>6. GasUpTo(reports) = h
  BY DEF GasUpTo, h, GasStep
<1> HIDE DEF h, step
<1>7. h = [n \in 0 .. N |-> IF n = 0 THEN 0 ELSE h[n - 1] + GasOf[reports[n]]]
  BY <1>5 DEF GasStep
<1>8. h[0] = 0 /\ \A n \in 1 .. N : h[n] = h[n - 1] + GasOf[reports[n]]
  <2>1. \A n \in 0 .. N : h[n] = IF n = 0 THEN 0 ELSE h[n - 1] + GasOf[reports[n]]
    BY <1>7
  <2> QED
    BY <1>1, <2>1
<1> DEFINE X == {n \in 0 .. N : h[n] \in Nat}
<1>9. 0 \in X
  BY <1>1, <1>8
<1>10. ASSUME NEW n \in 1 .. N, n - 1 \in X PROVE n \in X
  <2>1. h[n - 1] \in Nat /\ n \in 0 .. N
    BY <1>1, <1>10
  <2>2. h[n] = h[n - 1] + GasOf[reports[n]] /\ GasOf[reports[n]] \in Nat
    BY <1>1, <1>8
  <2>3. h[n] \in Nat
    BY <2>1, <2>2
  <2> QED
    BY <2>1, <2>3
<1>11. 0 .. N \subseteq X
  <2> HIDE DEF X, N
  <2> QED
    BY <1>1, <1>9, <1>10, CountingUp
<1>12. DOMAIN h = 0 .. N
  BY <1>7
<1>13. h = [n \in 0 .. N |-> h[n]]
  BY <1>7, <1>12
<1>14. h \in [0 .. N -> Nat]
  BY <1>11, <1>13
<1> QED
  BY <1>6, <1>8, <1>14

\* There is a number of reports that fit and of which one more would not.
LEMMA CutoffFacts ==
  ASSUME NEW reports \in Seq(Report), NEW gas \in Nat
  PROVE  /\ Cutoff(gas, reports) \in 0 .. Len(reports)
         /\ Cutoff(gas, reports) < Len(reports) => GasUpTo(reports)[Cutoff(gas, reports) + 1] > gas
<1> DEFINE N == Len(reports)
           g == GasUpTo(reports)
           T == {n \in 0 .. N : g[n] > gas}
           Fits(n) == g[n] <= gas /\ (n < N => g[n + 1] > gas)
<1>1. N \in Nat /\ g \in [0 .. N -> Nat] /\ g[0] = 0
  BY GasFacts
<1> HIDE DEF g, N
<1>2. \E n \in 0 .. N : Fits(n)
  <2>1. CASE T = {}
    <3>1. N \in 0 .. N /\ g[N] \in Nat /\ ~(g[N] > gas)
      BY <1>1, <2>1
    <3>2. g[N] <= gas
      BY <3>1
    <3> QED
      BY <1>1, <3>1, <3>2
  <2>2. CASE T # {}
    <3>1. T \subseteq Nat
      BY <1>1
    <3>2. PICK n \in T : \A m \in T : n <= m
      <4> HIDE DEF T
      <4> QED
        BY <2>2, <3>1, LeastNumber
    <3>3. n \in 1 .. N
      BY <1>1
    <3>4. n - 1 \in 0 .. N /\ ~(n <= n - 1) /\ g[n - 1] \in Nat
      BY <1>1, <3>3
    <3>5. n - 1 \notin T
      BY <3>2, <3>4
    <3>6. g[n - 1] <= gas
      BY <3>4, <3>5
    <3>7. g[(n - 1) + 1] > gas
      BY <3>3
    <3> QED
      BY <3>4, <3>6, <3>7
  <2> QED
    BY <2>1, <2>2
<1>3. Cutoff(gas, reports) = CHOOSE n \in 0 .. N : Fits(n)
  BY DEF Cutoff, g, N
<1>4. Cutoff(gas, reports) \in 0 .. N /\ Fits(Cutoff(gas, reports))
  BY <1>2, <1>3
<1> QED
  BY <1>4 DEF g, N

\* Reports that each keep to a limit ask for no more than so many times the limit.
LEMMA GasIsBounded ==
  ASSUME NEW reports \in Seq(Report), NEW limit \in Nat, NEW k \in 0 .. Len(reports),
         \A i \in 1 .. k : GasOf[reports[i]] <= limit
  PROVE  \A n \in 0 .. k : GasUpTo(reports)[n] <= limit * n
<1> DEFINE g == GasUpTo(reports)
           X == {n \in 0 .. k : g[n] <= limit * n}
<1>1. /\ Len(reports) \in Nat /\ k \in Nat /\ g \in [0 .. Len(reports) -> Nat] /\ g[0] = 0
      /\ \A n \in 1 .. Len(reports) : g[n] = g[n - 1] + GasOf[reports[n]]
  BY GasFacts
<1> HIDE DEF g
<1>2. 0 \in X
  BY <1>1
<1>3. ASSUME NEW n \in 1 .. k, n - 1 \in X PROVE n \in X
  <2>1. n \in 1 .. Len(reports) /\ n - 1 \in 0 .. Len(reports) /\ reports[n] \in Report
    BY <1>1
  <2>2. g[n] = g[n - 1] + GasOf[reports[n]] /\ GasOf[reports[n]] <= limit
    BY <1>1, <2>1
  <2>3. g[n - 1] <= limit * (n - 1)
    BY <1>3
  <2>4. GasOf[reports[n]] \in Nat /\ g[n - 1] \in Nat
    BY <1>1, <2>1, ReportAssumption
  <2>7. limit * (n - 1) \in Int
    <3>1. n - 1 \in Int
      BY <2>1
    <3> QED
      BY <3>1
  <2>5. limit * n = limit * (n - 1) + limit
    BY <1>1
  <2>6. g[n] <= limit * n
    BY <2>2, <2>3, <2>4, <2>5, <2>7
  <2> QED
    BY <2>6, <1>1
<1>4. 0 .. k \subseteq X
  <2> HIDE DEF X
  <2> QED
    BY <1>1, <1>2, <1>3, CountingUp
<1> QED
  BY <1>4 DEF g

(* The queue of a block *)

QueueStep(s, f) ==
    f = [n \in 0 .. EpochLength |->
            IF n = 0 THEN <<>> ELSE f[n - 1] \o queue[(s + n - 1) % EpochLength]]

LEMMA QueueFacts ==
  ASSUME queue \in [Phase -> Seq(Entry)], NEW s \in Nat
  PROVE  /\ QueueFromState(s) \in Seq(Entry)
         /\ \A e \in ToSet(QueueFromState(s)) : \E p \in Phase : e \in ToSet(queue[p])
<1> DEFINE N == EpochLength
           step == [p \in (1 .. N) \X Seq(Entry) |-> p[2] \o queue[(s + p[1] - 1) % N]]
           h == CHOOSE f : QueueStep(s, f)
<1>1. N \in Nat \ {0}
  BY SpecAssumption
<1>2. ASSUME NEW n \in 1 .. N PROVE (s + n - 1) % N \in Phase
  <2>1. s + n - 1 \in Nat
    BY <1>1
  <2> QED
    BY <1>1, <2>1 DEF Phase
<1>3. \A n \in 1 .. N : queue[(s + n - 1) % N] \in Seq(Entry)
  BY <1>2
<1>4. step \in [(1 .. N) \X Seq(Entry) -> Seq(Entry)]
  BY <1>3
<1>5. PICK f \in [0 .. N -> Seq(Entry)] : Steps(N, <<>>, step, f)
  <2>1. <<>> \in Seq(Entry)
    OBVIOUS
  <2> HIDE DEF step, N
  <2> QED
    BY <1>1, <1>4, <2>1, StepsExist
<1>6. QueueStep(s, f)
  <2>1. \A n \in 0 .. N : f[n] = IF n = 0 THEN <<>> ELSE step[<<n, f[n - 1]>>]
    BY <1>5 DEF Steps
  <2>2. \A n \in 1 .. N : f[n - 1] \in Seq(Entry)
    BY <1>1
  <2>3. \A n \in 1 .. N : step[<<n, f[n - 1]>>] = f[n - 1] \o queue[(s + n - 1) % N]
    BY <2>2
  <2>4. \A n \in 0 .. N : n = 0 \/ n \in 1 .. N
    BY <1>1
  <2>5. f = [n \in 0 .. N |-> f[n]]
    OBVIOUS
  <2>6. \A n \in 0 .. N : f[n] = IF n = 0 THEN <<>> ELSE f[n - 1] \o queue[(s + n - 1) % N]
    <3> HIDE DEF step, N
    <3> QED
      BY <2>1, <2>3, <2>4, Zenon
  <2> HIDE DEF step
  <2> QED
    BY <2>5, <2>6 DEF QueueStep
<1>7. QueueStep(s, h)
  BY <1>6
<1>8. QueueFromState(s) = h[N]
  BY DEF QueueFromState, h, QueueStep
<1> HIDE DEF h, step
<1>9. h[0] = <<>> /\ \A n \in 1 .. N : h[n] = h[n - 1] \o queue[(s + n - 1) % N]
  <2>1. \A n \in 0 .. N : h[n] = IF n = 0 THEN <<>> ELSE h[n - 1] \o queue[(s + n - 1) % N]
    BY <1>7 DEF QueueStep
  <2>2. 0 \in 0 .. N /\ \A n \in 1 .. N : n \in 0 .. N /\ n # 0
    BY <1>1
  <2> HIDE DEF N
  <2> QED
    BY <2>1, <2>2, Zenon
<1> DEFINE Good(x) == x \in Seq(Entry) /\ \A e \in ToSet(x) : \E p \in Phase : e \in ToSet(queue[p])
           X == {n \in 0 .. N : Good(h[n])}
<1>10. 0 \in X
  <2>1. ToSet(<<>>) = {} /\ <<>> \in Seq(Entry)
    BY DEF ToSet
  <2>2. Good(h[0])
    BY <1>9, <2>1
  <2> HIDE DEF Good
  <2> QED
    BY <1>1, <2>2
<1>11. ASSUME NEW n \in 1 .. N, n - 1 \in X PROVE n \in X
  <2> DEFINE x == h[n - 1]
             y == queue[(s + n - 1) % N]
  <2>1. Good(x) /\ y \in Seq(Entry) /\ (s + n - 1) % N \in Phase /\ n \in 0 .. N /\ h[n] = x \o y
    <3>1. Good(x)
      BY <1>11
    <3>2. y \in Seq(Entry) /\ (s + n - 1) % N \in Phase
      BY <1>2, <1>3
    <3>3. h[n] = x \o y
      BY <1>9, Zenon
    <3>4. n \in 0 .. N
      BY <1>1
    <3> HIDE DEF Good, x, y, N
    <3> QED
      BY <3>1, <3>2, <3>3, <3>4
  <2>2. x \o y \in Seq(Entry) /\ ToSet(x \o y) = ToSet(x) \cup ToSet(y)
    <3> HIDE DEF x, y
    <3>1. 0 \in 0 .. Len(x)
      BY <2>1
    <3> QED
      BY <2>1, <3>1, Elements
  <2>3. Good(h[n])
    BY <2>1, <2>2
  <2> HIDE DEF Good
  <2> QED
    BY <2>1, <2>3
<1>12. 0 .. N \subseteq X
  <2> HIDE DEF X, N
  <2> QED
    BY <1>1, <1>10, <1>11, CountingUp
<1>13. Good(h[N])
  <2>1. N \in 0 .. N
    BY <1>1
  <2> HIDE DEF N
  <2> QED
    BY <1>12, <2>1
<1> QED
  BY <1>8, <1>13

\* The reports of the cores with enough assurances, every core once.
LEMMA AvailableFacts ==
  ASSUME NEW cores, NEW assured, assured \subseteq Core,
         \A c \in assured : cores[c].report \in Report
  PROVE  /\ AvailableReports(cores, assured) \in Seq(Report)
         /\ Len(AvailableReports(cores, assured)) <= CoresCount
         /\ \E from \in [1 .. Len(AvailableReports(cores, assured)) -> assured] :
                /\ \A i \in 1 .. Len(AvailableReports(cores, assured)) :
                       AvailableReports(cores, assured)[i] = cores[from[i]].report
                /\ \A i, j \in 1 .. Len(AvailableReports(cores, assured)) :
                       from[i] = from[j] => i = j
<1> DEFINE all == [i \in 1 .. CoresCount |-> i - 1]
           order == Those(all, assured)
           out == AvailableReports(cores, assured)
<1>1. CoresCount \in Nat
  BY SpecAssumption
<1>2. all \in Seq(Nat) /\ Len(all) = CoresCount /\ \A i \in 1 .. CoresCount : all[i] = i - 1
  BY <1>1
<1>3. out = [i \in DOMAIN order |-> cores[order[i]].report]
  BY DEF AvailableReports
<1> HIDE DEF all, out
<1>4. order \in Seq(Nat) /\ Len(order) <= CoresCount
  BY <1>2, ThoseArePicked, ThoseFacts
<1>5. PICK at : Picked(all, assured, Len(all), order, at)
  BY <1>2, ThoseArePicked
<1> HIDE DEF order
<1>6. DOMAIN order = 1 .. Len(order) /\ Len(order) \in Nat
  BY <1>4
<1>7. \A i \in 1 .. Len(order) : order[i] \in assured /\ order[i] = at[i] - 1 /\ at[i] \in 1 .. CoresCount
  BY <1>2, <1>5 DEF Picked
<1>8. out \in Seq(Report) /\ Len(out) = Len(order)
  BY <1>3, <1>6, <1>7
<1>9. \A i \in 1 .. Len(order) : out[i] = cores[order[i]].report
  BY <1>3, <1>6
<1>10. ASSUME NEW i \in 1 .. Len(order), NEW j \in 1 .. Len(order), order[i] = order[j] PROVE i = j
  <2>1. at[i] = at[j] /\ at[i] \in Nat
    BY <1>1, <1>7, <1>10
  <2>2. i < j => at[i] < at[j]
    BY <1>5 DEF Picked
  <2>3. j < i => at[j] < at[i]
    BY <1>5 DEF Picked
  <2> QED
    BY <1>6, <2>1, <2>2, <2>3
<1> DEFINE from == [i \in 1 .. Len(order) |-> order[i]]
<1>11. from \in [1 .. Len(order) -> assured]
  BY <1>7
<1> QED
  BY <1>4, <1>8, <1>9, <1>10, <1>11 DEF out

\* Every package that no entry waits for any more is done.
NeedsMet(done) ==
    /\ RecentlyAccumulated \subseteq done
    /\ \A p \in Phase : Met(done, queue[p])

\* What waits of the reports of a block: none of it was accumulated of late.
LEMMA LaterEntries ==
  ASSUME NEW reports \in Seq(Report), NEW history,
         NEW e \in ToSet(ToAccumulateLater(reports, history))
  PROVE  /\ e.report \in ToSet(reports)
         /\ PackageOf[e.report] \notin history
         /\ Needs[e.report] \subseteq e.needs \cup history
<1> DEFINE later == ToAccumulateLater(reports, history)
<1>1. later \in Seq(Entry)
  BY LaterFacts
<1>2. PICK at : LaterOf(reports, history, later, at)
  BY LaterFacts
<1> HIDE DEF later
<1>3. PICK i \in 1 .. Len(later) : e = later[i]
  BY <1>1 DEF ToSet, later
<1>4. e = [report |-> reports[at[i]], needs |-> Needs[reports[at[i]]] \ history]
      /\ PackageOf[reports[at[i]]] \notin history /\ at[i] \in 1 .. Len(reports)
  BY <1>2, <1>3 DEF LaterOf
<1> QED
  BY <1>4 DEF ToSet

\* What can be accumulated: first what needs nothing, then the rest in order.
LEMMA AccumulatableFacts ==
  ASSUME queue \in [Phase -> Seq(Entry)], NEW s \in Nat, NEW reports \in Seq(Report),
         NEW done, NeedsMet(done)
  PROVE  /\ Accumulatable(reports, s) \in Seq(Report)
         /\ Ordered(done, Accumulatable(reports, s))
         /\ \A r \in ToSet(Accumulatable(reports, s)) :
                r \in ToSet(reports) \/ \E p \in Phase : \E e \in ToSet(queue[p]) : r = e.report
         /\ ToAccumulateImmediately(reports) \in Seq(Report)
         /\ \E rest \in Seq(Report) :
                Accumulatable(reports, s) = ToAccumulateImmediately(reports) \o rest
<1> DEFINE immediately == ToAccumulateImmediately(reports)
           later == ToAccumulateLater(reports, RecentlyAccumulated)
           queued == QueueFromState(s)
           waiting == queued \o later
           packages == Packages(immediately)
           entries == PruneQueue(waiting, packages)
           rest == EnqueueReports(entries)
<1>1. Accumulatable(reports, s) = immediately \o rest
  BY DEF Accumulatable
<1>2. immediately \in Seq(Report) /\ ToSet(immediately) \subseteq ToSet(reports)
      /\ \A r \in ToSet(immediately) : Needs[r] = {}
  <2> DEFINE free == {r \in Report : Needs[r] = {}}
  <2>1. Those(reports, free) \in Seq(Report)
    BY ThoseArePicked
  <2>2. ToSet(Those(reports, free)) = ToSet(reports) \cap free
    BY ThoseFacts
  <2>3. immediately = Those(reports, free)
    BY DEF ToAccumulateImmediately
  <2> QED
    BY <2>1, <2>2, <2>3
<1>3. later \in Seq(Entry)
  BY LaterFacts
<1>4. \A e \in ToSet(later) : e.report \in ToSet(reports)
          /\ Needs[e.report] \subseteq e.needs \cup RecentlyAccumulated
  BY LaterEntries
<1>5. queued \in Seq(Entry) /\ \A e \in ToSet(queued) : \E p \in Phase : e \in ToSet(queue[p])
  BY QueueFacts
<1> HIDE DEF immediately, later, queued
<1>6. waiting \in Seq(Entry) /\ ToSet(waiting) = ToSet(queued) \cup ToSet(later)
  <2>1. 0 \in 0 .. Len(queued)
    BY <1>5
  <2> QED
    BY <1>3, <1>5, <2>1, Elements
<1> HIDE DEF waiting
<1>7. Met(done, waiting)
  <2>1. ASSUME NEW e \in ToSet(waiting) PROVE Needs[e.report] \subseteq e.needs \cup done
    <3>1. CASE e \in ToSet(queued)
      BY <1>5, <3>1 DEF NeedsMet, Met
    <3>2. CASE e \in ToSet(later)
      BY <1>4, <3>2 DEF NeedsMet
    <3> QED
      BY <1>6, <3>1, <3>2
  <2> QED
    BY <2>1 DEF Met
<1> HIDE DEF packages
<1>8. entries \in Seq(Entry)
  BY <1>6, PruneFacts
<1>9. Met(done \cup packages, entries)
  BY <1>6, <1>7, PrunedAreMet
<1>10. \A e \in ToSet(entries) : \E f \in ToSet(waiting) : f.report = e.report
  BY <1>6, PrunedStay
<1> HIDE DEF entries
<1>11. rest \in Seq(Report) /\ Ordered(done \cup packages, rest)
       /\ \A r \in ToSet(rest) : \E e \in ToSet(entries) : r = e.report
  BY <1>8, <1>9, EnqueueFacts
<1> HIDE DEF rest
<1>12. Ordered(done, immediately)
  <2>1. \A i \in 1 .. Len(immediately) : immediately[i] \in ToSet(immediately)
    BY <1>2 DEF ToSet
  <2> QED
    BY <1>2, <2>1 DEF Ordered
<1>13. Ordered(done, immediately \o rest)
  BY <1>2, <1>11, <1>12, OrderedConcat DEF packages
<1>14. immediately \o rest \in Seq(Report)
       /\ ToSet(immediately \o rest) = ToSet(immediately) \cup ToSet(rest)
  <2>1. 0 \in 0 .. Len(immediately)
    BY <1>2
  <2> QED
    BY <1>2, <1>11, <2>1, Elements
<1>15. ASSUME NEW r \in ToSet(rest)
       PROVE  r \in ToSet(reports) \/ \E p \in Phase : \E e \in ToSet(queue[p]) : r = e.report
  <2>1. PICK e \in ToSet(entries) : r = e.report
    BY <1>11
  <2>2. PICK f \in ToSet(waiting) : f.report = e.report
    BY <1>10
  <2>3. CASE f \in ToSet(queued)
    BY <1>5, <2>1, <2>2, <2>3
  <2>4. CASE f \in ToSet(later)
    BY <1>4, <2>1, <2>2, <2>4
  <2> QED
    BY <1>6, <2>3, <2>4
<1>16. \A r \in ToSet(immediately \o rest) :
           r \in ToSet(reports) \/ \E p \in Phase : \E e \in ToSet(queue[p]) : r = e.report
  BY <1>2, <1>14, <1>15
<1> QED
  BY <1>1, <1>2, <1>11, <1>13, <1>14, <1>16 DEF immediately

(* A block *)

\* What a block does to the reports: `cores` are the assignments that are left,
\* `reports` became available, and `from` are the cores they were on.
Moves(s, cores, reports, from, guarantees, count) ==
    /\ s \in Nat
    /\ cores \in [Core -> Assignment \cup {NoReport}]
    /\ \A c \in Engaged(cores) : cores[c] = assignment[c]
    /\ reports \in Seq(Report) /\ Len(reports) <= CoresCount
    /\ from \in [1 .. Len(reports) -> Engaged(assignment)]
    /\ \A i \in 1 .. Len(reports) :
           reports[i] = assignment[from[i]].report /\ cores[from[i]] = NoReport
    /\ \A i, j \in 1 .. Len(reports) : from[i] = from[j] => i = j
    /\ guarantees \subseteq {r \in Report : CanBeGuaranteed(r)}
    /\ AreValidGuarantees(guarantees, cores)
    /\ count \in AccumulatedCounts(GasLimit, Accumulatable(reports, s))
    /\ Accumulate(reports, s, count)
    /\ assignment' = PlaceReports(cores, guarantees, s)
    /\ recent' = RecordBlock(guarantees)
    /\ guaranteed' = guaranteed \cup guarantees
    /\ height' = height + 1

\* A core that is cleared of a report that was judged is free, the others keep theirs.
LEMMA ClearJudgedFacts ==
  ASSUME NEW cores \in [Core -> Assignment \cup {NoReport}], NEW verdicts
  PROVE  /\ ClearJudged(cores, verdicts) \in [Core -> Assignment \cup {NoReport}]
         /\ \A c \in Engaged(ClearJudged(cores, verdicts)) :
                c \in Engaged(cores) /\ ClearJudged(cores, verdicts)[c] = cores[c]
BY DEF ClearJudged, Engaged

LEMMA ClearAssuredFacts ==
  ASSUME NEW cores \in [Core -> Assignment \cup {NoReport}], NEW assured, NEW s
  PROVE  /\ ClearAssured(cores, assured, s) \in [Core -> Assignment \cup {NoReport}]
         /\ \A c \in Engaged(ClearAssured(cores, assured, s)) :
                c \in Engaged(cores) /\ ClearAssured(cores, assured, s)[c] = cores[c]
         /\ \A c \in Core : c \in assured => ClearAssured(cores, assured, s)[c] = NoReport
BY DEF ClearAssured, Engaged

LEMMA BlockMoves ==
  ASSUME ReportsTypeOK, ReportsNext
  PROVE  \E s, cores, reports, from, guarantees, count :
             Moves(s, cores, reports, from, guarantees, count)
<1>1. PICK s \in slot + 1 .. slot + MaxSkip, verdicts \in Verdicts, offenders \in SUBSET Validator :
          \E assured \in SUBSET Engaged(assignment),
             guarantees \in SUBSET {r \in Report : CanBeGuaranteed(r)} :
              \E signers \in Signers(guarantees) :
                  ImportBlock(s, verdicts, offenders, assured, guarantees, signers)
  BY DEF ReportsNext
<1>2. PICK assured \in SUBSET Engaged(assignment),
           guarantees \in SUBSET {r \in Report : CanBeGuaranteed(r)} :
          \E signers \in Signers(guarantees) :
              ImportBlock(s, verdicts, offenders, assured, guarantees, signers)
  BY <1>1
<1>3. PICK signers : ImportBlock(s, verdicts, offenders, assured, guarantees, signers)
  BY <1>2
<1> DEFINE afterDisputes == ClearJudged(assignment, verdicts)
           cores == ClearAssured(afterDisputes, assured, s)
           reports == AvailableReports(afterDisputes, assured)
<1>4. /\ assured \subseteq Engaged(afterDisputes)
      /\ AreValidGuarantees(guarantees, cores)
      /\ assignment' = PlaceReports(cores, guarantees, s)
      /\ recent' = RecordBlock(guarantees)
      /\ guaranteed' = guaranteed \cup guarantees
  BY <1>3 DEF ImportBlock
<1>5. PICK count \in AccumulatedCounts(GasLimit, Accumulatable(reports, s)) :
          Accumulate(reports, s, count)
  BY <1>3 DEF ImportBlock
<1>6. assignment \in [Core -> Assignment \cup {NoReport}]
  BY DEF ReportsTypeOK
<1>7. /\ afterDisputes \in [Core -> Assignment \cup {NoReport}]
      /\ \A c \in Engaged(afterDisputes) : c \in Engaged(assignment) /\ afterDisputes[c] = assignment[c]
  BY <1>6, ClearJudgedFacts
<1> HIDE DEF afterDisputes
<1>8. /\ cores \in [Core -> Assignment \cup {NoReport}]
      /\ \A c \in Engaged(cores) : c \in Engaged(afterDisputes) /\ cores[c] = afterDisputes[c]
      /\ \A c \in Core : c \in assured => cores[c] = NoReport
  BY <1>7, ClearAssuredFacts
<1>9. assured \subseteq Core /\ \A c \in assured : afterDisputes[c].report \in Report
  <2>1. \A c \in Engaged(afterDisputes) : c \in Core /\ afterDisputes[c] \in Assignment
    BY <1>7 DEF Engaged
  <2> QED
    BY <1>4, <2>1 DEF Assignment
<1>10. reports \in Seq(Report) /\ Len(reports) <= CoresCount
  BY <1>9, AvailableFacts
<1>11. PICK from \in [1 .. Len(reports) -> assured] :
          /\ \A i \in 1 .. Len(reports) : reports[i] = afterDisputes[from[i]].report
          /\ \A i, j \in 1 .. Len(reports) : from[i] = from[j] => i = j
  BY <1>9, AvailableFacts
<1> HIDE DEF cores, reports
<1>12. from \in [1 .. Len(reports) -> Engaged(assignment)]
  BY <1>4, <1>7, <1>11
<1>13. \A i \in 1 .. Len(reports) :
           reports[i] = assignment[from[i]].report /\ cores[from[i]] = NoReport
  <2> SUFFICES ASSUME NEW i \in 1 .. Len(reports)
               PROVE  reports[i] = assignment[from[i]].report /\ cores[from[i]] = NoReport
    OBVIOUS
  <2>1. from[i] \in assured /\ from[i] \in Core /\ from[i] \in Engaged(afterDisputes)
    BY <1>4, <1>9, <1>11
  <2> QED
    BY <1>7, <1>8, <1>11, <2>1
<1>14. \A c \in Engaged(cores) : cores[c] = assignment[c]
  BY <1>7, <1>8
<1>15. s \in Nat /\ height' = height + 1
  BY DEF ReportsTypeOK, ReportsNext
<1>16. Moves(s, cores, reports, from, guarantees, count)
  BY <1>4, <1>5, <1>8, <1>10, <1>11, <1>12, <1>13, <1>14, <1>15 DEF Moves
<1> QED
  BY <1>16

(* The invariant *)

\* The recent history has the last blocks, and in it every report that was
\* guaranteed comes after its anchor.
HistoryKnown ==
    /\ \A i \in 1 .. Len(recent) : recent[i].number = height - Len(recent) + i
    /\ \A r \in guaranteed :
           /\ AnchorOf[r] <= height
           /\ \A j \in 1 .. Len(recent) :
                  recent[j].number = AnchorOf[r] =>
                      \E k \in (j + 1) .. Len(recent) : PackageOf[r] \in recent[k].reported

\* Reports keep to the gas limit and are guaranteed before anything else.
PipelineKnown ==
    /\ Queued \cup Pending \cup ToSet(accumulated) \subseteq guaranteed
    /\ \A c \in Engaged(assignment) : GasOf[assignment[c].report] <= ReportGas

IInv ==
    /\ ReportsTypeOK
    /\ PackageInOnePlace
    /\ NeedsMet(Packages(accumulated))
    /\ Ordered({}, accumulated)
    /\ HistoryKnown
    /\ PipelineKnown
    /\ NeverDropped

LEMMA GasLimitFacts == GasLimit \in Nat /\ ReportGas * CoresCount <= GasLimit
<1> DEFINE product == ReportGas * CoresCount
<1>1. MaxBlockGas \in Nat /\ product \in Nat
  BY SpecAssumption
<1> HIDE DEF product
<1>2. \E x \in {MaxBlockGas, product} : \A y \in {MaxBlockGas, product} : x >= y
  BY <1>1
<1>3. Max({MaxBlockGas, product}) \in {MaxBlockGas, product}
      /\ \A y \in {MaxBlockGas, product} : Max({MaxBlockGas, product}) >= y
  BY <1>2 DEF Max
<1>4. GasLimit = Max({MaxBlockGas, product})
  BY DEF GasLimit, product
<1> QED
  BY <1>1, <1>3, <1>4 DEF product

\* What a block accumulates.
Now(reports, s, count) == SubSeq(Accumulatable(reports, s), 1, count)

LEMMA NowFacts ==
  ASSUME IInv, NEW s, NEW cores, NEW reports, NEW from, NEW guarantees, NEW count,
         Moves(s, cores, reports, from, guarantees, count)
  PROVE  /\ Now(reports, s, count) \in Seq(Report)
         /\ Ordered(Packages(accumulated), Now(reports, s, count))
         /\ ToSet(Now(reports, s, count)) \subseteq ToSet(reports) \cup Queued
         /\ \A r \in ToSet(reports) : Needs[r] = {} => r \in ToSet(Now(reports, s, count))
<1> DEFINE able == Accumulatable(reports, s)
           first == ToAccumulateImmediately(reports)
           now == SubSeq(able, 1, count)
           done == Packages(accumulated)
<1>1. /\ s \in Nat /\ reports \in Seq(Report) /\ queue \in [Phase -> Seq(Entry)] /\ NeedsMet(done)
      /\ count \in Cutoff(GasLimit, able) .. Len(able)
  BY DEF IInv, ReportsTypeOK, Moves, AccumulatedCounts
<1> HIDE DEF done
<1>2. /\ able \in Seq(Report) /\ Ordered(done, able) /\ first \in Seq(Report)
      /\ \A r \in ToSet(able) :
             r \in ToSet(reports) \/ \E p \in Phase : \E e \in ToSet(queue[p]) : r = e.report
  BY <1>1, AccumulatableFacts
<1>3. PICK rest \in Seq(Report) : able = first \o rest
  BY <1>1, AccumulatableFacts
<1>4. ToSet(able) \subseteq ToSet(reports) \cup Queued
  BY <1>2 DEF Queued
<1>5. GasLimit \in Nat /\ ReportGas * CoresCount <= GasLimit
  BY GasLimitFacts
<1>6. first = Those(reports, {r \in Report : Needs[r] = {}})
  BY DEF ToAccumulateImmediately
<1>7. Len(first) <= Len(reports) /\ ToSet(first) = ToSet(reports) \cap {r \in Report : Needs[r] = {}}
  BY <1>1, <1>6, ThoseFacts
<1> HIDE DEF able, first
<1>8. /\ Len(first) \in Nat /\ Len(rest) \in Nat /\ Len(reports) \in Nat
      /\ Len(able) = Len(first) + Len(rest) /\ Len(able) \in Nat
      /\ \A i \in 1 .. Len(first) : able[i] = first[i]
  BY <1>1, <1>2, <1>3
<1>9. \A i \in 1 .. Len(first) : GasOf[able[i]] <= ReportGas
  <2> SUFFICES ASSUME NEW i \in 1 .. Len(first) PROVE GasOf[able[i]] <= ReportGas
    OBVIOUS
  <2>1. able[i] \in ToSet(first)
    <3>1. able[i] = first[i] /\ i \in DOMAIN first
      BY <1>2, <1>8
    <3> QED
      BY <3>1 DEF ToSet
  <2>4. able[i] \in ToSet(reports)
    BY <1>7, <2>1
  <2>2. PICK k \in 1 .. Len(reports) : able[i] = reports[k]
    BY <1>1, <2>4 DEF ToSet
  <2>3. from[k] \in Engaged(assignment) /\ reports[k] = assignment[from[k]].report
    BY DEF Moves
  <2> QED
    BY <2>2, <2>3 DEF IInv, PipelineKnown
<1>10. Len(first) <= CoresCount
  BY <1>7, <1>8, SpecAssumption DEF Moves
<1>11. \A n \in 0 .. Len(first) : GasUpTo(able)[n] <= GasLimit
  <2> SUFFICES ASSUME NEW n \in 0 .. Len(first) PROVE GasUpTo(able)[n] <= GasLimit
    OBVIOUS
  <2>1. ReportGas \in Nat /\ CoresCount \in Nat /\ Len(first) \in 0 .. Len(able)
    BY <1>8, SpecAssumption
  <2>2. GasUpTo(able)[n] <= ReportGas * n
    BY <1>2, <1>9, <2>1, GasIsBounded
  <2>3. n \in Nat /\ n <= CoresCount /\ n \in 0 .. Len(able)
    BY <1>8, <1>10, <2>1
  <2>4. ReportGas * n <= ReportGas * CoresCount
    BY <2>1, <2>3
  <2>5. GasUpTo(able)[n] \in Nat
    BY <1>2, <2>3, GasFacts
  <2>6. ReportGas * n \in Nat /\ ReportGas * CoresCount \in Nat
    BY <2>1, <2>3
  <2> QED
    BY <1>5, <2>2, <2>4, <2>5, <2>6
<1>12. /\ Cutoff(GasLimit, able) \in 0 .. Len(able)
       /\ Cutoff(GasLimit, able) < Len(able) => GasUpTo(able)[Cutoff(GasLimit, able) + 1] > GasLimit
  BY <1>2, <1>5, CutoffFacts
<1>13. Cutoff(GasLimit, able) >= Len(first)
  <2> DEFINE cut == Cutoff(GasLimit, able)
  <2> SUFFICES ASSUME cut < Len(first) PROVE FALSE
    BY <1>8, <1>12
  <2>1. cut + 1 \in 0 .. Len(first) /\ cut < Len(able) /\ cut + 1 \in 0 .. Len(able)
    BY <1>8, <1>12
  <2>2. GasUpTo(able)[cut + 1] <= GasLimit /\ GasUpTo(able)[cut + 1] > GasLimit
    BY <1>11, <1>12, <2>1
  <2>3. GasUpTo(able)[cut + 1] \in Nat
    BY <1>2, <2>1, GasFacts
  <2> QED
    BY <1>5, <2>2, <2>3
<1>14. count \in 0 .. Len(able) /\ Len(first) <= count
  <2>1. Cutoff(GasLimit, able) \in Nat
    BY <1>12
  <2> QED
    BY <1>1, <1>8, <1>13, <2>1 DEF able
<1>15. /\ now \in Seq(Report) /\ Len(now) = count /\ ToSet(now) \subseteq ToSet(able)
       /\ \A i \in 1 .. count : now[i] = able[i]
  BY <1>2, <1>14, Elements
<1>16. Ordered(done, now)
  BY <1>2, <1>14, OrderedPrefix
<1>17. ASSUME NEW r \in ToSet(reports), Needs[r] = {} PROVE r \in ToSet(now)
  <2>1. r \in ToSet(first)
    <3>1. r \in Report
      BY <1>1 DEF ToSet
    <3> QED
      BY <1>7, <1>17, <3>1
  <2>2. PICK i \in 1 .. Len(first) : r = first[i]
    BY <1>2, <2>1 DEF ToSet
  <2>3. i \in 1 .. count /\ now[i] = r
    BY <1>8, <1>14, <1>15, <2>2
  <2> QED
    BY <1>15, <2>3 DEF ToSet
<1>18. Now(reports, s, count) = now
  BY DEF Now, able
<1> HIDE DEF now
<1> QED
  BY <1>4, <1>15, <1>16, <1>17, <1>18 DEF done

(* The queue after a block *)

\* Every entry has the report of a source of its own.
Traced(after, sources) ==
    /\ after \in Seq(Entry)
    /\ \E at \in [1 .. Len(after) -> DOMAIN sources] :
           /\ \A i \in 1 .. Len(after) : after[i].report = sources[at[i]]
           /\ \A i, j \in 1 .. Len(after) : at[i] = at[j] => i = j

ReportsOf(entries) == [k \in DOMAIN entries |-> entries[k].report]

\* A phase of the queue keeps some of its entries, none of them twice.
LEMMA OldEntries ==
  ASSUME queue \in [Phase -> Seq(Entry)], NEW s \in Nat, NEW reports, NEW done,
         NEW p \in Phase, p # s % EpochLength
  PROVE  Traced(UpdateQueue(reports, s, done)[p], ReportsOf(queue[p]))
<1> DEFINE after == UpdateQueue(reports, s, done)[p]
           sources == ReportsOf(queue[p])
<1>1. after = IF IsExpired(p, s) THEN <<>> ELSE PruneQueue(queue[p], done)
  BY DEF UpdateQueue
<1>2. queue[p] \in Seq(Entry)
  OBVIOUS
<1>5. DOMAIN sources = 1 .. Len(queue[p])
      /\ \A k \in 1 .. Len(queue[p]) : sources[k] = queue[p][k].report
  BY <1>2 DEF ReportsOf
<1> HIDE DEF after, sources
<1>3. CASE IsExpired(p, s)
  <2>1. after = <<>> /\ Len(after) = 0 /\ after \in Seq(Entry)
    BY <1>1, <1>3
  <2> DEFINE at == [i \in 1 .. 0 |-> 0]
  <2>2. at \in [1 .. Len(after) -> DOMAIN sources]
    BY <2>1
  <2>3. 1 .. Len(after) = {}
    BY <2>1
  <2> HIDE DEF at
  <2>4. /\ \A i \in 1 .. Len(after) : after[i].report = sources[at[i]]
        /\ \A i, j \in 1 .. Len(after) : at[i] = at[j] => i = j
    BY <2>3
  <2>5. Traced(after, sources)
    BY <2>1, <2>2, <2>4 DEF Traced
  <2> QED
    BY <2>5 DEF after, sources
<1>4. CASE ~IsExpired(p, s)
  <2>1. after = PruneQueue(queue[p], done)
    BY <1>1, <1>4
  <2>2. after \in Seq(Entry)
    BY <1>2, <2>1, PruneFacts
  <2>3. PICK at : Pruned(queue[p], done, after, at)
    BY <1>2, <2>1, PruneFacts
  <2>5. at \in [1 .. Len(after) -> DOMAIN sources]
        /\ \A i, j \in 1 .. Len(after) : at[i] = at[j] => i = j
    BY <2>3, <1>5 DEF Pruned
  <2>4. \A i \in 1 .. Len(after) : after[i].report = sources[at[i]]
    <3> SUFFICES ASSUME NEW i \in 1 .. Len(after) PROVE after[i].report = sources[at[i]]
      OBVIOUS
    <3>1. after[i] = [report |-> queue[p][at[i]].report, needs |-> queue[p][at[i]].needs \ done]
      BY <2>3 DEF Pruned
    <3>2. at[i] \in 1 .. Len(queue[p])
      BY <2>5, <1>5
    <3> QED
      BY <1>5, <3>1, <3>2
  <2>6. Traced(after, sources)
    BY <2>2, <2>4, <2>5 DEF Traced
  <2> QED
    BY <2>6 DEF after, sources
<1> QED
  BY <1>3, <1>4

\* The phase of the block gets reports that became available, none of them twice.
LEMMA NewEntries ==
  ASSUME NEW s \in Nat, NEW reports \in Seq(Report), NEW done,
         NEW p \in Phase, p = s % EpochLength
  PROVE  Traced(UpdateQueue(reports, s, done)[p], reports)
<1> DEFINE after == UpdateQueue(reports, s, done)[p]
           later == ToAccumulateLater(reports, RecentlyAccumulated)
<1>1. after = PruneQueue(later, done)
  BY DEF UpdateQueue
<1>2. later \in Seq(Entry)
  BY LaterFacts
<1>3. PICK bt : LaterOf(reports, RecentlyAccumulated, later, bt)
  BY LaterFacts
<1> HIDE DEF after, later
<1>4. after \in Seq(Entry)
  BY <1>1, <1>2, PruneFacts
<1>5. PICK at : Pruned(later, done, after, at)
  BY <1>1, <1>2, PruneFacts
<1>6. at \in [1 .. Len(after) -> 1 .. Len(later)]
  BY <1>5 DEF Pruned
<1> DEFINE ct == [i \in 1 .. Len(after) |-> bt[at[i]]]
<1>7. ct \in [1 .. Len(after) -> 1 .. Len(reports)] /\ \A i \in 1 .. Len(after) : ct[i] = bt[at[i]]
  BY <1>3, <1>6 DEF LaterOf
<1> HIDE DEF ct
<1>8. ASSUME NEW i \in 1 .. Len(after) PROVE after[i].report = reports[ct[i]]
  <2>1. after[i] = [report |-> later[at[i]].report, needs |-> later[at[i]].needs \ done]
    BY <1>5 DEF Pruned
  <2>2. at[i] \in 1 .. Len(later)
    BY <1>6
  <2>3. later[at[i]].report = reports[bt[at[i]]]
    <3>1. later[at[i]] = [report |-> reports[bt[at[i]]],
                          needs |-> Needs[reports[bt[at[i]]]] \ RecentlyAccumulated]
      BY <1>3, <2>2 DEF LaterOf
    <3> QED
      BY <3>1
  <2> QED
    BY <1>7, <2>1, <2>3
<1>9. ASSUME NEW i \in 1 .. Len(after), NEW j \in 1 .. Len(after), ct[i] = ct[j] PROVE i = j
  <2>1. at[i] \in 1 .. Len(later) /\ at[j] \in 1 .. Len(later) /\ bt[at[i]] = bt[at[j]]
    BY <1>6, <1>7, <1>9
  <2>2. at[i] = at[j]
    BY <1>3, <2>1 DEF LaterOf
  <2> QED
    BY <1>5, <2>2 DEF Pruned
<1>10. DOMAIN reports = 1 .. Len(reports)
  OBVIOUS
<1>11. Traced(after, reports)
  BY <1>4, <1>7, <1>8, <1>9, <1>10 DEF Traced
<1> QED
  BY <1>11 DEF after

\* What an entry of the queue is after a block.
LEMMA EntriesAfter ==
  ASSUME queue \in [Phase -> Seq(Entry)], NEW s \in Nat, NEW reports \in Seq(Report),
         NEW done, NeedsMet(done), NEW now, NEW p \in Phase,
         NEW e \in ToSet(UpdateQueue(reports, s, now)[p])
  PROVE  /\ PackageOf[e.report] \notin now
         /\ Needs[e.report] \subseteq e.needs \cup (done \cup now)
         /\ \/ e.report \in ToSet(reports) /\ PackageOf[e.report] \notin RecentlyAccumulated
            \/ \E f \in ToSet(queue[p]) : f.report = e.report
<1>1. CASE p = s % EpochLength
  <2> DEFINE later == ToAccumulateLater(reports, RecentlyAccumulated)
  <2>1. e \in ToSet(PruneQueue(later, now))
    BY <1>1 DEF UpdateQueue
  <2>2. later \in Seq(Entry)
    BY LaterFacts
  <2> HIDE DEF later
  <2>3. PICK f \in ToSet(later) : f.report = e.report /\ e.needs = f.needs \ now
    BY <2>1, <2>2, PrunedStay
  <2>4. PackageOf[e.report] \notin now
    BY <2>1, <2>2, PrunedStay
  <2>5. /\ f.report \in ToSet(reports)
        /\ PackageOf[f.report] \notin RecentlyAccumulated
        /\ Needs[f.report] \subseteq f.needs \cup RecentlyAccumulated
    BY LaterEntries DEF later
  <2> QED
    BY <2>3, <2>4, <2>5 DEF NeedsMet
<1>2. CASE p # s % EpochLength /\ ~IsExpired(p, s)
  <2>1. e \in ToSet(PruneQueue(queue[p], now)) /\ queue[p] \in Seq(Entry)
    BY <1>2 DEF UpdateQueue
  <2>2. PICK f \in ToSet(queue[p]) : f.report = e.report /\ e.needs = f.needs \ now
    BY <2>1, PrunedStay
  <2>3. PackageOf[e.report] \notin now
    BY <2>1, PrunedStay
  <2>4. Needs[f.report] \subseteq f.needs \cup done
    BY DEF NeedsMet, Met
  <2> QED
    BY <2>2, <2>3, <2>4
<1>3. CASE p # s % EpochLength /\ IsExpired(p, s)
  <2>1. e \in ToSet(<<>>)
    BY <1>3 DEF UpdateQueue
  <2> QED
    BY <2>1 DEF ToSet
<1> QED
  BY <1>1, <1>2, <1>3

(* Where packages are before and after a block *)

LEMMA PlacesOfPackages ==
  ASSUME ReportsTypeOK, PackageInOnePlace
  PROVE  /\ \A c \in Engaged(assignment) :
                /\ c \in Core /\ assignment[c] \in Assignment
                /\ assignment[c].report \in Pending /\ assignment[c].report \in Report
                /\ PackageOf[assignment[c].report] \notin RecentlyAccumulated
         /\ \A p \in Phase : \A e \in ToSet(queue[p]) :
                /\ e.report \in Queued /\ e.report \in Report
                /\ PackageOf[e.report] \notin RecentlyAccumulated
         /\ \A c \in Engaged(assignment) : \A r \in Queued :
                PackageOf[assignment[c].report] # PackageOf[r]
         /\ \A r \in Queued : r \in Report /\ PackageOf[r] \notin RecentlyAccumulated
<1>1. ASSUME NEW c \in Engaged(assignment)
      PROVE  /\ c \in Core /\ assignment[c] \in Assignment
             /\ assignment[c].report \in Pending /\ assignment[c].report \in Report
  BY DEF ReportsTypeOK, Engaged, Pending, Assignment
<1>2. ASSUME NEW p \in Phase, NEW e \in ToSet(queue[p])
      PROVE  e.report \in Queued /\ e.report \in Report
  <2>1. queue[p] \in Seq(Entry)
    BY DEF ReportsTypeOK
  <2>2. e \in Entry
    BY <2>1 DEF ToSet
  <2>3. e.report \in Report
    BY <2>2 DEF Entry
  <2> QED
    BY <2>3 DEF Queued
<1>3. ASSUME NEW r \in Queued PROVE \E p \in Phase : \E e \in ToSet(queue[p]) : r = e.report
  BY DEF Queued
<1>4. ASSUME NEW r \in Queued PROVE r \in Report /\ PackageOf[r] \notin RecentlyAccumulated
  <2>1. r \in Report
    BY <1>2, <1>3
  <2>2. PackageOf[r] \in {PackageOf[q] : q \in Queued}
    OBVIOUS
  <2> QED
    BY <2>1, <2>2 DEF PackageInOnePlace
<1>5. ASSUME NEW r \in Pending PROVE PackageOf[r] \notin RecentlyAccumulated
  <2>1. PackageOf[r] \in {PackageOf[q] : q \in Pending}
    OBVIOUS
  <2> QED
    BY <2>1 DEF PackageInOnePlace
<1>6. ASSUME NEW r \in Pending, NEW q \in Queued PROVE PackageOf[r] # PackageOf[q]
  <2>1. PackageOf[r] \in {PackageOf[x] : x \in Pending} /\ PackageOf[q] \in {PackageOf[x] : x \in Queued}
    OBVIOUS
  <2> QED
    BY <2>1 DEF PackageInOnePlace
<1> QED
  BY <1>1, <1>2, <1>4, <1>5, <1>6

\* A core has a new report after a block, or the one it had before.
LEMMA CoresAfter ==
  ASSUME NEW s \in Nat, NEW cores \in [Core -> Assignment \cup {NoReport}],
         NEW guarantees \in SUBSET Report
  PROVE  /\ PlaceReports(cores, guarantees, s) \in [Core -> Assignment \cup {NoReport}]
         /\ \A c \in Core :
                \/ \E r \in guarantees :
                       CoreOf[r] = c /\ PlaceReports(cores, guarantees, s)[c].report = r
                \/ PlaceReports(cores, guarantees, s)[c] = cores[c]
                   /\ \A r \in guarantees : CoreOf[r] # c
<1> DEFINE after == PlaceReports(cores, guarantees, s)
<1>1. ASSUME NEW c \in Core, NEW r \in guarantees, CoreOf[r] = c
      PROVE  \E q \in guarantees : CoreOf[q] = c /\ after[c] = [report |-> q, timeout |-> s]
  BY <1>1 DEF PlaceReports
<1>2. ASSUME NEW c \in Core, ~ \E r \in guarantees : CoreOf[r] = c
      PROVE  after[c] = cores[c]
  BY <1>2 DEF PlaceReports
<1>3. after = [c \in Core |-> after[c]]
  BY DEF PlaceReports
<1> HIDE DEF after
<1>4. ASSUME NEW c \in Core
      PROVE  after[c] \in Assignment \cup {NoReport}
  <2>1. CASE \E r \in guarantees : CoreOf[r] = c
    <3>1. PICK q \in guarantees : CoreOf[q] = c /\ after[c] = [report |-> q, timeout |-> s]
      BY <1>1, <2>1
    <3> QED
      BY <3>1 DEF Assignment
  <2> QED
    BY <1>2, <2>1
<1>5. ASSUME NEW c \in Core
      PROVE  \/ \E r \in guarantees : CoreOf[r] = c /\ after[c].report = r
             \/ after[c] = cores[c] /\ \A r \in guarantees : CoreOf[r] # c
  <2>1. CASE \E r \in guarantees : CoreOf[r] = c
    <3>1. PICK q \in guarantees : CoreOf[q] = c /\ after[c] = [report |-> q, timeout |-> s]
      BY <1>1, <2>1
    <3> QED
      BY <3>1
  <2> QED
    BY <1>2, <2>1
<1> QED
  BY <1>3, <1>4, <1>5 DEF after

\* The packages of the last blocks move up, and those of the block are added.
LEMMA RecentlyAfter ==
  ASSUME recentlyAccumulated \in [1 .. EpochLength -> SUBSET Package],
         NEW now \in SUBSET Package
  PROVE  LET after == Append(Tail(recentlyAccumulated), now)
         IN  /\ after \in [1 .. EpochLength -> SUBSET Package]
             /\ after[EpochLength] = now
             /\ \A i \in 1 .. EpochLength : i # EpochLength =>
                    i + 1 \in 1 .. EpochLength /\ after[i] = recentlyAccumulated[i + 1]
             /\ UNION ToSet(after) \subseteq RecentlyAccumulated \cup now
<1> DEFINE old == recentlyAccumulated
           after == Append(Tail(recentlyAccumulated), now)
<1>1. EpochLength \in Nat \ {0}
  BY SpecAssumption
<1>2. old \in Seq(SUBSET Package) /\ Len(old) = EpochLength /\ old # <<>>
  BY <1>1
<1>3. Tail(old) \in Seq(SUBSET Package) /\ Len(Tail(old)) = EpochLength - 1
      /\ \A i \in 1 .. (EpochLength - 1) : Tail(old)[i] = old[i + 1]
  BY <1>1, <1>2
<1>4. after \in Seq(SUBSET Package) /\ Len(after) = EpochLength
      /\ after[EpochLength] = now /\ \A i \in 1 .. (EpochLength - 1) : after[i] = Tail(old)[i]
  BY <1>1, <1>3
<1>5. after \in [1 .. EpochLength -> SUBSET Package] /\ DOMAIN after = 1 .. EpochLength
  BY <1>4, LenProperties
<1>6. \A i \in 1 .. EpochLength : i # EpochLength =>
          /\ i \in 1 .. (EpochLength - 1) /\ i + 1 \in 1 .. EpochLength
          /\ after[i] = old[i + 1]
  <2>1. \A i \in 1 .. EpochLength : i # EpochLength =>
            i \in 1 .. (EpochLength - 1) /\ i + 1 \in 1 .. EpochLength
    BY <1>1
  <2> QED
    BY <1>3, <1>4, <2>1
<1>7. ASSUME NEW i \in 1 .. EpochLength PROVE after[i] \subseteq RecentlyAccumulated \cup now
  <2>1. CASE i = EpochLength
    BY <1>4, <2>1
  <2>2. CASE i # EpochLength
    BY <1>6, <2>2 DEF RecentlyAccumulated, ToSet
  <2> QED
    BY <2>1, <2>2
<1>8. UNION ToSet(after) \subseteq RecentlyAccumulated \cup now
  BY <1>5, <1>7 DEF ToSet
<1> QED
  BY <1>4, <1>5, <1>6, <1>8

\* What is new in a block was nowhere before.
LEMMA NewGuarantees ==
  ASSUME NEW guarantees, guarantees \subseteq {r \in Report : CanBeGuaranteed(r)}, NEW r \in guarantees
  PROVE  /\ r \in Report /\ GasOf[r] <= ReportGas
         /\ PackageOf[r] \notin RecentlyAccumulated /\ PackageOf[r] \notin ReportedIn(recent)
         /\ \A q \in Queued \cup Pending : PackageOf[r] # PackageOf[q]
         /\ \E b \in ToSet(recent) : b.number = AnchorOf[r]
<1>1. r \in Report /\ CanBeGuaranteed(r)
  OBVIOUS
<1>2. GasOf[r] <= ReportGas /\ HasRecentAnchor(r) /\ PackageOf[r] \notin InPipeline
  BY <1>1 DEF CanBeGuaranteed
<1> QED
  BY <1>1, <1>2 DEF HasRecentAnchor, InPipeline

\* What became available was pending.
LEMMA AvailableWerePending ==
  ASSUME ReportsTypeOK, PackageInOnePlace,
         NEW s, NEW cores, NEW reports, NEW from, NEW guarantees, NEW count,
         Moves(s, cores, reports, from, guarantees, count)
  PROVE  /\ \A i \in 1 .. Len(reports) :
                /\ from[i] \in Engaged(assignment) /\ reports[i] = assignment[from[i]].report
                /\ cores[from[i]] = NoReport
         /\ \A r \in ToSet(reports) :
                /\ r \in Report /\ r \in Pending /\ PackageOf[r] \notin RecentlyAccumulated
                /\ \A q \in Queued : PackageOf[r] # PackageOf[q]
                /\ \E i \in 1 .. Len(reports) : r = reports[i]
<1>1. reports \in Seq(Report) /\ from \in [1 .. Len(reports) -> Engaged(assignment)]
      /\ \A i \in 1 .. Len(reports) :
             reports[i] = assignment[from[i]].report /\ cores[from[i]] = NoReport
  BY DEF Moves
<1>2. ASSUME NEW r \in ToSet(reports) PROVE \E i \in 1 .. Len(reports) : r = reports[i]
  BY <1>1 DEF ToSet
<1>3. ASSUME NEW r \in ToSet(reports)
      PROVE  /\ r \in Report /\ r \in Pending /\ PackageOf[r] \notin RecentlyAccumulated
             /\ \A q \in Queued : PackageOf[r] # PackageOf[q]
  <2>1. PICK i \in 1 .. Len(reports) : r = reports[i]
    BY <1>2
  <2>2. from[i] \in Engaged(assignment) /\ r = assignment[from[i]].report
    BY <1>1, <2>1
  <2> QED
    BY <2>2, PlacesOfPackages
<1> QED
  BY <1>1, <1>2, <1>3

\* The cores after a block.
LEMMA AssignmentAfter ==
  ASSUME ReportsTypeOK, PackageInOnePlace,
         NEW s, NEW cores, NEW reports, NEW from, NEW guarantees, NEW count,
         Moves(s, cores, reports, from, guarantees, count)
  PROVE  /\ assignment' \in [Core -> Assignment \cup {NoReport}]
         /\ \A c \in Engaged(assignment') :
                /\ c \in Core
                /\ \/ \E r \in guarantees : CoreOf[r] = c /\ assignment'[c].report = r
                   \/ /\ c \in Engaged(assignment) /\ assignment'[c] = assignment[c]
                      /\ \A i \in 1 .. Len(reports) : from[i] # c
<1>1. /\ s \in Nat /\ cores \in [Core -> Assignment \cup {NoReport}]
      /\ guarantees \in SUBSET Report
      /\ assignment' = PlaceReports(cores, guarantees, s)
      /\ \A c \in Engaged(cores) : cores[c] = assignment[c]
  BY DEF Moves
<1>2. assignment' \in [Core -> Assignment \cup {NoReport}]
  BY <1>1, CoresAfter
<1>3. ASSUME NEW c \in Engaged(assignment')
      PROVE  /\ c \in Core
             /\ \/ \E r \in guarantees : CoreOf[r] = c /\ assignment'[c].report = r
                \/ /\ c \in Engaged(assignment) /\ assignment'[c] = assignment[c]
                   /\ \A i \in 1 .. Len(reports) : from[i] # c
  <2>1. c \in Core /\ assignment'[c] # NoReport
    BY DEF Engaged
  <2>2. CASE \E r \in guarantees : CoreOf[r] = c /\ assignment'[c].report = r
    BY <2>1, <2>2
  <2>3. CASE assignment'[c] = cores[c]
    <3>1. cores[c] # NoReport
      BY <2>1, <2>3
    <3>2. cores[c] = assignment[c]
      BY <1>1, <2>1, <3>1 DEF Engaged
    <3>3. c \in Engaged(assignment)
      BY <2>1, <3>1, <3>2 DEF Engaged
    <3>4. \A i \in 1 .. Len(reports) : from[i] # c
      BY <3>1, AvailableWerePending
    <3> QED
      BY <2>1, <2>3, <3>2, <3>3, <3>4
  <2>4. \/ \E r \in guarantees : CoreOf[r] = c /\ assignment'[c].report = r
        \/ assignment'[c] = cores[c]
    BY <1>1, <2>1, CoresAfter
  <2> QED
    BY <2>2, <2>3, <2>4
<1> QED
  BY <1>2, <1>3

\* What a block changes, in terms of what it accumulates.
LEMMA BlockEffects ==
  ASSUME NEW s, NEW cores, NEW reports, NEW from, NEW guarantees, NEW count,
         Moves(s, cores, reports, from, guarantees, count)
  PROVE  /\ queue' = UpdateQueue(reports, s, Packages(Now(reports, s, count)))
         /\ recentlyAccumulated' =
                Append(Tail(recentlyAccumulated), Packages(Now(reports, s, count)))
         /\ accumulated' = accumulated \o Now(reports, s, count)
         /\ available' = available \cup ToSet(reports)
         /\ recent' = RecordBlock(guarantees)
         /\ guaranteed' = guaranteed \cup guarantees
         /\ height' = height + 1
BY DEF Moves, Accumulate, Now

\* A package stays on one core.
LEMMA CoresStayApart ==
  ASSUME ReportsTypeOK, PackageInOnePlace,
         NEW s, NEW cores, NEW reports, NEW from, NEW guarantees, NEW count,
         Moves(s, cores, reports, from, guarantees, count),
         NEW c \in Engaged(assignment'), NEW d \in Engaged(assignment'),
         PackageOf[assignment'[c].report] = PackageOf[assignment'[d].report]
  PROVE  c = d
<1>1. /\ guarantees \subseteq {r \in Report : CanBeGuaranteed(r)}
      /\ \A r, q \in guarantees : r # q => CoreOf[r] # CoreOf[q] /\ PackageOf[r] # PackageOf[q]
  BY DEF Moves, AreValidGuarantees
<1>2. CASE /\ c \in Engaged(assignment) /\ assignment'[c] = assignment[c]
           /\ d \in Engaged(assignment) /\ assignment'[d] = assignment[d]
  <2>1. PackageOf[assignment[c].report] = PackageOf[assignment[d].report]
    BY <1>2
  <2> QED
    BY <1>2, <2>1 DEF PackageInOnePlace
<1>3. CASE /\ \E r \in guarantees : CoreOf[r] = c /\ assignment'[c].report = r
           /\ \E r \in guarantees : CoreOf[r] = d /\ assignment'[d].report = r
  BY <1>1, <1>3
<1>4. ASSUME NEW r \in guarantees, NEW e \in Engaged(assignment)
      PROVE  PackageOf[r] # PackageOf[assignment[e].report]
  <2>1. assignment[e].report \in Pending
    BY PlacesOfPackages
  <2> QED
    BY <1>1, <2>1, NewGuarantees
<1>5. CASE /\ \E r \in guarantees : CoreOf[r] = c /\ assignment'[c].report = r
           /\ d \in Engaged(assignment) /\ assignment'[d] = assignment[d]
  BY <1>4, <1>5
<1>6. CASE /\ \E r \in guarantees : CoreOf[r] = d /\ assignment'[d].report = r
           /\ c \in Engaged(assignment) /\ assignment'[c] = assignment[c]
  BY <1>4, <1>6
<1> QED
  BY <1>2, <1>3, <1>5, <1>6, AssignmentAfter

\* Two reports that became available are of different packages.
LEMMA AvailableStayApart ==
  ASSUME ReportsTypeOK, PackageInOnePlace,
         NEW s, NEW cores, NEW reports, NEW from, NEW guarantees, NEW count,
         Moves(s, cores, reports, from, guarantees, count),
         NEW i \in 1 .. Len(reports), NEW j \in 1 .. Len(reports),
         PackageOf[reports[i]] = PackageOf[reports[j]]
  PROVE  i = j
<1>1. /\ from[i] \in Engaged(assignment) /\ reports[i] = assignment[from[i]].report
      /\ from[j] \in Engaged(assignment) /\ reports[j] = assignment[from[j]].report
  BY AvailableWerePending
<1>2. from[i] = from[j]
  BY <1>1 DEF PackageInOnePlace
<1> QED
  BY <1>2 DEF Moves

\* A package stays in one entry of the queue.
LEMMA QueueStaysApart ==
  ASSUME ReportsTypeOK, PackageInOnePlace,
         NEW s, NEW cores, NEW reports, NEW from, NEW guarantees, NEW count,
         Moves(s, cores, reports, from, guarantees, count),
         NEW p \in Phase, NEW q \in Phase,
         NEW i \in DOMAIN queue'[p], NEW j \in DOMAIN queue'[q],
         PackageOf[queue'[p][i].report] = PackageOf[queue'[q][j].report]
  PROVE  p = q /\ i = j
<1> DEFINE now == Packages(Now(reports, s, count))
           phase == s % EpochLength
           Q == UpdateQueue(reports, s, now)
<1>1. /\ queue \in [Phase -> Seq(Entry)] /\ s \in Nat /\ reports \in Seq(Report)
      /\ queue' = Q
  <2>1. queue' = Q
    BY BlockEffects
  <2> QED
    BY <2>1 DEF ReportsTypeOK, Moves
<1> HIDE DEF now, Q
<1>2. ASSUME NEW x \in Phase, x # phase
      PROVE  /\ Q[x] \in Seq(Entry)
             /\ \E at \in [1 .. Len(Q[x]) -> 1 .. Len(queue[x])] :
                    /\ \A k \in 1 .. Len(Q[x]) : Q[x][k].report = queue[x][at[k]].report
                    /\ \A k, l \in 1 .. Len(Q[x]) : at[k] = at[l] => k = l
  <2>1. Traced(Q[x], ReportsOf(queue[x]))
    BY <1>1, <1>2, OldEntries DEF Q
  <2>2. DOMAIN ReportsOf(queue[x]) = 1 .. Len(queue[x])
        /\ \A k \in 1 .. Len(queue[x]) : ReportsOf(queue[x])[k] = queue[x][k].report
    BY <1>1 DEF ReportsOf
  <2>3. PICK at \in [1 .. Len(Q[x]) -> 1 .. Len(queue[x])] :
             /\ \A k \in 1 .. Len(Q[x]) : Q[x][k].report = ReportsOf(queue[x])[at[k]]
             /\ \A k, l \in 1 .. Len(Q[x]) : at[k] = at[l] => k = l
    BY <2>1, <2>2 DEF Traced
  <2>4. \A k \in 1 .. Len(Q[x]) : Q[x][k].report = queue[x][at[k]].report
    BY <2>2, <2>3
  <2> QED
    BY <2>1, <2>3, <2>4 DEF Traced
<1>3. ASSUME NEW x \in Phase, x = phase
      PROVE  /\ Q[x] \in Seq(Entry)
             /\ \E at \in [1 .. Len(Q[x]) -> 1 .. Len(reports)] :
                    /\ \A k \in 1 .. Len(Q[x]) : Q[x][k].report = reports[at[k]]
                    /\ \A k, l \in 1 .. Len(Q[x]) : at[k] = at[l] => k = l
  <2>1. Traced(Q[x], reports)
    BY <1>1, <1>3, NewEntries DEF Q
  <2>2. DOMAIN reports = 1 .. Len(reports)
    BY <1>1
  <2> QED
    BY <2>1, <2>2 DEF Traced
<1>4. i \in 1 .. Len(Q[p]) /\ j \in 1 .. Len(Q[q])
      /\ PackageOf[Q[p][i].report] = PackageOf[Q[q][j].report]
  <2>1. Q[p] \in Seq(Entry) /\ Q[q] \in Seq(Entry)
    BY <1>2, <1>3
  <2> QED
    BY <1>1, <2>1
<1>5. \A x \in Phase : queue[x] \in Seq(Entry) /\ DOMAIN queue[x] = 1 .. Len(queue[x])
  BY <1>1
<1>6. \A x \in Phase : \A k \in 1 .. Len(queue[x]) : queue[x][k].report \in Queued
  <2> SUFFICES ASSUME NEW x \in Phase, NEW k \in 1 .. Len(queue[x]) PROVE queue[x][k].report \in Queued
    OBVIOUS
  <2>1. queue[x][k] \in ToSet(queue[x])
    BY <1>5 DEF ToSet
  <2> QED
    BY <2>1, PlacesOfPackages
<1>7. \A k \in 1 .. Len(reports) : \A r \in Queued : PackageOf[reports[k]] # PackageOf[r]
  <2> SUFFICES ASSUME NEW k \in 1 .. Len(reports) PROVE \A r \in Queued : PackageOf[reports[k]] # PackageOf[r]
    OBVIOUS
  <2>1. reports[k] \in ToSet(reports)
    BY <1>1 DEF ToSet
  <2> QED
    BY <2>1, AvailableWerePending
<1>8. CASE p # phase /\ q # phase
  <2>1. PICK at \in [1 .. Len(Q[p]) -> 1 .. Len(queue[p])] :
             /\ \A k \in 1 .. Len(Q[p]) : Q[p][k].report = queue[p][at[k]].report
             /\ \A k, l \in 1 .. Len(Q[p]) : at[k] = at[l] => k = l
    BY <1>2, <1>8
  <2>2. PICK bt \in [1 .. Len(Q[q]) -> 1 .. Len(queue[q])] :
             /\ \A k \in 1 .. Len(Q[q]) : Q[q][k].report = queue[q][bt[k]].report
             /\ \A k, l \in 1 .. Len(Q[q]) : bt[k] = bt[l] => k = l
    BY <1>2, <1>8
  <2>3. /\ at[i] \in DOMAIN queue[p] /\ bt[j] \in DOMAIN queue[q]
        /\ PackageOf[queue[p][at[i]].report] = PackageOf[queue[q][bt[j]].report]
    <3>1. at[i] \in DOMAIN queue[p] /\ bt[j] \in DOMAIN queue[q]
      BY <1>4, <1>5, <2>1, <2>2
    <3>2. /\ Q[p][i].report = queue[p][at[i]].report
          /\ Q[q][j].report = queue[q][bt[j]].report
      BY <1>4, <2>1, <2>2
    <3> QED
      BY <1>4, <3>1, <3>2
  <2>4. p = q /\ at[i] = bt[j]
    BY <2>3 DEF PackageInOnePlace
  <2>5. Q[q][j].report = queue[p][at[j]].report /\ at[j] \in DOMAIN queue[p]
    BY <1>4, <1>5, <2>1, <2>4
  <2>6. at[i] = at[j]
    <3>1. PackageOf[queue[p][at[i]].report] = PackageOf[queue[p][at[j]].report]
      BY <1>4, <2>1, <2>5
    <3>2. at[i] \in DOMAIN queue[p]
      BY <2>3
    <3> QED
      BY <2>5, <3>1, <3>2 DEF PackageInOnePlace
  <2> QED
    BY <1>4, <2>1, <2>4, <2>6
<1>9. CASE p = phase /\ q = phase
  <2>1. PICK at \in [1 .. Len(Q[p]) -> 1 .. Len(reports)] :
             /\ \A k \in 1 .. Len(Q[p]) : Q[p][k].report = reports[at[k]]
             /\ \A k, l \in 1 .. Len(Q[p]) : at[k] = at[l] => k = l
    BY <1>3, <1>9
  <2>2. /\ at[i] \in 1 .. Len(reports) /\ at[j] \in 1 .. Len(reports)
        /\ PackageOf[reports[at[i]]] = PackageOf[reports[at[j]]]
    BY <1>4, <1>9, <2>1
  <2>3. at[i] = at[j]
    BY <2>2, AvailableStayApart
  <2> QED
    BY <1>4, <1>9, <2>1, <2>3
<1>10. ASSUME NEW x \in Phase, x = phase, NEW k \in 1 .. Len(Q[x]),
              NEW y \in Phase, y # phase, NEW l \in 1 .. Len(Q[y])
       PROVE  PackageOf[Q[x][k].report] # PackageOf[Q[y][l].report]
  <2>3. PICK at \in [1 .. Len(Q[x]) -> 1 .. Len(reports)] :
             /\ \A n \in 1 .. Len(Q[x]) : Q[x][n].report = reports[at[n]]
             /\ \A n, m \in 1 .. Len(Q[x]) : at[n] = at[m] => n = m
    BY <1>3, <1>10
  <2>1. at[k] \in 1 .. Len(reports) /\ Q[x][k].report = reports[at[k]]
    BY <1>10, <2>3
  <2>4. PICK bt \in [1 .. Len(Q[y]) -> 1 .. Len(queue[y])] :
             /\ \A n \in 1 .. Len(Q[y]) : Q[y][n].report = queue[y][bt[n]].report
             /\ \A n, m \in 1 .. Len(Q[y]) : bt[n] = bt[m] => n = m
    BY <1>2, <1>10
  <2>2. bt[l] \in 1 .. Len(queue[y]) /\ Q[y][l].report = queue[y][bt[l]].report
    BY <1>10, <2>4
  <2> QED
    BY <1>6, <1>7, <2>1, <2>2
<1> QED
  BY <1>4, <1>8, <1>9, <1>10

\* Where the reports of the queue were before the block.
LEMMA QueueAfter ==
  ASSUME IInv, NEW s, NEW cores, NEW reports, NEW from, NEW guarantees, NEW count,
         Moves(s, cores, reports, from, guarantees, count)
  PROVE  /\ queue' \in [Phase -> Seq(Entry)]
         /\ \A p \in Phase : \A e \in ToSet(queue'[p]) :
                /\ PackageOf[e.report] \notin Packages(Now(reports, s, count))
                /\ PackageOf[e.report] \notin RecentlyAccumulated
                /\ Needs[e.report] \subseteq
                       e.needs \cup (Packages(accumulated) \cup Packages(Now(reports, s, count)))
                /\ e.report \in ToSet(reports) \cup Queued
<1> DEFINE now == Packages(Now(reports, s, count))
           done == Packages(accumulated)
           Q == UpdateQueue(reports, s, now)
<1>1. queue' = Q
  BY BlockEffects
<1>2. queue \in [Phase -> Seq(Entry)] /\ s \in Nat /\ reports \in Seq(Report) /\ NeedsMet(done)
  BY DEF IInv, ReportsTypeOK, Moves
<1>3. ReportsTypeOK /\ PackageInOnePlace
  BY DEF IInv
<1> HIDE DEF now, done
<1>4. ASSUME NEW p \in Phase PROVE Q[p] \in Seq(Entry)
  <2>1. CASE p = s % EpochLength
    BY <1>2, <2>1, NewEntries DEF Traced
  <2>2. CASE p # s % EpochLength
    BY <1>2, <2>2, OldEntries DEF Traced
  <2> QED
    BY <2>1, <2>2
<1>5. Q = [p \in Phase |-> Q[p]]
  BY DEF UpdateQueue
<1> HIDE DEF Q
<1>6. ASSUME NEW p \in Phase, NEW e \in ToSet(Q[p])
      PROVE  /\ PackageOf[e.report] \notin now
             /\ PackageOf[e.report] \notin RecentlyAccumulated
             /\ Needs[e.report] \subseteq e.needs \cup (done \cup now)
             /\ e.report \in ToSet(reports) \cup Queued
  <2>1. /\ PackageOf[e.report] \notin now
        /\ Needs[e.report] \subseteq e.needs \cup (done \cup now)
        /\ \/ e.report \in ToSet(reports) /\ PackageOf[e.report] \notin RecentlyAccumulated
           \/ \E f \in ToSet(queue[p]) : f.report = e.report
    BY <1>2, EntriesAfter DEF Q
  <2>2. CASE \E f \in ToSet(queue[p]) : f.report = e.report
    <3>1. e.report \in Queued /\ PackageOf[e.report] \notin RecentlyAccumulated
      BY <1>3, <2>2, PlacesOfPackages
    <3> QED
      BY <2>1, <3>1
  <2> QED
    BY <2>1, <2>2
<1> QED
  BY <1>1, <1>4, <1>5, <1>6 DEF now, done

\* What a block accumulates was pending or queued before.
LEMMA NowWereWaiting ==
  ASSUME IInv, NEW s, NEW cores, NEW reports, NEW from, NEW guarantees, NEW count,
         Moves(s, cores, reports, from, guarantees, count)
  PROVE  /\ Packages(Now(reports, s, count)) \subseteq Package
         /\ ToSet(Now(reports, s, count)) \subseteq Pending \cup Queued
         /\ \A x \in Packages(Now(reports, s, count)) :
                /\ x \notin RecentlyAccumulated
                /\ \E r \in ToSet(reports) \cup Queued : x = PackageOf[r]
<1> DEFINE now == Now(reports, s, count)
<1>1. now \in Seq(Report) /\ ToSet(now) \subseteq ToSet(reports) \cup Queued
  BY NowFacts
<1>2. ReportsTypeOK /\ PackageInOnePlace
  BY DEF IInv
<1> HIDE DEF now
<1>3. Packages(now) \subseteq Package
  <2>1. 0 \in 0 .. Len(now)
    BY <1>1
  <2> QED
    BY <1>1, <2>1, PackagesOfParts
<1>4. \A r \in ToSet(reports) : r \in Pending /\ PackageOf[r] \notin RecentlyAccumulated
  BY <1>2, AvailableWerePending
<1>5. \A r \in Queued : PackageOf[r] \notin RecentlyAccumulated
  BY <1>2, PlacesOfPackages
<1>6. ASSUME NEW x \in Packages(now)
      PROVE  x \notin RecentlyAccumulated /\ \E r \in ToSet(reports) \cup Queued : x = PackageOf[r]
  <2>1. PICK r \in ToSet(now) : x = PackageOf[r]
    BY DEF Packages
  <2> QED
    BY <1>1, <1>4, <1>5, <2>1
<1> QED
  BY <1>1, <1>3, <1>4, <1>6 DEF now

\* What was accumulated of late is told apart by the blocks.
LEMMA RecentlyStaysApart ==
  ASSUME IInv, NEW s, NEW cores, NEW reports, NEW from, NEW guarantees, NEW count,
         Moves(s, cores, reports, from, guarantees, count)
  PROVE  /\ recentlyAccumulated' \in [1 .. EpochLength -> SUBSET Package]
         /\ RecentlyAccumulated' \subseteq
                RecentlyAccumulated \cup Packages(Now(reports, s, count))
         /\ \A i, j \in 1 .. EpochLength :
                recentlyAccumulated'[i] \cap recentlyAccumulated'[j] # {} => i = j
<1> DEFINE now == Packages(Now(reports, s, count))
           old == recentlyAccumulated
           after == recentlyAccumulated'
<1>1. old \in [1 .. EpochLength -> SUBSET Package]
  BY DEF IInv, ReportsTypeOK
<1>2. now \in SUBSET Package /\ \A x \in now : x \notin RecentlyAccumulated
  BY NowWereWaiting
<1>3. after = Append(Tail(old), now)
  BY BlockEffects
<1> HIDE DEF now, after
<1>4. /\ after \in [1 .. EpochLength -> SUBSET Package] /\ after[EpochLength] = now
      /\ \A i \in 1 .. EpochLength : i # EpochLength =>
             i + 1 \in 1 .. EpochLength /\ after[i] = old[i + 1]
      /\ UNION ToSet(after) \subseteq RecentlyAccumulated \cup now
  <2>1. now \in SUBSET Package
    BY <1>2
  <2>2. LET next == Append(Tail(old), now)
        IN  /\ next \in [1 .. EpochLength -> SUBSET Package] /\ next[EpochLength] = now
            /\ \A i \in 1 .. EpochLength : i # EpochLength =>
                   i + 1 \in 1 .. EpochLength /\ next[i] = old[i + 1]
            /\ UNION ToSet(next) \subseteq RecentlyAccumulated \cup now
    BY <1>1, <2>1, RecentlyAfter
  <2> QED
    BY <1>3, <2>2
<1>5. \A i \in 1 .. EpochLength : old[i] \subseteq RecentlyAccumulated
  BY <1>1 DEF RecentlyAccumulated, ToSet
<1>6. \A i, j \in 1 .. EpochLength : old[i] \cap old[j] # {} => i = j
  BY DEF IInv, PackageInOnePlace
<1>7. ASSUME NEW i \in 1 .. EpochLength, i # EpochLength PROVE after[i] \cap now = {}
  BY <1>2, <1>4, <1>5, <1>7
<1>8. ASSUME NEW i \in 1 .. EpochLength, NEW j \in 1 .. EpochLength, after[i] \cap after[j] # {}
      PROVE  i = j
  <2>1. CASE i # EpochLength /\ j # EpochLength
    <3>1. old[i + 1] \cap old[j + 1] # {} /\ i + 1 \in 1 .. EpochLength /\ j + 1 \in 1 .. EpochLength
      BY <1>4, <1>8, <2>1
    <3>2. i + 1 = j + 1
      BY <1>6, <3>1
    <3> QED
      BY <3>2
  <2>2. CASE i = EpochLength /\ j # EpochLength
    <3>1. after[j] \cap now = {} /\ after[i] = now
      BY <1>4, <1>7, <2>2
    <3> QED
      BY <3>1, <1>8
  <2>3. CASE i # EpochLength /\ j = EpochLength
    <3>1. after[i] \cap now = {} /\ after[j] = now
      BY <1>4, <1>7, <2>3
    <3> QED
      BY <3>1, <1>8
  <2> QED
    BY <2>1, <2>2, <2>3
<1>9. RecentlyAccumulated' = UNION ToSet(after)
  BY DEF RecentlyAccumulated, after
<1> QED
  BY <1>4, <1>8, <1>9 DEF after, now

\* The reports on cores and in the queue after a block.
LEMMA WaitingAfter ==
  ASSUME IInv, NEW s, NEW cores, NEW reports, NEW from, NEW guarantees, NEW count,
         Moves(s, cores, reports, from, guarantees, count)
  PROVE  /\ \A r \in Pending' :
                \/ r \in guarantees
                \/ \E c \in Engaged(assignment) :
                       r = assignment[c].report /\ \A i \in 1 .. Len(reports) : from[i] # c
         /\ \A r \in Queued' :
                /\ r \in ToSet(reports) \cup Queued
                /\ PackageOf[r] \notin RecentlyAccumulated
                /\ PackageOf[r] \notin Packages(Now(reports, s, count))
<1>1. ReportsTypeOK /\ PackageInOnePlace
  BY DEF IInv
<1>2. ASSUME NEW r \in Pending'
      PROVE  \/ r \in guarantees
             \/ \E c \in Engaged(assignment) :
                    r = assignment[c].report /\ \A i \in 1 .. Len(reports) : from[i] # c
  <2>1. PICK c \in Engaged(assignment') : r = assignment'[c].report
    BY DEF Pending
  <2>2. \/ \E q \in guarantees : CoreOf[q] = c /\ assignment'[c].report = q
        \/ /\ c \in Engaged(assignment) /\ assignment'[c] = assignment[c]
           /\ \A i \in 1 .. Len(reports) : from[i] # c
    BY <1>1, AssignmentAfter
  <2> QED
    BY <2>1, <2>2
<1>3. ASSUME NEW r \in Queued'
      PROVE  /\ r \in ToSet(reports) \cup Queued
             /\ PackageOf[r] \notin RecentlyAccumulated
             /\ PackageOf[r] \notin Packages(Now(reports, s, count))
  <2>1. PICK p \in Phase : \E e \in ToSet(queue'[p]) : r = e.report
    BY DEF Queued
  <2>2. PICK e \in ToSet(queue'[p]) : r = e.report
    BY <2>1
  <2> QED
    BY <2>2, QueueAfter
<1> QED
  BY <1>2, <1>3

\* A report that stays on its core is of another package than what leaves the cores
\* and what was in the queue.
LEMMA StayingPackages ==
  ASSUME IInv, NEW s, NEW cores, NEW reports, NEW from, NEW guarantees, NEW count,
         Moves(s, cores, reports, from, guarantees, count),
         NEW r \in Pending', NEW q \in ToSet(reports) \cup Queued
  PROVE  PackageOf[r] # PackageOf[q] /\ PackageOf[r] \notin RecentlyAccumulated
<1>1. ReportsTypeOK /\ PackageInOnePlace /\ guarantees \subseteq {x \in Report : CanBeGuaranteed(x)}
  BY DEF IInv, Moves
<1>2. CASE r \in guarantees
  <2>1. q \in Queued \cup Pending
    BY <1>1, AvailableWerePending
  <2> QED
    BY <1>1, <1>2, <2>1, NewGuarantees
<1>3. ASSUME NEW c \in Engaged(assignment), r = assignment[c].report,
             \A i \in 1 .. Len(reports) : from[i] # c
      PROVE  PackageOf[r] # PackageOf[q] /\ PackageOf[r] \notin RecentlyAccumulated
  <2>1. PackageOf[r] \notin RecentlyAccumulated
    BY <1>1, <1>3, PlacesOfPackages
  <2>2. CASE q \in Queued
    BY <1>1, <1>3, <2>1, <2>2, PlacesOfPackages
  <2>3. CASE q \in ToSet(reports)
    <3>1. PICK i \in 1 .. Len(reports) : q = reports[i]
      BY <1>1, <2>3, AvailableWerePending
    <3>2. from[i] \in Engaged(assignment) /\ q = assignment[from[i]].report /\ from[i] # c
      BY <1>1, <1>3, <3>1, AvailableWerePending
    <3> QED
      BY <1>3, <2>1, <3>2 DEF IInv, PackageInOnePlace
  <2> QED
    BY <2>2, <2>3
<1> QED
  BY <1>2, <1>3, WaitingAfter

LEMMA PackagesStayInPlace ==
  ASSUME IInv, NEW s, NEW cores, NEW reports, NEW from, NEW guarantees, NEW count,
         Moves(s, cores, reports, from, guarantees, count)
  PROVE  PackageInOnePlace'
<1>1. ReportsTypeOK /\ PackageInOnePlace
  BY DEF IInv
<1>2. \A c, d \in Engaged(assignment') :
          PackageOf[assignment'[c].report] = PackageOf[assignment'[d].report] => c = d
  BY <1>1, CoresStayApart
<1>3. \A p, q \in Phase : \A i \in DOMAIN queue'[p], j \in DOMAIN queue'[q] :
          PackageOf[queue'[p][i].report] = PackageOf[queue'[q][j].report] => p = q /\ i = j
  BY <1>1, QueueStaysApart
<1>4. \A i, j \in 1 .. EpochLength :
          recentlyAccumulated'[i] \cap recentlyAccumulated'[j] # {} => i = j
  BY RecentlyStaysApart
<1>5. ASSUME NEW r \in Pending', NEW q \in Queued' PROVE PackageOf[r] # PackageOf[q]
  <2>1. q \in ToSet(reports) \cup Queued
    BY WaitingAfter
  <2> QED
    BY <2>1, StayingPackages
<1>6. ASSUME NEW r \in Queued' PROVE PackageOf[r] \notin RecentlyAccumulated'
  BY WaitingAfter, RecentlyStaysApart
<1>7. ASSUME NEW r \in Pending' PROVE PackageOf[r] \notin RecentlyAccumulated'
  <2>1. ASSUME PackageOf[r] \in Packages(Now(reports, s, count)) PROVE FALSE
    <3>1. PICK q \in ToSet(reports) \cup Queued : PackageOf[r] = PackageOf[q]
      BY <2>1, NowWereWaiting
    <3> QED
      BY <3>1, StayingPackages
  <2>2. ASSUME PackageOf[r] \in RecentlyAccumulated PROVE FALSE
    <3>1. CASE r \in guarantees
      BY <2>2, <3>1, NewGuarantees DEF Moves
    <3>2. CASE \E c \in Engaged(assignment) : r = assignment[c].report
      BY <1>1, <2>2, <3>2, PlacesOfPackages
    <3> QED
      BY <3>1, <3>2, WaitingAfter
  <2> QED
    BY <2>1, <2>2, RecentlyStaysApart
<1> DEFINE onCores == {PackageOf[r] : r \in Pending'}
           inQueue == {PackageOf[r] : r \in Queued'}
<1>8. onCores \cap inQueue = {} /\ (onCores \cup inQueue) \cap RecentlyAccumulated' = {}
  BY <1>5, <1>6, <1>7
<1> HIDE DEF onCores, inQueue
<1>9. {PackageOf[r] : r \in Pending}' = onCores /\ {PackageOf[r] : r \in Queued}' = inQueue
  BY DEF onCores, inQueue
<1> QED
  BY <1>2, <1>3, <1>4, <1>8, <1>9 DEF PackageInOnePlace

(* What a block keeps of the invariant *)

LEMMA NeedsStayMet ==
  ASSUME IInv, NEW s, NEW cores, NEW reports, NEW from, NEW guarantees, NEW count,
         Moves(s, cores, reports, from, guarantees, count)
  PROVE  /\ accumulated' \in Seq(Report)
         /\ ToSet(accumulated') = ToSet(accumulated) \cup ToSet(Now(reports, s, count))
         /\ NeedsMet(Packages(accumulated))'
         /\ Ordered({}, accumulated)'
<1> DEFINE now == Now(reports, s, count)
<1>1. /\ accumulated \in Seq(Report) /\ NeedsMet(Packages(accumulated)) /\ Ordered({}, accumulated)
  BY DEF IInv, ReportsTypeOK
<1>2. now \in Seq(Report) /\ Ordered(Packages(accumulated), now)
  BY NowFacts
<1>3. accumulated' = accumulated \o now
  BY BlockEffects
<1>4. \A p \in Phase : \A e \in ToSet(queue'[p]) :
          Needs[e.report] \subseteq e.needs \cup (Packages(accumulated) \cup Packages(now))
  BY QueueAfter
<1>5. RecentlyAccumulated' \subseteq RecentlyAccumulated \cup Packages(now)
  BY RecentlyStaysApart
<1> HIDE DEF now
<1>6. accumulated' \in Seq(Report) /\ ToSet(accumulated') = ToSet(accumulated) \cup ToSet(now)
  <2>1. 0 \in 0 .. Len(accumulated)
    BY <1>1
  <2> QED
    BY <1>1, <1>2, <1>3, <2>1, Elements
<1>7. Packages(accumulated)' = Packages(accumulated) \cup Packages(now)
  BY <1>6 DEF Packages
<1>8. NeedsMet(Packages(accumulated))'
  BY <1>1, <1>4, <1>5, <1>7 DEF NeedsMet, Met
<1>9. Ordered({}, accumulated')
  <2>1. {} \cup Packages(accumulated) = Packages(accumulated)
    OBVIOUS
  <2>2. Ordered({} \cup Packages(accumulated), now)
    BY <1>2, <2>1
  <2>3. Ordered({}, accumulated \o now)
    BY <1>1, <1>2, <2>2, OrderedConcat
  <2> QED
    BY <1>3, <2>3
<1> QED
  BY <1>6, <1>8, <1>9 DEF now

\* The history after a block: one block more, and the oldest may be forgotten.
LEMMA RecordFacts ==
  ASSUME recent \in Seq([number : Nat, reported : SUBSET Package]), Len(recent) <= History,
         height \in Nat, NEW guarantees \in SUBSET Report
  PROVE  LET blocks == Append(recent, [number |-> height + 1, reported |-> PackagesIn(guarantees)])
             after == RecordBlock(guarantees)
         IN  /\ after \in Seq([number : Nat, reported : SUBSET Package]) /\ Len(after) <= History
             /\ \E d \in {0, 1} :
                    /\ Len(after) = Len(recent) + 1 - d
                    /\ \A i \in 1 .. Len(after) : after[i] = blocks[i + d]
<1> DEFINE B == [number : Nat, reported : SUBSET Package]
           new == [number |-> height + 1, reported |-> PackagesIn(guarantees)]
           blocks == Append(recent, new)
           after == RecordBlock(guarantees)
<1>1. PackagesIn(guarantees) \subseteq Package
  BY ReportAssumption DEF PackagesIn
<1>2. new \in B
  BY <1>1
<1>3. after = IF Len(blocks) > History THEN Tail(blocks) ELSE blocks
  BY DEF RecordBlock
<1>4. recent \in Seq(B) /\ Len(recent) \in Nat /\ History \in Nat \ {0}
  BY SpecAssumption
<1> HIDE DEF after, new, B
<1>5. blocks \in Seq(B) /\ Len(blocks) = Len(recent) + 1 /\ blocks # <<>>
  BY <1>2, <1>4
<1> HIDE DEF blocks
<1>6. CASE Len(blocks) > History
  <2>1. Tail(blocks) \in Seq(B) /\ Len(Tail(blocks)) = Len(blocks) - 1
        /\ \A i \in 1 .. (Len(blocks) - 1) : Tail(blocks)[i] = blocks[i + 1]
    BY <1>5
  <2>2. /\ after \in Seq(B) /\ Len(after) = Len(recent) + 1 - 1
        /\ \A i \in 1 .. Len(after) : after[i] = blocks[i + 1]
    BY <1>3, <1>4, <1>5, <1>6, <2>1
  <2>3. Len(after) <= History
    BY <1>4, <2>2
  <2> QED
    BY <2>2, <2>3 DEF after, blocks, new, B
<1>7. CASE ~(Len(blocks) > History)
  <2>1. /\ after \in Seq(B) /\ Len(after) = Len(recent) + 1 - 0 /\ Len(after) <= History
        /\ \A i \in 1 .. Len(after) : after[i] = blocks[i + 0]
    BY <1>3, <1>4, <1>5, <1>7
  <2> QED
    BY <2>1 DEF after, blocks, new, B
<1> QED
  BY <1>6, <1>7

LEMMA HistoryStaysKnown ==
  ASSUME IInv, NEW s, NEW cores, NEW reports, NEW from, NEW guarantees, NEW count,
         Moves(s, cores, reports, from, guarantees, count)
  PROVE  /\ recent' \in Seq([number : Nat, reported : SUBSET Package]) /\ Len(recent') <= History
         /\ HistoryKnown'
<1> DEFINE new == [number |-> height + 1, reported |-> PackagesIn(guarantees)]
           blocks == Append(recent, new)
           L == Len(recent)
           N == Len(recent')
<1>1. /\ recent \in Seq([number : Nat, reported : SUBSET Package]) /\ Len(recent) <= History
      /\ height \in Nat /\ guaranteed \subseteq Report /\ HistoryKnown
  BY DEF IInv, ReportsTypeOK
<1>2. guarantees \subseteq {r \in Report : CanBeGuaranteed(r)} /\ guarantees \in SUBSET Report
  BY DEF Moves
<1>3. recent' = RecordBlock(guarantees) /\ guaranteed' = guaranteed \cup guarantees /\ height' = height + 1
  BY BlockEffects
<1>4. recent' \in Seq([number : Nat, reported : SUBSET Package]) /\ N <= History
  BY <1>1, <1>2, <1>3, RecordFacts
<1>5. PICK d \in {0, 1} : N = L + 1 - d /\ \A i \in 1 .. N : recent'[i] = blocks[i + d]
  BY <1>1, <1>2, <1>3, RecordFacts
<1>6. L \in Nat /\ N \in Nat /\ d \in Nat
  BY <1>1, <1>5
<1>7. blocks[L + 1] = new /\ \A i \in 1 .. L : blocks[i] = recent[i]
  BY <1>1
<1>8. new.number = height + 1 /\ new.reported = PackagesIn(guarantees)
  OBVIOUS
<1>9. \A i \in 1 .. L : recent[i].number = height - L + i
  BY <1>1 DEF HistoryKnown
<1> HIDE DEF new, blocks, L, N
<1>10. \A i \in 1 .. L + 1 : blocks[i].number = height - L + i
  <2> SUFFICES ASSUME NEW i \in 1 .. L + 1 PROVE blocks[i].number = height - L + i
    OBVIOUS
  <2>1. CASE i = L + 1
    BY <1>1, <1>6, <1>7, <1>8, <2>1
  <2>2. CASE i # L + 1
    <3>1. i \in 1 .. L
      BY <1>6, <2>2
    <3> QED
      BY <1>7, <1>9, <3>1
  <2> QED
    BY <2>1, <2>2
<1>11. \A i \in 1 .. N : i + d \in 1 .. L + 1 /\ i \in Nat
  BY <1>5, <1>6
<1>12. \A i \in 1 .. N : recent'[i].number = (height + 1) - N + i
  <2> SUFFICES ASSUME NEW i \in 1 .. N PROVE recent'[i].number = (height + 1) - N + i
    OBVIOUS
  <2>1. recent'[i].number = height - L + (i + d)
    BY <1>5, <1>10, <1>11
  <2> QED
    BY <1>1, <1>5, <1>6, <1>11, <2>1
<1>13. \A r \in guarantees : r \in Report /\ AnchorOf[r] <= height
  <2> SUFFICES ASSUME NEW r \in guarantees PROVE r \in Report /\ AnchorOf[r] <= height
    OBVIOUS
  <2>1. r \in Report /\ \E b \in ToSet(recent) : b.number = AnchorOf[r]
    BY <1>2, NewGuarantees
  <2>2. PICK i \in 1 .. L : recent[i].number = AnchorOf[r]
    BY <1>1, <2>1 DEF ToSet, L
  <2>3. AnchorOf[r] = height - L + i
    BY <1>9, <2>2
  <2> QED
    BY <1>1, <1>6, <2>1, <2>3
<1>14. ASSUME NEW r \in guaranteed'
       PROVE  r \in Report /\ AnchorOf[r] \in Nat /\ AnchorOf[r] <= height
  <2>1. r \in Report /\ AnchorOf[r] <= height
    BY <1>1, <1>3, <1>13 DEF HistoryKnown
  <2> QED
    BY <2>1, ContextAssumption
<1>15. ASSUME NEW r \in guaranteed', NEW j \in 1 .. N, recent'[j].number = AnchorOf[r]
       PROVE  \E k \in (j + 1) .. N : PackageOf[r] \in recent'[k].reported
  <2>1. j + d \in 1 .. L /\ blocks[j + d].number = AnchorOf[r]
    <3>1. j + d \in 1 .. L + 1 /\ blocks[j + d].number = AnchorOf[r]
      BY <1>5, <1>11, <1>15
    <3>2. height - L + (j + d) <= height
      BY <1>10, <1>14, <3>1
    <3> QED
      BY <1>1, <1>6, <3>1, <3>2
  <2>2. CASE r \in guarantees
    <3>1. N \in (j + 1) .. N /\ N + d = L + 1 /\ N \in 1 .. N
      BY <1>5, <1>6, <1>11, <2>1
    <3>2. recent'[N] = new
      BY <1>5, <1>7, <3>1
    <3>3. PackageOf[r] \in new.reported
      BY <1>8, <2>2 DEF PackagesIn
    <3> QED
      BY <3>1, <3>2, <3>3
  <2>3. CASE r \in guaranteed
    <3>1. recent[j + d].number = AnchorOf[r]
      BY <1>7, <2>1
    <3>2. PICK k \in (j + d + 1) .. L : PackageOf[r] \in recent[k].reported
      BY <1>1, <2>1, <2>3, <3>1 DEF HistoryKnown, L
    <3>3. k \in 1 .. L /\ k - d \in (j + 1) .. N /\ k - d \in 1 .. N /\ (k - d) + d = k
      BY <1>5, <1>6, <2>1
    <3>4. recent'[k - d] = recent[k]
      BY <1>5, <1>7, <3>3
    <3> QED
      BY <3>2, <3>3, <3>4
  <2> QED
    BY <1>3, <2>2, <2>3
<1>16. HistoryKnown'
  <2>1. ASSUME NEW r \in guaranteed' PROVE AnchorOf[r] <= height + 1
    BY <1>1, <1>14
  <2> QED
    BY <1>3, <1>12, <1>15, <2>1 DEF HistoryKnown, N
<1> QED
  BY <1>4, <1>16 DEF N

LEMMA PipelineStaysKnown ==
  ASSUME IInv, NEW s, NEW cores, NEW reports, NEW from, NEW guarantees, NEW count,
         Moves(s, cores, reports, from, guarantees, count)
  PROVE  PipelineKnown' /\ ToSet(reports) \subseteq guaranteed
<1>1. /\ ReportsTypeOK /\ PackageInOnePlace
      /\ Queued \cup Pending \cup ToSet(accumulated) \subseteq guaranteed
      /\ \A c \in Engaged(assignment) : GasOf[assignment[c].report] <= ReportGas
  BY DEF IInv, PipelineKnown
<1>2. guaranteed' = guaranteed \cup guarantees
  BY BlockEffects
<1>3. guarantees \subseteq {r \in Report : CanBeGuaranteed(r)}
  BY DEF Moves
<1>4. ToSet(reports) \subseteq Pending
  BY <1>1, AvailableWerePending
<1>5. Queued' \subseteq guaranteed'
  BY <1>1, <1>2, <1>4, WaitingAfter
<1>6. Pending' \subseteq guaranteed'
  <2> SUFFICES ASSUME NEW r \in Pending' PROVE r \in guaranteed'
    OBVIOUS
  <2>1. CASE r \in guarantees
    BY <1>2, <2>1
  <2>2. CASE \E c \in Engaged(assignment) : r = assignment[c].report
    BY <1>1, <1>2, <2>2, PlacesOfPackages
  <2> QED
    BY <2>1, <2>2, WaitingAfter
<1>7. ToSet(accumulated)' \subseteq guaranteed'
  <2>1. ToSet(accumulated') = ToSet(accumulated) \cup ToSet(Now(reports, s, count))
    BY NeedsStayMet
  <2>2. ToSet(Now(reports, s, count)) \subseteq Pending \cup Queued
    BY NowWereWaiting
  <2> QED
    BY <1>1, <1>2, <2>1, <2>2
<1>8. ASSUME NEW c \in Engaged(assignment') PROVE GasOf[assignment'[c].report] <= ReportGas
  <2>1. CASE \E r \in guarantees : CoreOf[r] = c /\ assignment'[c].report = r
    BY <1>3, <2>1, NewGuarantees
  <2>2. CASE c \in Engaged(assignment) /\ assignment'[c] = assignment[c]
    BY <1>1, <2>2
  <2> QED
    BY <1>1, <2>1, <2>2, AssignmentAfter
<1> QED
  BY <1>1, <1>4, <1>5, <1>6, <1>7, <1>8 DEF PipelineKnown

LEMMA NothingIsDropped ==
  ASSUME IInv, NEW s, NEW cores, NEW reports, NEW from, NEW guarantees, NEW count,
         Moves(s, cores, reports, from, guarantees, count)
  PROVE  NeverDropped'
<1>1. ToSet(accumulated') = ToSet(accumulated) \cup ToSet(Now(reports, s, count))
  BY NeedsStayMet
<1>2. available' = available \cup ToSet(reports)
  BY BlockEffects
<1>3. \A r \in ToSet(reports) : Needs[r] = {} => r \in ToSet(Now(reports, s, count))
  BY NowFacts
<1>4. \A r \in available : Needs[r] = {} => r \in ToSet(accumulated)
  BY DEF IInv, NeverDropped
<1> QED
  BY <1>1, <1>2, <1>3, <1>4 DEF NeverDropped

LEMMA VerdictsType ==
  ASSUME NEW verdicts \in Verdicts
  PROVE  DOMAIN verdicts \subseteq Report /\ \A r \in DOMAIN verdicts : verdicts[r] \in Verdict
<1>1. CASE verdicts = [r \in {} |-> "good"]
  BY <1>1
<1>2. CASE \E r \in Report : verdicts \in [{r} -> Verdict]
  BY <1>2
<1>3. verdicts = [r \in {} |-> "good"] \/ \E r \in Report : verdicts \in [{r} -> Verdict]
  BY DEF Verdicts
<1> QED
  BY <1>1, <1>2, <1>3

\* The variables that no report is in.
LEMMA RecordsType ==
  ASSUME ReportsTypeOK, ReportsNext
  PROVE  /\ height' \in Nat /\ slot' \in Nat
         /\ DOMAIN judged' \subseteq Report /\ Range(judged') \subseteq Verdict
         /\ punished' \subseteq Validator /\ reporters' \subseteq Validator
         /\ keys' \in [{"current", "previous", "next"} -> SUBSET Validator]
<1>1. PICK s \in slot + 1 .. slot + MaxSkip, verdicts \in Verdicts, offenders \in SUBSET Validator :
          /\ slot' = s
          /\ punished' = punished \cup offenders
          /\ keys' = RotateKeys(s, punished')
          /\ \E assured \in SUBSET Engaged(assignment),
                guarantees \in SUBSET {r \in Report : CanBeGuaranteed(r)} :
                 \E signers \in Signers(guarantees) :
                     ImportBlock(s, verdicts, offenders, assured, guarantees, signers)
  BY DEF ReportsNext
<1>2. PICK assured, guarantees :
          \E signers \in Signers(guarantees) :
              ImportBlock(s, verdicts, offenders, assured, guarantees, signers)
  BY <1>1
<1>3. PICK signers \in Signers(guarantees) :
          ImportBlock(s, verdicts, offenders, assured, guarantees, signers)
  BY <1>2
<1>4. signers \subseteq Validator
  BY DEF Signers
<1>5. judged' = UpdateRecords(verdicts) /\ reporters' = signers
  BY <1>3 DEF ImportBlock
<1>6. height' \in Nat /\ slot' \in Nat
  BY <1>1 DEF ReportsNext, ReportsTypeOK
<1>7. punished' \subseteq Validator /\ reporters' \subseteq Validator
  BY <1>1, <1>4, <1>5 DEF ReportsTypeOK
<1>8. keys' \in [{"current", "previous", "next"} -> SUBSET Validator]
  <2>1. keys \in [{"current", "previous", "next"} -> SUBSET Validator]
    BY DEF ReportsTypeOK
  <2>2. CASE EpochChanged(s)
    <3>1. keys' = [current |-> keys.next, previous |-> keys.current, next |-> Validator \ punished']
      BY <1>1, <2>2 DEF RotateKeys
    <3>2. keys.next \in SUBSET Validator /\ keys.current \in SUBSET Validator
          /\ Validator \ punished' \in SUBSET Validator
      BY <2>1
    <3> QED
      BY <3>1, <3>2
  <2>3. CASE ~EpochChanged(s)
    BY <1>1, <2>1, <2>3 DEF RotateKeys
  <2> QED
    BY <2>2, <2>3
<1>9. DOMAIN judged' \subseteq Report /\ Range(judged') \subseteq Verdict
  <2>1. DOMAIN verdicts \subseteq Report /\ \A r \in DOMAIN verdicts : verdicts[r] \in Verdict
    BY VerdictsType
  <2>2. DOMAIN judged \subseteq Report /\ \A r \in DOMAIN judged : judged[r] \in Verdict
    BY DEF ReportsTypeOK, Range
  <2>3. /\ DOMAIN judged' = DOMAIN judged \cup DOMAIN verdicts
        /\ \A r \in DOMAIN judged' : judged'[r] = IF r \in DOMAIN verdicts THEN verdicts[r] ELSE judged[r]
    BY <1>5 DEF UpdateRecords
  <2> QED
    BY <2>1, <2>2, <2>3 DEF Range
<1> QED
  BY <1>6, <1>7, <1>8, <1>9

LEMMA InitIInv == ReportsInit => IInv
<1> SUFFICES ASSUME ReportsInit PROVE IInv
  OBVIOUS
<1>1. /\ height = 0 /\ slot = 0 /\ recent = <<>> /\ accumulated = <<>>
      /\ assignment = [c \in Core |-> NoReport] /\ queue = [p \in Phase |-> <<>>]
      /\ recentlyAccumulated = [i \in 1 .. EpochLength |-> {}]
      /\ judged = [r \in {} |-> "good"] /\ punished = {} /\ reporters = {}
      /\ keys = [current |-> Validator, previous |-> Validator, next |-> Validator]
      /\ guaranteed = {} /\ available = {}
  BY DEF ReportsInit
<1>2. Engaged(assignment) = {} /\ Pending = {}
  BY <1>1 DEF Engaged, Pending
<1>3. ToSet(<<>>) = {}
  BY DEF ToSet
<1>4. Queued = {} /\ \A p \in Phase : queue[p] = <<>> /\ DOMAIN queue[p] = {}
  BY <1>1, <1>3 DEF Queued
<1>5. RecentlyAccumulated = {} /\ \A i \in 1 .. EpochLength : recentlyAccumulated[i] = {}
  BY <1>1 DEF RecentlyAccumulated, ToSet
<1>6. ReportsTypeOK
  <2>1. DOMAIN judged = {} /\ Range(judged) = {}
    BY <1>1 DEF Range
  <2>2. queue \in [Phase -> Seq(Entry)]
    BY <1>1
  <2>3. Len(recent) <= History
    BY <1>1, SpecAssumption
  <2>4. recentlyAccumulated \in [1 .. EpochLength -> SUBSET Package]
    BY <1>1
  <2>5. keys \in [{"current", "previous", "next"} -> SUBSET Validator]
    BY <1>1
  <2>6. accumulated \in Seq(Report) /\ recent \in Seq([number : Nat, reported : SUBSET Package])
    BY <1>1
  <2>7. assignment \in [Core -> Assignment \cup {NoReport}]
    BY <1>1
  <2> QED
    BY <1>1, <2>1, <2>2, <2>3, <2>4, <2>5, <2>6, <2>7 DEF ReportsTypeOK
<1>7. PackageInOnePlace
  BY <1>2, <1>4, <1>5 DEF PackageInOnePlace
<1>8. NeedsMet(Packages(accumulated)) /\ Ordered({}, accumulated)
  BY <1>1, <1>3, <1>4, <1>5 DEF NeedsMet, Met, Ordered
<1>9. HistoryKnown /\ PipelineKnown /\ NeverDropped
  BY <1>1, <1>2, <1>3, <1>4 DEF HistoryKnown, PipelineKnown, NeverDropped
<1> QED
  BY <1>6, <1>7, <1>8, <1>9 DEF IInv

LEMMA BlockIInv == IInv /\ ReportsNext => IInv'
<1> SUFFICES ASSUME IInv, ReportsNext PROVE IInv'
  OBVIOUS
<1>1. ReportsTypeOK /\ PackageInOnePlace
  BY DEF IInv
<1>2. PICK s, cores, reports, from, guarantees, count :
          Moves(s, cores, reports, from, guarantees, count)
  BY <1>1, BlockMoves
<1>3. PackageInOnePlace' /\ NeedsMet(Packages(accumulated))' /\ Ordered({}, accumulated)'
      /\ HistoryKnown' /\ PipelineKnown' /\ NeverDropped'
  BY <1>2, PackagesStayInPlace, NeedsStayMet, HistoryStaysKnown, PipelineStaysKnown, NothingIsDropped
<1>4. /\ height' \in Nat /\ slot' \in Nat
      /\ DOMAIN judged' \subseteq Report /\ Range(judged') \subseteq Verdict
      /\ punished' \subseteq Validator /\ reporters' \subseteq Validator
      /\ keys' \in [{"current", "previous", "next"} -> SUBSET Validator]
  BY <1>1, RecordsType
<1>5. recent' \in Seq([number : Nat, reported : SUBSET Package]) /\ Len(recent') <= History
  BY <1>2, HistoryStaysKnown
<1>6. assignment' \in [Core -> Assignment \cup {NoReport}]
  BY <1>1, <1>2, AssignmentAfter
<1>7. queue' \in [Phase -> Seq(Entry)]
  BY <1>2, QueueAfter
<1>8. recentlyAccumulated' \in [1 .. EpochLength -> SUBSET Package]
  BY <1>2, RecentlyStaysApart
<1>9. accumulated' \in Seq(Report)
  BY <1>2, NeedsStayMet
<1>10. guaranteed' \subseteq Report /\ available' \subseteq guaranteed'
  <2>1. guaranteed' = guaranteed \cup guarantees /\ available' = available \cup ToSet(reports)
    BY <1>2, BlockEffects
  <2>2. guarantees \subseteq Report
    BY <1>2 DEF Moves
  <2>3. ToSet(reports) \subseteq guaranteed
    BY <1>2, PipelineStaysKnown
  <2> QED
    BY <1>1, <2>1, <2>2, <2>3 DEF ReportsTypeOK
<1>11. ReportsTypeOK'
  BY <1>4, <1>5, <1>6, <1>7, <1>8, <1>9, <1>10 DEF ReportsTypeOK
<1> QED
  BY <1>3, <1>11 DEF IInv

LEMMA StutterIInv == IInv /\ UNCHANGED reportsVars => IInv'
<1> SUFFICES ASSUME IInv, UNCHANGED reportsVars PROVE IInv'
  OBVIOUS
<1>1. /\ height' = height /\ slot' = slot /\ recent' = recent /\ assignment' = assignment
      /\ queue' = queue /\ recentlyAccumulated' = recentlyAccumulated /\ judged' = judged
      /\ punished' = punished /\ keys' = keys /\ reporters' = reporters
      /\ guaranteed' = guaranteed /\ available' = available /\ accumulated' = accumulated
  BY DEF reportsVars
<1>2. Engaged(assignment)' = Engaged(assignment) /\ Pending' = Pending
  BY <1>1 DEF Engaged, Pending
<1>3. Queued' = Queued
  BY <1>1 DEF Queued
<1>4. RecentlyAccumulated' = RecentlyAccumulated
  BY <1>1 DEF RecentlyAccumulated
<1>5. ReportsTypeOK'
  BY <1>1 DEF IInv, ReportsTypeOK
<1>6. PackageInOnePlace'
  BY <1>1, <1>2, <1>3, <1>4 DEF IInv, PackageInOnePlace
<1>7. NeedsMet(Packages(accumulated))'
  BY <1>1, <1>4 DEF IInv, NeedsMet, Met, Packages
<1>8. Ordered({}, accumulated')
  BY <1>1 DEF IInv
<1>9. HistoryKnown'
  BY <1>1 DEF IInv, HistoryKnown
<1>10. PipelineKnown'
  BY <1>1, <1>2, <1>3 DEF IInv, PipelineKnown
<1>11. NeverDropped'
  BY <1>1 DEF IInv, NeverDropped
<1> QED
  BY <1>5, <1>6, <1>7, <1>8, <1>9, <1>10, <1>11 DEF IInv

LEMMA NextIInv == IInv /\ [ReportsNext]_reportsVars => IInv'
BY BlockIInv, StutterIInv

LEMMA InvariantHolds == ReportsSpec => []IInv
<1>1. ReportsInit => IInv
  BY InitIInv
<1>2. IInv /\ [ReportsNext]_reportsVars => IInv'
  BY NextIInv
<1> QED
  BY <1>1, <1>2, PTL DEF ReportsSpec

(* The life of a report *)

\* The package of a report that was guaranteed before is still in the recent history
\* when its anchor is.
LEMMA GuaranteesAreNew ==
  ASSUME IInv, NEW guarantees, guarantees \subseteq {r \in Report : CanBeGuaranteed(r)}
  PROVE  guarantees \cap guaranteed = {}
<1> SUFFICES ASSUME NEW r \in guarantees, r \in guaranteed PROVE FALSE
  OBVIOUS
<1>1. PackageOf[r] \notin ReportedIn(recent) /\ \E b \in ToSet(recent) : b.number = AnchorOf[r]
  BY NewGuarantees
<1>2. recent \in Seq([number : Nat, reported : SUBSET Package])
  BY DEF IInv, ReportsTypeOK
<1>3. PICK j \in 1 .. Len(recent) : recent[j].number = AnchorOf[r]
  BY <1>1, <1>2 DEF ToSet
<1>4. PICK k \in (j + 1) .. Len(recent) : PackageOf[r] \in recent[k].reported
  BY <1>3 DEF IInv, HistoryKnown
<1>5. k \in DOMAIN recent /\ recent[k] \in ToSet(recent)
  BY <1>2, <1>3, <1>4 DEF ToSet
<1>6. PackageOf[r] \in ReportedIn(recent)
  BY <1>4, <1>5 DEF ReportedIn
<1> QED
  BY <1>1, <1>6

\* A report that is guaranteed gets the core it is for.
LEMMA GuaranteesArePending ==
  ASSUME NEW s, NEW cores, NEW reports, NEW from, NEW guarantees, NEW count,
         Moves(s, cores, reports, from, guarantees, count)
  PROVE  guarantees \subseteq Pending'
<1> SUFFICES ASSUME NEW r \in guarantees PROVE r \in Pending'
  OBVIOUS
<1>1. /\ s \in Nat /\ guarantees \subseteq Report
      /\ \A x, q \in guarantees : x # q => CoreOf[x] # CoreOf[q]
      /\ assignment' = PlaceReports(cores, guarantees, s)
  BY DEF Moves, AreValidGuarantees
<1> DEFINE c == CoreOf[r]
<1>2. r \in Report /\ c \in Core
  BY <1>1, ContextAssumption DEF Core
<1>3. (CHOOSE q \in guarantees : CoreOf[q] = c) = r
  BY <1>1
<1>4. assignment'[c] = [report |-> r, timeout |-> s]
  BY <1>1, <1>2, <1>3 DEF PlaceReports
<1>5. [report |-> r, timeout |-> s] \in Assignment
  BY <1>1, <1>2 DEF Assignment
<1>6. assignment'[c] # NoReport /\ assignment'[c].report = r
  BY <1>4, <1>5, NoReportAssumption
<1>7. c \in Engaged(assignment)'
  BY <1>2, <1>6 DEF Engaged
<1> QED
  BY <1>6, <1>7 DEF Pending

\* The places a report may come to in a block.
LEMMA PlacesOfReports ==
  ASSUME IInv, NEW s, NEW cores, NEW reports, NEW from, NEW guarantees, NEW count,
         Moves(s, cores, reports, from, guarantees, count)
  PROVE  /\ ToSet(accumulated) \subseteq ToSet(accumulated')
         /\ ToSet(accumulated') \subseteq ToSet(accumulated) \cup Pending \cup Queued
         /\ Queued' \subseteq Pending \cup Queued
         /\ Pending' \subseteq guarantees \cup Pending
         /\ guarantees \subseteq Pending' /\ guarantees \cap guaranteed = {}
         /\ guaranteed' = guaranteed \cup guarantees
         /\ Queued \cup Pending \cup ToSet(accumulated) \subseteq guaranteed
         /\ Pending \cap Queued = {}
<1> DEFINE now == Now(reports, s, count)
<1>1. ReportsTypeOK /\ PackageInOnePlace
  BY DEF IInv
<1>2. ToSet(accumulated') = ToSet(accumulated) \cup ToSet(now)
  BY NeedsStayMet
<1>3. ToSet(now) \subseteq Pending \cup Queued
  BY NowWereWaiting
<1> HIDE DEF now
<1>4. Queued' \subseteq Pending \cup Queued
  <2>1. \A r \in Queued' : r \in ToSet(reports) \cup Queued
    BY WaitingAfter
  <2>2. \A r \in ToSet(reports) : r \in Pending
    BY <1>1, AvailableWerePending
  <2> QED
    BY <2>1, <2>2
<1>5. Pending' \subseteq guarantees \cup Pending
  <2>1. \A r \in Pending' : r \in guarantees \/ \E c \in Engaged(assignment) : r = assignment[c].report
    BY WaitingAfter
  <2> QED
    BY <2>1 DEF Pending
<1>6. guarantees \subseteq Pending'
  BY GuaranteesArePending
<1>7. guarantees \cap guaranteed = {}
  <2>1. guarantees \subseteq {r \in Report : CanBeGuaranteed(r)}
    BY DEF Moves
  <2> QED
    BY <2>1, GuaranteesAreNew
<1>8. guaranteed' = guaranteed \cup guarantees
  BY BlockEffects
<1>9. Queued \cup Pending \cup ToSet(accumulated) \subseteq guaranteed
  BY DEF IInv, PipelineKnown
<1>10. Pending \cap Queued = {}
  <2>1. \A c \in Engaged(assignment) : \A r \in Queued : PackageOf[assignment[c].report] # PackageOf[r]
    BY <1>1, PlacesOfPackages
  <2> QED
    BY <2>1 DEF Pending
<1> QED
  BY <1>2, <1>3, <1>4, <1>5, <1>6, <1>7, <1>8, <1>9, <1>10


LEMMA BlockMovesStages ==
  ASSUME IInv, NEW s, NEW cores, NEW reports, NEW from, NEW guarantees, NEW count,
         Moves(s, cores, reports, from, guarantees, count), NEW r \in Report
  PROVE  Stage'[r] \in Lifecycle!Successors[Stage[r]]
<1>1. /\ ToSet(accumulated) \subseteq ToSet(accumulated')
      /\ ToSet(accumulated') \subseteq ToSet(accumulated) \cup Pending \cup Queued
      /\ Queued' \subseteq Pending \cup Queued
      /\ Pending' \subseteq guarantees \cup Pending
      /\ guarantees \subseteq Pending' /\ guarantees \cap guaranteed = {}
      /\ guaranteed' = guaranteed \cup guarantees
      /\ Queued \cup Pending \cup ToSet(accumulated) \subseteq guaranteed
      /\ Pending \cap Queued = {}
  BY PlacesOfReports
<1>2. Stage[r] = IF r \in ToSet(accumulated) THEN "accumulated"
                 ELSE IF r \in Queued THEN "queued"
                 ELSE IF r \in Pending THEN "pending"
                 ELSE IF r \in guaranteed THEN "gone" ELSE "new"
  BY DEF Stage
<1>3. Stage'[r] = IF r \in ToSet(accumulated') THEN "accumulated"
                  ELSE IF r \in Queued' THEN "queued"
                  ELSE IF r \in Pending' THEN "pending"
                  ELSE IF r \in guaranteed' THEN "gone" ELSE "new"
  BY DEF Stage
<1>4. /\ Lifecycle!Successors["new"] = {"new", "pending"}
      /\ Lifecycle!Successors["pending"] = {"pending", "queued", "accumulated", "gone"}
      /\ Lifecycle!Successors["queued"] = {"queued", "accumulated", "gone"}
      /\ Lifecycle!Successors["accumulated"] = {"accumulated"}
      /\ Lifecycle!Successors["gone"] = {"gone"}
  BY DEF Lifecycle!Successors
<1>5. CASE r \in ToSet(accumulated)
  BY <1>1, <1>2, <1>3, <1>4, <1>5
<1>6. CASE r \notin ToSet(accumulated) /\ r \in Queued
  BY <1>1, <1>2, <1>3, <1>4, <1>6
<1>7. CASE r \notin ToSet(accumulated) /\ r \notin Queued /\ r \in Pending
  BY <1>1, <1>2, <1>3, <1>4, <1>7
<1>8. CASE r \notin ToSet(accumulated) /\ r \notin Queued /\ r \notin Pending /\ r \in guaranteed
  BY <1>1, <1>2, <1>3, <1>4, <1>8
<1>9. CASE r \notin guaranteed
  BY <1>1, <1>2, <1>3, <1>4, <1>9
<1> QED
  BY <1>1, <1>5, <1>6, <1>7, <1>8, <1>9

LEMMA AccumulatedAfterNeeds ==
  ASSUME NEW done \in Seq(Report), Ordered({}, done),
         NEW stages, \A q \in Report : stages[q] = "accumulated" <=> q \in ToSet(done),
         NEW r \in Report, stages[r] = "accumulated"
  PROVE  Needs[r] \subseteq Lifecycle!AccumulatedIn(stages)
<1>1. r \in ToSet(done)
  OBVIOUS
<1>2. PICK i \in 1 .. Len(done) : done[i] = r
  BY <1>1 DEF ToSet
<1>3. Needs[r] \subseteq {PackageOf[done[j]] : j \in 1 .. (i - 1)}
  BY <1>2 DEF Ordered
<1>4. \A j \in 1 .. (i - 1) : done[j] \in Report /\ done[j] \in ToSet(done)
  BY <1>2 DEF ToSet
<1>5. \A j \in 1 .. (i - 1) : done[j] \in Report /\ stages[done[j]] = "accumulated"
  BY <1>4
<1> QED
  BY <1>3, <1>5 DEF Lifecycle!AccumulatedIn

LEMMA InitLifecycle == ReportsInit => Lifecycle!Init
<1> SUFFICES ASSUME ReportsInit PROVE Lifecycle!Init
  OBVIOUS
<1>1. ToSet(accumulated) = {} /\ Queued = {} /\ Pending = {} /\ guaranteed = {}
  BY InitIInv DEF ReportsInit, IInv, PipelineKnown
<1> QED
  BY <1>1 DEF Lifecycle!Init, Stage

LEMMA StepLifecycle == IInv /\ IInv' /\ [ReportsNext]_reportsVars => [LifecycleStep]_reportsVars
<1> SUFFICES ASSUME IInv, IInv', ReportsNext PROVE LifecycleStep
  OBVIOUS
<1>1. PICK s, cores, reports, from, guarantees, count :
          Moves(s, cores, reports, from, guarantees, count)
  BY BlockMoves DEF IInv
<1>2. Stage' \in [Report -> Lifecycle!Stages]
  <2>1. \A r \in Report : Stage'[r] \in Lifecycle!Stages
    BY Zenon DEF Stage, Lifecycle!Stages
  <2>2. Stage' = [r \in Report |-> Stage'[r]]
    BY Zenon DEF Stage
  <2> QED
    BY <2>1, <2>2
<1>3. \A r \in Report : Stage'[r] \in Lifecycle!Successors[Stage[r]]
  BY <1>1, BlockMovesStages
<1>4. \A r \in Report : Stage'[r] = "accumulated" => Needs[r] \subseteq Lifecycle!AccumulatedIn(Stage')
  <2>1. accumulated' \in Seq(Report) /\ Ordered({}, accumulated')
    BY <1>1, NeedsStayMet
  <2>2. \A q \in Report : Stage'[q] = "accumulated" <=> q \in ToSet(accumulated')
    BY DEF Stage
  <2> QED
    BY <2>1, <2>2, AccumulatedAfterNeeds
<1> QED
  BY <1>2, <1>3, <1>4 DEF LifecycleStep, Lifecycle!Block

(* Theorems *)

\* Every variable keeps the shape of the state codecs, whatever the blocks bring.
THEOREM ReportsTypeCorrect == ReportsSpec => []ReportsTypeOK
<1>1. IInv => ReportsTypeOK
  BY DEF IInv
<1> QED
  BY <1>1, InvariantHolds, PTL

\* verifyWorkPackagesUniqueness keeps every package in one place, although it reads
\* the state from before the block: see PackageInOnePlace.
THEOREM OnePlaceForAPackage == ReportsSpec => []PackageInOnePlace
<1>1. IInv => PackageInOnePlace
  BY DEF IInv
<1> QED
  BY <1>1, InvariantHolds, PTL

\* enqueueReports and pruneQueue accumulate every report after what it needs, within
\* a block and over blocks: see DependenciesFirst.
THEOREM NeedsComeFirst == ReportsSpec => []DependenciesFirst
<1>1. IInv => DependenciesFirst
  <2> SUFFICES ASSUME IInv, NEW i \in DOMAIN accumulated
               PROVE  Needs[accumulated[i]] \subseteq Packages(SubSeq(accumulated, 1, i - 1))
    BY DEF DependenciesFirst
  <2>1. accumulated \in Seq(Report) /\ Ordered({}, accumulated)
    BY DEF IInv, ReportsTypeOK
  <2>2. i \in 1 .. Len(accumulated) /\ i - 1 \in 0 .. Len(accumulated)
    BY <2>1
  <2>3. Needs[accumulated[i]] \subseteq {PackageOf[accumulated[j]] : j \in 1 .. (i - 1)}
    BY <2>1, <2>2 DEF Ordered
  <2> DEFINE before == SubSeq(accumulated, 1, i - 1)
  <2>4. /\ before \in Seq(Report) /\ Len(before) = i - 1
        /\ \A j \in 1 .. (i - 1) : before[j] = accumulated[j]
    BY <2>1, <2>2, Elements
  <2> HIDE DEF before
  <2>5. \A j \in 1 .. (i - 1) : accumulated[j] \in ToSet(before)
    BY <2>4 DEF ToSet
  <2>6. {PackageOf[accumulated[j]] : j \in 1 .. (i - 1)} \subseteq Packages(before)
    BY <2>5 DEF Packages
  <2> QED
    BY <2>3, <2>6 DEF before
<1> QED
  BY <1>1, InvariantHolds, PTL

\* The gas limits of a report and of a block agree, so that a report that needs nothing
\* and is not queued is never cut off: see NeverDropped.
THEOREM NothingDropped == ReportsSpec => []NeverDropped
<1>1. IInv => NeverDropped
  BY DEF IInv
<1> QED
  BY <1>1, InvariantHolds, PTL

\* Every block moves the reports as ReportLifecycle.tla says: see ImplementsLifecycle.
THEOREM LifecycleImplemented == ReportsSpec => ImplementsLifecycle
<1>1. ReportsInit => Lifecycle!Init
  BY InitLifecycle
<1>2. IInv /\ IInv' /\ [ReportsNext]_reportsVars => [LifecycleStep]_reportsVars
  BY StepLifecycle
<1> QED
  BY <1>1, <1>2, InvariantHolds, PTL DEF ReportsSpec, ImplementsLifecycle
=============================================================================
