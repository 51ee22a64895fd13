-------------------------- MODULE HybridStatesProofs --------------------------
(***************************************************************************)
(* Proofs about HybridStates for any blocks, keys and values, any leaves   *)
(* and updates, and any number of failures.                                *)
(***************************************************************************)
EXTENDS HybridStates, DummyFinalizerProofs, WellFoundedInduction

(* Recursion over numbers *)

\* A set of numbers that is not empty has a least one.
LEMMA LeastNumber ==
  ASSUME NEW T, T \subseteq Nat, T # {}
  PROVE  \E n \in T : \A m \in T : n <= m
<1> DEFINE less == {pair \in Nat \X Nat : pair[1] < pair[2]}
<1>1. IsWellFoundedOn(less, Nat)
  BY NatLessThanWellFounded, Zenon DEF OpToRel
<1>2. PICK n \in T : \A m \in T : ~(<<m, n>> \in less)
  <2> HIDE DEF less
  <2> QED
    BY <1>1, WFMin, Zenon
<1>3. ASSUME NEW m \in T PROVE n <= m
  <2>1. m \in Nat /\ n \in Nat
    OBVIOUS
  <2>2. m < n => <<m, n>> \in less
    BY <2>1
  <2> HIDE DEF less
  <2>3. ~(m < n)
    BY <2>2, <1>2
  <2> QED
    BY <2>1, <2>3
<1> QED
  BY <1>3

\* What holds at zero and is handed on holds up to len.
LEMMA UpTo ==
  ASSUME NEW len \in Nat, NEW good, 0 \in good,
         \A n \in 1..len : n - 1 \in good => n \in good
  PROVE  0..len \subseteq good
<1> DEFINE T == {n \in 0..len : n \notin good}
<1> SUFFICES ASSUME T # {} PROVE FALSE
  OBVIOUS
<1>1. PICK n \in T : \A m \in T : n <= m
  <2>1. T \subseteq Nat
    OBVIOUS
  <2> QED
    BY <2>1, LeastNumber
<1>2. n \in 1..len /\ n - 1 \in 0..len /\ ~(n <= n - 1)
  BY <1>1
<1>3. n - 1 \in good
  BY <1>1, <1>2
<1> QED
  BY <1>1, <1>2, <1>3

\* f is made by a step that is applied len times.
Stepwise(f, base, step, len) ==
    \A n \in 0..len : f[n] = IF n = 0 THEN base ELSE step[<<f[n - 1], n>>]

LEMMA Recursion ==
  ASSUME NEW X, NEW base \in X, NEW len \in Nat, NEW step \in [X \X (1..len) -> X]
  PROVE  \E f \in [0..len -> X] : Stepwise(f, base, step, len)
<1> DEFINE good == {n \in 0..len : \E f \in [0..n -> X] : Stepwise(f, base, step, n)}
<1>1. 0 \in good
  <2>1. [k \in 0..0 |-> base] \in [0..0 -> X] /\ Stepwise([k \in 0..0 |-> base], base, step, 0)
    BY DEF Stepwise
  <2>2. 0 \in 0..len
    OBVIOUS
  <2> QED
    BY <2>1, <2>2
<1>2. ASSUME NEW n \in 1..len, n - 1 \in good
      PROVE  n \in good
  <2>1. PICK f \in [0..(n - 1) -> X] : Stepwise(f, base, step, n - 1)
    BY <1>2
  <2> DEFINE g == [k \in 0..n |-> IF k = n THEN step[<<f[n - 1], n>>] ELSE f[k]]
  <2>2. g \in [0..n -> X]
    <3>1. f[n - 1] \in X
      OBVIOUS
    <3>2. step[<<f[n - 1], n>>] \in X
      BY <3>1
    <3>3. \A k \in 0..n : k # n => k \in 0..(n - 1) /\ f[k] \in X
      OBVIOUS
    <3> QED
      BY <3>2, <3>3
  <2>3. ASSUME NEW k \in 0..n
        PROVE  g[k] = IF k = 0 THEN base ELSE step[<<g[k - 1], k>>]
    <3>1. CASE k = n
      <4>1. k # 0 /\ k - 1 \in 0..n /\ k - 1 # n
        BY <3>1
      <4> QED
        BY <3>1, <4>1
    <3>2. CASE k # n
      <4>1. k \in 0..(n - 1) /\ g[k] = f[k]
        BY <3>2
      <4>2. f[k] = IF k = 0 THEN base ELSE step[<<f[k - 1], k>>]
        BY <2>1, <4>1 DEF Stepwise
      <4>3. k # 0 => g[k - 1] = f[k - 1]
        BY <4>1
      <4> QED
        BY <4>1, <4>2, <4>3
    <3> QED
      BY <3>1, <3>2
  <2>4. Stepwise(g, base, step, n)
    <3> HIDE DEF g
    <3> QED
      BY <2>3 DEF Stepwise
  <2>5. n \in 0..len
    OBVIOUS
  <2> QED
    BY <2>2, <2>4, <2>5
<1>3. len \in good
  <2>1. 0..len \subseteq good
    <3> HIDE DEF good
    <3> QED
      BY <1>1, <1>2, UpTo
  <2> QED
    BY <2>1
<1> QED
  BY <1>3

(* Updates of leaves *)

Write == [key : Key, value : Value \cup {Empty}]
LeafUpdate == [leafs : Leafs, inserted : Bag, removed : Bag]

\* d tells the counts of the leaves `to` from those of the leaves `from`.
Tells(d, from, to) ==
    \A v \in Value : References(to)[v] + d.removed[v] = References(from)[v] + d.inserted[v]

LEMMA ReferencesType ==
  ASSUME NEW l \in Leafs
  PROVE  /\ References(l) \in Bag
         /\ \A v \in Value : References(l)[v] > 0 <=> \E k \in Key : l[k] = v
<1>1. ASSUME NEW v \in Value
      PROVE  /\ Cardinality({k \in Key : l[k] = v}) \in Nat
             /\ Cardinality({k \in Key : l[k] = v}) > 0 <=> \E k \in Key : l[k] = v
  <2> DEFINE S == {k \in Key : l[k] = v}
  <2>1. IsFiniteSet(S)
    BY ValueAssumption, FS_Subset
  <2>2. Cardinality(S) \in Nat /\ (Cardinality(S) = 0 <=> S = {})
    BY <2>1, FS_CardinalityType, FS_EmptySet
  <2>3. S = {} <=> ~ \E k \in Key : l[k] = v
    OBVIOUS
  <2> HIDE DEF S
  <2>4. Cardinality(S) > 0 <=> \E k \in Key : l[k] = v
    BY <2>2, <2>3
  <2> QED
    BY <2>2, <2>4 DEF S
<1> QED
  BY <1>1 DEF References, Bag

\* A leaf gets another value.
LEMMA LeafWritten ==
  ASSUME NEW l \in Leafs, NEW key \in Key, NEW new \in Value \cup {Empty}, new # l[key],
         NEW v \in Value
  PROVE  References([l EXCEPT ![key] = new])[v] + (IF v = l[key] THEN 1 ELSE 0)
           = References(l)[v] + (IF v = new THEN 1 ELSE 0)
<1> DEFINE l2 == [l EXCEPT ![key] = new]
           S == {k \in Key : l[k] = v}
           S2 == {k \in Key : l2[k] = v}
<1>1. IsFiniteSet(S)
  BY ValueAssumption, FS_Subset
<1>2. \A k \in Key : l2[k] = IF k = key THEN new ELSE l[k]
  BY DEF Leafs
<1>3. References(l)[v] = Cardinality(S) /\ References(l2)[v] = Cardinality(S2)
  BY DEF References
<1>4. Cardinality(S) \in Nat
  BY <1>1, FS_CardinalityType
<1>5. CASE v = new
  <2>1. S2 = S \cup {key} /\ key \notin S
    BY <1>5, <1>2
  <2>2. Cardinality(S \cup {key}) = Cardinality(S) + 1
    BY <2>1, <1>1, FS_AddElement
  <2> HIDE DEF S, S2
  <2> QED
    BY <2>1, <2>2, <1>3, <1>4, <1>5
<1>6. CASE v = l[key]
  <2>1. S2 = S \ {key} /\ key \in S
    BY <1>6, <1>2
  <2>2. Cardinality(S \ {key}) = Cardinality(S) - 1
    BY <2>1, <1>1, FS_RemoveElement
  <2> HIDE DEF S, S2
  <2> QED
    BY <2>1, <2>2, <1>3, <1>4, <1>6
<1>7. CASE v # new /\ v # l[key]
  <2>1. S2 = S
    BY <1>7, <1>2
  <2> HIDE DEF S, S2
  <2> QED
    BY <2>1, <1>3, <1>4, <1>7
<1> QED
  BY <1>5, <1>6, <1>7

LEMMA AddOneIs ==
  ASSUME NEW bag \in Bag, NEW x \in Value \cup {Empty}
  PROVE  /\ AddOne(bag, x) \in Bag
         /\ \A v \in Value : AddOne(bag, x)[v] = bag[v] + (IF v = x THEN 1 ELSE 0)
<1>1. CASE x = Empty
  BY <1>1, ValueAssumption DEF AddOne, Bag
<1>2. CASE x # Empty
  <2>1. x \in Value /\ AddOne(bag, x) = [bag EXCEPT ![x] = bag[x] + 1]
    BY <1>2 DEF AddOne
  <2>2. \A v \in Value : bag[v] \in Nat
    BY DEF Bag
  <2> QED
    BY <2>1, <2>2 DEF Bag
<1> QED
  BY <1>1, <1>2

LEMMA UpdateLeafTells ==
  ASSUME NEW l \in Leafs, NEW acc \in LeafUpdate, Tells(acc, l, acc.leafs), NEW write \in Write
  PROVE  UpdateLeaf(acc, write) \in LeafUpdate /\ Tells(UpdateLeaf(acc, write), l, UpdateLeaf(acc, write).leafs)
<1> DEFINE old == acc.leafs[write.key]
           new == write.value
           u == UpdateLeaf(acc, write)
<1>1. acc.leafs \in Leafs /\ acc.inserted \in Bag /\ acc.removed \in Bag
  BY DEF LeafUpdate
<1>2. write.key \in Key /\ new \in Value \cup {Empty} /\ old \in Value \cup {Empty}
  BY <1>1 DEF Write, Leafs
<1>3. CASE new = old
  BY <1>3 DEF UpdateLeaf
<1>4. CASE new # old
  <2>1. /\ u.leafs = [acc.leafs EXCEPT ![write.key] = new]
        /\ u.inserted = AddOne(acc.inserted, new)
        /\ u.removed = AddOne(acc.removed, old)
        /\ u = [leafs |-> [acc.leafs EXCEPT ![write.key] = new],
                inserted |-> AddOne(acc.inserted, new), removed |-> AddOne(acc.removed, old)]
    BY <1>4 DEF UpdateLeaf
  <2>2. [acc.leafs EXCEPT ![write.key] = new] \in Leafs
    BY <1>1, <1>2 DEF Leafs
  <2>3. /\ AddOne(acc.inserted, new) \in Bag /\ AddOne(acc.removed, old) \in Bag
        /\ \A v \in Value : AddOne(acc.inserted, new)[v] = acc.inserted[v] + (IF v = new THEN 1 ELSE 0)
        /\ \A v \in Value : AddOne(acc.removed, old)[v] = acc.removed[v] + (IF v = old THEN 1 ELSE 0)
    BY <1>1, <1>2, AddOneIs
  <2>4. u \in LeafUpdate
    BY <2>1, <2>2, <2>3 DEF LeafUpdate
  <2>5. ASSUME NEW v \in Value
        PROVE  References(u.leafs)[v] + u.removed[v] = References(l)[v] + u.inserted[v]
    <3>1. References(u.leafs)[v] + (IF v = old THEN 1 ELSE 0)
            = References(acc.leafs)[v] + (IF v = new THEN 1 ELSE 0)
      BY <1>1, <1>2, <1>4, <2>1, LeafWritten
    <3>2. References(acc.leafs)[v] + acc.removed[v] = References(l)[v] + acc.inserted[v]
      BY DEF Tells
    <3>3. u.inserted[v] = acc.inserted[v] + (IF v = new THEN 1 ELSE 0)
          /\ u.removed[v] = acc.removed[v] + (IF v = old THEN 1 ELSE 0)
      BY <2>1, <2>3
    <3>4. /\ References(u.leafs)[v] \in Nat /\ References(acc.leafs)[v] \in Nat
          /\ References(l)[v] \in Nat /\ acc.removed[v] \in Nat /\ acc.inserted[v] \in Nat
      BY <1>1, <2>1, <2>2, ReferencesType DEF Bag
    <3> HIDE DEF u, old, new
    <3> QED
      BY <3>1, <3>2, <3>3, <3>4
  <2> QED
    BY <2>4, <2>5 DEF Tells
<1> QED
  BY <1>3, <1>4

\* updateLeafs: the delta tells the new leaves from the old ones.
LEMMA UpdateLeafsTell ==
  ASSUME NEW l \in Leafs, NEW writes \in Seq(Write)
  PROVE  UpdateLeafs(l, writes) \in LeafUpdate /\ Tells(UpdateLeafs(l, writes), l, UpdateLeafs(l, writes).leafs)
<1> DEFINE len == Len(writes)
           base == [leafs |-> l, inserted |-> R!NoValues, removed |-> R!NoValues]
           X == {acc \in LeafUpdate : Tells(acc, l, acc.leafs)}
           step == [x \in X \X (1..len) |-> UpdateLeaf(x[1], writes[x[2]])]
           Is(f) == f = [n \in 0..len |-> IF n = 0 THEN base ELSE UpdateLeaf(f[n - 1], writes[n])]
           f == CHOOSE f : Is(f)
<1>1. len \in Nat /\ \A n \in 1..len : writes[n] \in Write
  OBVIOUS
<1>2. base \in X
  <2>1. R!NoValues \in Bag /\ \A v \in Value : R!NoValues[v] = 0
    BY DEF R!NoValues, Bag
  <2>2. base \in LeafUpdate /\ base.leafs = l /\ base.inserted = R!NoValues /\ base.removed = R!NoValues
    BY <2>1 DEF LeafUpdate
  <2> QED
    BY <2>1, <2>2 DEF Tells
<1>3. step \in [X \X (1..len) -> X]
  <2> SUFFICES ASSUME NEW x \in X \X (1..len) PROVE UpdateLeaf(x[1], writes[x[2]]) \in X
    OBVIOUS
  <2>1. x[1] \in LeafUpdate /\ Tells(x[1], l, x[1].leafs) /\ writes[x[2]] \in Write
    BY <1>1
  <2> QED
    BY <2>1, UpdateLeafTells
<1>4. UpdateLeafs(l, writes) = f[len]
  BY DEF UpdateLeafs
<1>5. PICK g \in [0..len -> X] : Stepwise(g, base, step, len)
  <2> HIDE DEF X, base, step, len
  <2> QED
    BY <1>1, <1>2, <1>3, Recursion
<1>6. Is(g)
  <2>1. ASSUME NEW n \in 0..len
        PROVE  g[n] = IF n = 0 THEN base ELSE UpdateLeaf(g[n - 1], writes[n])
    <3>1. CASE n = 0
      BY <3>1, <1>5 DEF Stepwise
    <3>2. CASE n # 0
      <4>1. n \in 1..len /\ n - 1 \in 0..len
        BY <3>2, <1>1
      <4>2. g[n - 1] \in X
        BY <4>1
      <4>3. g[n] = step[<<g[n - 1], n>>]
        BY <3>2, <1>5 DEF Stepwise
      <4>4. step[<<g[n - 1], n>>] = UpdateLeaf(g[n - 1], writes[n])
        BY <4>1, <4>2
      <4> QED
        BY <4>3, <4>4, <3>2
    <3> QED
      BY <3>1, <3>2
  <2>2. g = [n \in 0..len |-> g[n]]
    OBVIOUS
  <2> QED
    BY <2>1, <2>2
<1>7. Is(f)
  BY <1>6
<1>8. \A n \in 0..len : f[n] = IF n = 0 THEN base ELSE UpdateLeaf(f[n - 1], writes[n])
  <2> HIDE DEF f, base
  <2> QED
    BY <1>7
<1> HIDE DEF f
<1>9. 0..len \subseteq {n \in 0..len : f[n] \in X}
  <2> DEFINE good == {n \in 0..len : f[n] \in X}
  <2>1. 0 \in good
    BY <1>1, <1>2, <1>8
  <2>2. ASSUME NEW n \in 1..len, n - 1 \in good PROVE n \in good
    <3>1. f[n - 1] \in LeafUpdate /\ Tells(f[n - 1], l, f[n - 1].leafs) /\ n \in 0..len /\ n # 0
      BY <2>2
    <3>2. f[n] = UpdateLeaf(f[n - 1], writes[n])
      BY <3>1, <1>8
    <3>3. UpdateLeaf(f[n - 1], writes[n]) \in X
      BY <3>1, <1>1, UpdateLeafTells
    <3> QED
      BY <3>1, <3>2, <3>3
  <2> HIDE DEF good
  <2>3. 0..len \subseteq good
    BY <1>1, <2>1, <2>2, UpTo
  <2> QED
    BY <2>3 DEF good
<1>10. f[len] \in X
  BY <1>9, <1>1
<1> QED
  BY <1>4, <1>10

(* Counts *)

Refs == [finalized : Bag, pending : Bag, deltas : [Header -> Delta \cup {NoDelta}]]

Waiting(deltas) == {h \in Header : deltas[h] # NoDelta}

\* The insertions of v that the deltas hold.
InsertionsIn(deltas, v) == UNION {{h} \X (1 .. deltas[h].inserted[v]) : h \in Waiting(deltas)}

\* The pending counts are the insertions of the deltas.
PendingIsExact(r) ==
    /\ IsFiniteSet(Waiting(r.deltas))
    /\ \A v \in Value :
        /\ IsFiniteSet(InsertionsIn(r.deltas, v))
        /\ r.pending[v] = Cardinality(InsertionsIn(r.deltas, v))

\* The values that are counted.
HeldBy(r) == {v \in Value : r.finalized[v] > 0 \/ r.pending[v] > 0}

WithDelta(deltas, h, d) == [deltas EXCEPT ![h] = d]

LEMMA WaitingWithout ==
  ASSUME NEW deltas \in [Header -> Delta \cup {NoDelta}], NEW h \in Header, deltas[h] \in Delta
  PROVE  Waiting(deltas) = Waiting(WithDelta(deltas, h, NoDelta)) \cup {h}
<1>1. /\ WithDelta(deltas, h, NoDelta)[h] = NoDelta /\ deltas[h] # NoDelta
      /\ \A g \in Header : g # h => WithDelta(deltas, h, NoDelta)[g] = deltas[g]
  BY AbsenceAssumption DEF WithDelta
<1> QED
  BY <1>1 DEF Waiting

\* A block that waits no more takes its insertions along.
Splits(deltas, h, v) ==
    LET before == InsertionsIn(deltas, v)
        after == InsertionsIn(WithDelta(deltas, h, NoDelta), v)
        its == {h} \X (1 .. deltas[h].inserted[v])
    IN  /\ before = after \cup its /\ after \cap its = {}
        /\ IsFiniteSet(its) /\ Cardinality(its) = deltas[h].inserted[v]

LEMMA InsertionsWithout ==
  ASSUME NEW deltas \in [Header -> Delta \cup {NoDelta}], NEW h \in Header, deltas[h] \in Delta,
         NEW v \in Value
  PROVE  Splits(deltas, h, v)
<1> DEFINE deltas2 == WithDelta(deltas, h, NoDelta)
           n == deltas[h].inserted[v]
<1>1. n \in Nat
  BY DEF Delta, Bag
<1>2. /\ deltas2[h] = NoDelta /\ deltas[h] # NoDelta
      /\ \A g \in Header : g # h => deltas2[g] = deltas[g]
  BY AbsenceAssumption DEF WithDelta
<1>3. Waiting(deltas) = Waiting(deltas2) \cup {h} /\ h \notin Waiting(deltas2)
  BY <1>2, WaitingWithout DEF Waiting
<1>4. \A g \in Waiting(deltas2) : deltas2[g] = deltas[g] /\ g # h
  BY <1>2 DEF Waiting
<1> HIDE DEF deltas2
<1>5. InsertionsIn(deltas, v) = InsertionsIn(deltas2, v) \cup ({h} \X (1 .. n))
  BY <1>3, <1>4 DEF InsertionsIn
<1>6. InsertionsIn(deltas2, v) \cap ({h} \X (1 .. n)) = {}
  BY <1>4 DEF InsertionsIn
<1>7. IsFiniteSet({h}) /\ Cardinality({h}) = 1
  BY FS_Singleton
<1> HIDE DEF n
<1>8. IsFiniteSet(1 .. n) /\ Cardinality(1 .. n) = n
  <2>1. 1 \in Int /\ n \in Int
    BY <1>1
  <2>2. IsFiniteSet(1 .. n) /\ Cardinality(1 .. n) = IF 1 > n THEN 0 ELSE n - 1 + 1
    BY <2>1, FS_Interval
  <2> QED
    BY <2>2, <1>1
<1>9. IsFiniteSet({h} \X (1 .. n)) /\ Cardinality({h} \X (1 .. n)) = 1 * n
  <2>1. IsFiniteSet({h}) /\ IsFiniteSet(1 .. n) /\ Cardinality({h}) = 1 /\ Cardinality(1 .. n) = n
    BY <1>7, <1>8
  <2>2. IsFiniteSet({h} \X (1 .. n)) /\ Cardinality({h} \X (1 .. n)) = Cardinality({h}) * Cardinality(1 .. n)
    BY ONLY <2>1, FS_Product
  <2> QED
    BY ONLY <2>1, <2>2
<1>10. 1 * n = n
  BY <1>1
<1> QED
  BY <1>5, <1>6, <1>9, <1>10 DEF n, deltas2, Splits

\* What is counted before and after the delta of h goes.
LEMMA PendingWithout ==
  ASSUME NEW r \in Refs, PendingIsExact(r), NEW h \in Header, r.deltas[h] \in Delta,
         NEW r2 \in Refs, r2.deltas = WithDelta(r.deltas, h, NoDelta),
         r2.pending = R!BagMonus(r.pending, r.deltas[h].inserted)
  PROVE  /\ PendingIsExact(r2)
         /\ \A v \in Value : r.pending[v] = r2.pending[v] + r.deltas[h].inserted[v]
<1>1. r.deltas \in [Header -> Delta \cup {NoDelta}]
  BY DEF Refs
<1>2. IsFiniteSet(Waiting(r2.deltas))
  <2>1. Waiting(r2.deltas) \subseteq Waiting(r.deltas)
    BY <1>1, WaitingWithout
  <2> QED
    BY <2>1, FS_Subset DEF PendingIsExact
<1>3. ASSUME NEW v \in Value
      PROVE  /\ IsFiniteSet(InsertionsIn(r2.deltas, v))
             /\ r2.pending[v] = Cardinality(InsertionsIn(r2.deltas, v))
             /\ r.pending[v] = r2.pending[v] + r.deltas[h].inserted[v]
  <2> DEFINE A == InsertionsIn(r.deltas, v)
             B == InsertionsIn(WithDelta(r.deltas, h, NoDelta), v)
             n == r.deltas[h].inserted[v]
             C == {h} \X (1 .. n)
  <2>1. A = B \cup C /\ B \cap C = {} /\ IsFiniteSet(C) /\ Cardinality(C) = n
    <3>1. Splits(r.deltas, h, v)
      BY <1>1, InsertionsWithout
    <3> QED
      BY <3>1 DEF Splits
  <2>2. IsFiniteSet(A) /\ r.pending[v] = Cardinality(A)
    BY DEF PendingIsExact
  <2>3. r2.pending[v] = IF r.pending[v] > n THEN r.pending[v] - n ELSE 0
    BY DEF R!BagMonus
  <2>4. n \in Nat /\ r.pending[v] \in Nat
    BY DEF Delta, Bag, Refs
  <2> HIDE DEF A, B, C, n
  <2>5. IsFiniteSet(B)
    BY <2>1, <2>2, FS_Subset
  <2>6. Cardinality(B \cup C) = Cardinality(B) + Cardinality(C) - Cardinality(B \cap C)
    BY <2>1, <2>5, FS_Union
  <2>7. Cardinality(B \cap C) = 0 /\ Cardinality(B) \in Nat
    BY <2>1, <2>5, FS_EmptySet, FS_CardinalityType
  <2>8. r.pending[v] = Cardinality(B) + n
    BY <2>1, <2>2, <2>6, <2>7, <2>4
  <2>9. r2.pending[v] = Cardinality(B)
    BY <2>3, <2>4, <2>7, <2>8
  <2> QED
    BY <2>5, <2>8, <2>9 DEF B, n
<1> QED
  BY <1>2, <1>3 DEF PendingIsExact

\* ... and before and after it comes.
LEMMA PendingWith ==
  ASSUME NEW r \in Refs, PendingIsExact(r), NEW h \in Header, r.deltas[h] = NoDelta, NEW d \in Delta,
         NEW r2 \in Refs, r2.deltas = WithDelta(r.deltas, h, d),
         r2.pending = R!BagSum(r.pending, d.inserted)
  PROVE  PendingIsExact(r2)
<1>1. /\ r.deltas \in [Header -> Delta \cup {NoDelta}]
      /\ r2.deltas \in [Header -> Delta \cup {NoDelta}]
      /\ r2.deltas[h] = d
  BY DEF Refs, WithDelta
<1>2. WithDelta(r2.deltas, h, NoDelta) = r.deltas
  <2>1. \A g \in Header : WithDelta(r2.deltas, h, NoDelta)[g] = r.deltas[g]
    BY <1>1 DEF WithDelta
  <2>2. WithDelta(r2.deltas, h, NoDelta) \in [Header -> Delta \cup {NoDelta}]
    BY <1>1 DEF WithDelta
  <2> QED
    BY <1>1, <2>1, <2>2
<1>3. IsFiniteSet(Waiting(r2.deltas))
  <2>1. Waiting(r2.deltas) = Waiting(r.deltas) \cup {h}
    BY <1>1, <1>2, WaitingWithout
  <2> QED
    BY <2>1, FS_AddElement DEF PendingIsExact
<1>4. ASSUME NEW v \in Value
      PROVE  /\ IsFiniteSet(InsertionsIn(r2.deltas, v))
             /\ r2.pending[v] = Cardinality(InsertionsIn(r2.deltas, v))
  <2> DEFINE A == InsertionsIn(r2.deltas, v)
             B == InsertionsIn(WithDelta(r2.deltas, h, NoDelta), v)
             n == r2.deltas[h].inserted[v]
             C == {h} \X (1 .. n)
  <2>0. r2.deltas[h] \in Delta
    BY <1>1
  <2>1. A = B \cup C /\ B \cap C = {} /\ IsFiniteSet(C) /\ Cardinality(C) = n
    <3>1. Splits(r2.deltas, h, v)
      BY <1>1, <2>0, InsertionsWithout
    <3> QED
      BY <3>1 DEF Splits
  <2>2. IsFiniteSet(B) /\ r.pending[v] = Cardinality(B)
    BY <1>2 DEF PendingIsExact
  <2>3. r2.pending[v] = r.pending[v] + n
    BY <1>1 DEF R!BagSum
  <2>4. n \in Nat /\ r.pending[v] \in Nat
    BY <1>1 DEF Delta, Bag, Refs
  <2> HIDE DEF A, B, C, n
  <2>5. IsFiniteSet(A) /\ Cardinality(B \cup C) = Cardinality(B) + Cardinality(C) - Cardinality(B \cap C)
    BY <2>1, <2>2, FS_Union
  <2>6. Cardinality(B \cap C) = 0
    BY <2>1, FS_EmptySet
  <2> QED
    BY <2>1, <2>2, <2>3, <2>4, <2>5, <2>6 DEF A
<1> QED
  BY <1>3, <1>4 DEF PendingIsExact

(* Committing *)

RefsUpdate == [refs : Refs, candidates : SUBSET Value]

\* The deltas of some blocks are gone.
WithoutDeltas(deltas, gone) == [h \in Header |-> IF h \in gone THEN NoDelta ELSE deltas[h]]

\* From the counts r to the counts of u some values are no longer held, and these
\* are candidates for removal.
Narrows(r, u) ==
    /\ HeldBy(u.refs) \subseteq HeldBy(r)
    /\ HeldBy(r) \subseteq HeldBy(u.refs) \cup u.candidates

LEMMA MonusAt ==
  ASSUME NEW a, NEW b, NEW v \in Value
  PROVE  R!BagMonus(a, b)[v] = IF a[v] > b[v] THEN a[v] - b[v] ELSE 0
  BY DEF R!BagMonus

\* One block on top of the state `from` is committed, its own state is `to`.
LEMMA CommitHeaderStep ==
  ASSUME NEW u \in RefsUpdate, PendingIsExact(u.refs), NEW h \in Header, u.refs.deltas[h] \in Delta,
         NEW from \in Leafs, NEW to \in Leafs, Tells(u.refs.deltas[h], from, to),
         u.refs.finalized = References(from)
  PROVE  /\ R!CommitHeader(u, h) \in RefsUpdate
         /\ PendingIsExact(R!CommitHeader(u, h).refs)
         /\ R!CommitHeader(u, h).refs.finalized = References(to)
         /\ R!CommitHeader(u, h).refs.deltas = WithDelta(u.refs.deltas, h, NoDelta)
         /\ u.candidates \subseteq R!CommitHeader(u, h).candidates
         /\ Narrows(u.refs, R!CommitHeader(u, h))
<1> DEFINE r == u.refs
           d == u.refs.deltas[h]
           w == R!CommitHeader(u, h)
           fin == R!BagMonus(R!BagSum(r.finalized, d.inserted), d.removed)
           pen == R!BagMonus(r.pending, d.inserted)
           del == WithDelta(r.deltas, h, NoDelta)
           cand == u.candidates \cup R!Members(d.inserted) \cup R!Members(d.removed)
<1>1. /\ r \in Refs /\ r.finalized \in Bag /\ r.pending \in Bag
      /\ r.deltas \in [Header -> Delta \cup {NoDelta}] /\ u.candidates \subseteq Value
  BY DEF RefsUpdate, Refs
<1>2. d \in Delta /\ d.inserted \in Bag /\ d.removed \in Bag /\ d # NoDelta
  BY AbsenceAssumption DEF Delta
<1>3. w = [refs |-> [finalized |-> fin, pending |-> pen, deltas |-> del], candidates |-> cand]
  BY <1>2 DEF R!CommitHeader, R!Update, WithDelta
<1>4. /\ w.refs = [finalized |-> fin, pending |-> pen, deltas |-> del]
      /\ w.refs.finalized = fin /\ w.refs.pending = pen /\ w.refs.deltas = del /\ w.candidates = cand
  BY <1>3
<1>5. \A v \in Value : /\ r.finalized[v] \in Nat /\ r.pending[v] \in Nat /\ d.inserted[v] \in Nat /\ d.removed[v] \in Nat
                       /\ References(to)[v] \in Nat /\ References(from)[v] \in Nat
  BY <1>1, <1>2, ReferencesType DEF Bag
<1>6. \A v \in Value : pen[v] = IF r.pending[v] > d.inserted[v] THEN r.pending[v] - d.inserted[v] ELSE 0
  BY DEF R!BagMonus
<1>7. pen \in Bag
  BY <1>5 DEF R!BagMonus, Bag
<1>8. \A v \in Value : fin[v] = References(to)[v]
  <2> SUFFICES ASSUME NEW v \in Value PROVE fin[v] = References(to)[v]
    OBVIOUS
  <2>1. References(to)[v] + d.removed[v] = References(from)[v] + d.inserted[v]
    BY DEF Tells
  <2>2. R!BagSum(r.finalized, d.inserted)[v] = References(from)[v] + d.inserted[v]
    BY DEF R!BagSum
  <2>3. fin[v] = IF References(from)[v] + d.inserted[v] > d.removed[v]
                 THEN References(from)[v] + d.inserted[v] - d.removed[v] ELSE 0
    <3> DEFINE sum == R!BagSum(r.finalized, d.inserted)
    <3>0. fin = R!BagMonus(sum, d.removed)
      OBVIOUS
    <3>2. sum[v] = References(from)[v] + d.inserted[v]
      BY <2>2
    <3>4. /\ References(from)[v] \in Nat /\ d.inserted[v] \in Nat /\ d.removed[v] \in Nat
      BY <1>5
    <3> HIDE DEF sum, fin, d, r
    <3>1. R!BagMonus(sum, d.removed)[v] = IF sum[v] > d.removed[v] THEN sum[v] - d.removed[v] ELSE 0
      BY MonusAt
    <3>3. fin[v] = IF sum[v] > d.removed[v] THEN sum[v] - d.removed[v] ELSE 0
      BY <3>0, <3>1
    <3> QED
      BY <3>2, <3>3, <3>4
  <2> HIDE DEF fin, d, r
  <2> QED
    BY <2>1, <2>3, <1>5
<1>9. fin = References(to)
  <2>1. fin = [v \in Value |-> fin[v]]
    BY DEF R!BagMonus
  <2>2. References(to) \in Bag
    BY ReferencesType
  <2> HIDE DEF fin
  <2> QED
    BY <2>1, <2>2, <1>8 DEF Bag
<1>10. del \in [Header -> Delta \cup {NoDelta}]
  BY <1>1 DEF WithDelta
<1>11. w.refs \in Refs
  <2>1. fin \in Bag
    BY <1>9, ReferencesType
  <2> HIDE DEF fin, pen, del
  <2> QED
    BY <2>1, <1>4, <1>7, <1>10 DEF Refs
<1>12. cand \subseteq Value
  BY <1>1 DEF R!Members
<1>13. w \in RefsUpdate
  <2>1. w = [refs |-> w.refs, candidates |-> cand]
    BY <1>3
  <2> HIDE DEF w, cand
  <2> QED
    BY <2>1, <1>11, <1>12 DEF RefsUpdate
<1> HIDE DEF w, fin, del, pen, cand
<1>14. /\ PendingIsExact(w.refs)
       /\ \A v \in Value : r.pending[v] = w.refs.pending[v] + d.inserted[v]
  <2>1. PendingIsExact(r) /\ r.deltas[h] \in Delta
    OBVIOUS
  <2>2. w.refs.deltas = WithDelta(r.deltas, h, NoDelta) /\ w.refs.pending = R!BagMonus(r.pending, r.deltas[h].inserted)
    BY <1>4 DEF del, pen
  <2> HIDE DEF r
  <2>3. PendingIsExact(w.refs) /\ \A v \in Value : r.pending[v] = w.refs.pending[v] + r.deltas[h].inserted[v]
    BY <2>1, <2>2, <1>1, <1>11, PendingWithout
  <2> QED
    BY <2>3 DEF r
<1>15. HeldBy(w.refs) \subseteq HeldBy(r)
  <2> SUFFICES ASSUME NEW v \in Value, w.refs.finalized[v] > 0 \/ w.refs.pending[v] > 0
               PROVE  r.finalized[v] > 0 \/ r.pending[v] > 0
    BY DEF HeldBy
  <2>1. w.refs.finalized[v] + d.removed[v] = r.finalized[v] + d.inserted[v]
    BY <1>4, <1>9 DEF Tells
  <2>2. r.pending[v] = w.refs.pending[v] + d.inserted[v]
    BY <1>14
  <2>3. w.refs.finalized[v] \in Nat /\ w.refs.pending[v] \in Nat
    BY <1>11 DEF Refs, Bag
  <2>4. r.finalized[v] \in Nat /\ r.pending[v] \in Nat /\ d.inserted[v] \in Nat /\ d.removed[v] \in Nat
    BY <1>5
  <2> DEFINE wf == w.refs.finalized[v]  wp == w.refs.pending[v]  i == d.inserted[v]  o == d.removed[v]
             rf == r.finalized[v]       rp == r.pending[v]
  <2>5. /\ wf \in Nat /\ wp \in Nat /\ i \in Nat /\ o \in Nat /\ rf \in Nat /\ rp \in Nat
        /\ wf + o = rf + i /\ rp = wp + i /\ (wf > 0 \/ wp > 0)
    BY <2>1, <2>2, <2>3, <2>4
  <2> HIDE DEF wf, wp, i, o, rf, rp
  <2>6. rf > 0 \/ rp > 0
    BY ONLY <2>5
  <2> QED
    BY ONLY <2>6 DEF rf, rp
<1>16. HeldBy(r) \subseteq HeldBy(w.refs) \cup w.candidates
  <2> SUFFICES ASSUME NEW v \in Value, r.finalized[v] > 0 \/ r.pending[v] > 0,
                      d.inserted[v] = 0, d.removed[v] = 0
               PROVE  w.refs.finalized[v] > 0 \/ w.refs.pending[v] > 0
    BY <1>4, <1>5 DEF HeldBy, cand, R!Members
  <2>1. w.refs.finalized[v] + d.removed[v] = r.finalized[v] + d.inserted[v]
    BY <1>4, <1>9 DEF Tells
  <2>2. r.pending[v] = w.refs.pending[v] + d.inserted[v]
    BY <1>14
  <2>3. w.refs.finalized[v] \in Nat /\ w.refs.pending[v] \in Nat
    BY <1>11 DEF Refs, Bag
  <2> HIDE DEF r, d
  <2> QED
    BY <2>1, <2>2, <2>3, <1>5
<1>17. u.candidates \subseteq w.candidates
  BY <1>4 DEF cand
<1> QED
  BY <1>4, <1>9, <1>13, <1>14, <1>15, <1>16, <1>17 DEF w, del, Narrows

LEMMA CommitHeaderType ==
  ASSUME NEW u \in RefsUpdate, NEW h \in Header
  PROVE  R!CommitHeader(u, h) \in RefsUpdate
<1> DEFINE r == u.refs
           d == u.refs.deltas[h]
           fin == R!BagMonus(R!BagSum(r.finalized, d.inserted), d.removed)
           pen == R!BagMonus(r.pending, d.inserted)
           del == WithDelta(r.deltas, h, NoDelta)
           cand == u.candidates \cup R!Members(d.inserted) \cup R!Members(d.removed)
<1>1. /\ r.finalized \in Bag /\ r.pending \in Bag
      /\ r.deltas \in [Header -> Delta \cup {NoDelta}] /\ u.candidates \subseteq Value
  BY DEF RefsUpdate, Refs
<1>2. CASE d = NoDelta
  BY <1>2 DEF R!CommitHeader
<1>3. CASE d # NoDelta
  <2>1. d.inserted \in Bag /\ d.removed \in Bag
    BY <1>1, <1>3 DEF Delta
  <2>2. \A a \in Bag, b \in Bag : R!BagMonus(a, b) \in Bag /\ R!BagSum(a, b) \in Bag
    BY DEF R!BagMonus, R!BagSum, Bag
  <2>3. fin \in Bag /\ pen \in Bag
    BY <1>1, <2>1, <2>2
  <2>4. del \in [Header -> Delta \cup {NoDelta}] /\ cand \in SUBSET Value
    BY <1>1 DEF WithDelta, R!Members
  <2>5. R!CommitHeader(u, h) = [refs |-> [finalized |-> fin, pending |-> pen, deltas |-> del], candidates |-> cand]
    BY <1>3 DEF R!CommitHeader, R!Update, WithDelta
  <2> HIDE DEF fin, pen, del, cand
  <2> QED
    BY <2>3, <2>4, <2>5 DEF RefsUpdate, Refs
<1> QED
  BY <1>2, <1>3

\* L[i] are the leaves after i of the headers, from which the next delta tells on.
Continues(r, headers, L) ==
    /\ r.finalized = References(L[0])
    /\ \A i \in 1 .. Len(headers) :
        /\ r.deltas[headers[i]] \in Delta
        /\ Tells(r.deltas[headers[i]], L[i - 1], L[i])
    /\ \A i, j \in 1 .. Len(headers) : headers[i] = headers[j] => i = j

\* What is known when n of the headers are committed.
CommittedTo(r, headers, L, n, u) ==
    /\ u \in RefsUpdate
    /\ PendingIsExact(u.refs)
    /\ u.refs.finalized = References(L[n])
    /\ u.refs.deltas = WithoutDeltas(r.deltas, {headers[i] : i \in 1 .. n})
    /\ Narrows(r, u)

LEMMA CommitsOne ==
  ASSUME NEW r \in Refs, NEW headers \in Seq(Header),
         NEW L \in [0 .. Len(headers) -> Leafs], Continues(r, headers, L),
         NEW n \in 1 .. Len(headers), NEW u, CommittedTo(r, headers, L, n - 1, u)
  PROVE  CommittedTo(r, headers, L, n, R!CommitHeader(u, headers[n]))
<1> DEFINE h == headers[n]
           w == R!CommitHeader(u, h)
           before == {headers[i] : i \in 1 .. n - 1}
<1>1. h \in Header /\ h \notin before /\ {headers[i] : i \in 1 .. n} = before \cup {h}
  <2>1. h \in Header
    OBVIOUS
  <2>2. ASSUME NEW i \in 1 .. n - 1 PROVE headers[i] # h
    <3>1. i \in 1 .. Len(headers) /\ i # n
      OBVIOUS
    <3> QED
      BY <3>1 DEF Continues
  <2>3. 1 .. n = (1 .. n - 1) \cup {n}
    OBVIOUS
  <2> QED
    BY <2>1, <2>2, <2>3
<1>2. /\ u \in RefsUpdate /\ PendingIsExact(u.refs) /\ u.refs.finalized = References(L[n - 1])
      /\ u.refs.deltas = WithoutDeltas(r.deltas, before) /\ Narrows(r, u)
  BY DEF CommittedTo
<1>3. u.refs.deltas[h] = r.deltas[h]
  BY <1>1, <1>2 DEF WithoutDeltas
<1>4. r.deltas[h] \in Delta /\ Tells(r.deltas[h], L[n - 1], L[n])
  BY DEF Continues
<1>5. L[n - 1] \in Leafs /\ L[n] \in Leafs
  OBVIOUS
<1> HIDE DEF h, before
<1>6. /\ w \in RefsUpdate /\ PendingIsExact(w.refs) /\ w.refs.finalized = References(L[n])
      /\ w.refs.deltas = WithDelta(u.refs.deltas, h, NoDelta)
      /\ u.candidates \subseteq w.candidates /\ Narrows(u.refs, w)
  BY <1>1, <1>2, <1>3, <1>4, <1>5, CommitHeaderStep
<1> HIDE DEF w
<1>7. w.refs.deltas = WithoutDeltas(r.deltas, before \cup {h})
  BY <1>1, <1>2, <1>6 DEF WithDelta, WithoutDeltas
<1>8. Narrows(r, w)
  BY <1>2, <1>6 DEF Narrows
<1> QED
  BY <1>1, <1>6, <1>7, <1>8 DEF CommittedTo, w, h

\* commitFinalized on a path: the counts of the last state are those that count.
LEMMA Commits ==
  ASSUME NEW r \in Refs, PendingIsExact(r), NEW headers \in Seq(Header),
         NEW L \in [0 .. Len(headers) -> Leafs], Continues(r, headers, L)
  PROVE  CommittedTo(r, headers, L, Len(headers), R!CommitFinalized(r, headers))
<1> DEFINE len == Len(headers)
           base == R!Update(r, {})
           step == [x \in RefsUpdate \X (1..len) |-> R!CommitHeader(x[1], headers[x[2]])]
           Is(f) == f = [n \in 0..len |-> IF n = 0 THEN base ELSE R!CommitHeader(f[n - 1], headers[n])]
           f == CHOOSE f : Is(f)
<1>1. len \in Nat /\ \A n \in 1..len : headers[n] \in Header
  OBVIOUS
<1>2. base \in RefsUpdate /\ base.refs = r
  BY DEF RefsUpdate, R!Update
<1>3. step \in [RefsUpdate \X (1..len) -> RefsUpdate]
  BY <1>1, CommitHeaderType
<1>4. R!CommitFinalized(r, headers) = f[len]
  BY DEF R!CommitFinalized
<1>5. PICK g \in [0..len -> RefsUpdate] : Stepwise(g, base, step, len)
  <2> HIDE DEF base, step, len
  <2> QED
    BY <1>1, <1>2, <1>3, Recursion
<1>6. Is(g)
  <2>1. ASSUME NEW n \in 0..len
        PROVE  g[n] = IF n = 0 THEN base ELSE R!CommitHeader(g[n - 1], headers[n])
    <3>1. CASE n = 0
      BY <3>1, <1>5 DEF Stepwise
    <3>2. CASE n # 0
      <4>1. n \in 1..len /\ n - 1 \in 0..len
        BY <3>2, <1>1
      <4>2. g[n - 1] \in RefsUpdate
        BY <4>1
      <4>3. g[n] = step[<<g[n - 1], n>>]
        BY <3>2, <1>5 DEF Stepwise
      <4>4. step[<<g[n - 1], n>>] = R!CommitHeader(g[n - 1], headers[n])
        BY <4>1, <4>2
      <4> QED
        BY <4>3, <4>4, <3>2
    <3> QED
      BY <3>1, <3>2
  <2>2. g = [n \in 0..len |-> g[n]]
    OBVIOUS
  <2> QED
    BY <2>1, <2>2
<1>7. Is(f)
  BY <1>6
<1>8. \A n \in 0..len : f[n] = IF n = 0 THEN base ELSE R!CommitHeader(f[n - 1], headers[n])
  <2> HIDE DEF f, base
  <2> QED
    BY <1>7
<1> HIDE DEF f
<1> DEFINE good == {n \in 0..len : CommittedTo(r, headers, L, n, f[n])}
<1>9. 0 \in good
  <2>1. f[0] = base /\ 0 \in 0..len
    BY <1>1, <1>8
  <2>2. base.refs.deltas = WithoutDeltas(r.deltas, {headers[i] : i \in 1 .. 0})
    BY <1>2 DEF Refs, WithoutDeltas
  <2>3. Narrows(r, base)
    BY <1>2 DEF Narrows
  <2>4. CommittedTo(r, headers, L, 0, base)
    <3> HIDE DEF base
    <3> QED
      BY <1>2, <2>2, <2>3 DEF CommittedTo, Continues
  <2> QED
    BY <2>1, <2>4
<1>10. ASSUME NEW n \in 1..len, n - 1 \in good PROVE n \in good
  <2>1. CommittedTo(r, headers, L, n - 1, f[n - 1]) /\ n \in 0..len /\ n # 0
    BY <1>10
  <2>2. f[n] = R!CommitHeader(f[n - 1], headers[n])
    BY <2>1, <1>8
  <2>3. CommittedTo(r, headers, L, n, R!CommitHeader(f[n - 1], headers[n]))
    BY <2>1, CommitsOne
  <2> QED
    BY <2>1, <2>2, <2>3
<1> HIDE DEF good
<1>11. 0..len \subseteq good
  BY <1>1, <1>9, <1>10, UpTo
<1>12. CommittedTo(r, headers, L, len, f[len])
  BY <1>11, <1>1 DEF good
<1> QED
  BY <1>4, <1>12

(* Giving up *)

Queue == Seq((SUBSET Value) \ {{}})
Release == [refs : Refs, cleanup : Queue]

\* The values that the queued batches remove.
Removing(queue) == {v \in Value : \E i \in DOMAIN queue : v \in queue[i]}

\* From a to b some values are no longer held: they are queued, and of what is
\* held nothing is queued.
HandsOver(a, b) ==
    /\ HeldBy(b.refs) \subseteq HeldBy(a.refs)
    /\ HeldBy(a.refs) \subseteq HeldBy(b.refs) \cup Removing(b.cleanup)
    /\ Removing(a.cleanup) \subseteq Removing(b.cleanup)
    /\ Removing(b.cleanup) \cap HeldBy(b.refs) \subseteq Removing(a.cleanup) \cap HeldBy(a.refs)

\* A batch is queued unless it is empty.
LEMMA EnqueueKeeps ==
  ASSUME NEW queue \in Queue, NEW values \in SUBSET Value
  PROVE  Enqueue(queue, values) \in Queue /\ Removing(Enqueue(queue, values)) = Removing(queue) \cup values
<1>1. CASE values = {}
  BY <1>1 DEF Enqueue
<1>2. CASE values # {}
  <2> DEFINE longer == Append(queue, values)
  <2>1. Enqueue(queue, values) = longer
    BY <1>2 DEF Enqueue
  <2>2. /\ longer \in Queue
        /\ DOMAIN longer = 1 .. (Len(queue) + 1)
        /\ \A i \in 1 .. Len(queue) : longer[i] = queue[i]
        /\ longer[Len(queue) + 1] = values
    <3>1. values \in (SUBSET Value) \ {{}}
      BY <1>2
    <3> QED
      BY <3>1, AppendFacts DEF Queue
  <2>3. DOMAIN queue = 1 .. Len(queue) /\ Len(queue) \in Nat
    BY DEF Queue
  <2>4. /\ \A i \in DOMAIN queue : i \in DOMAIN longer /\ longer[i] = queue[i]
        /\ Len(queue) + 1 \in DOMAIN longer
        /\ \A i \in DOMAIN longer : i \in DOMAIN queue \/ i = Len(queue) + 1
    BY <2>2, <2>3
  <2> HIDE DEF longer
  <2>5. Removing(longer) = Removing(queue) \cup values
    BY <2>2, <2>4 DEF Removing
  <2> QED
    BY <2>1, <2>2, <2>5
<1> QED
  BY <1>1, <1>2

\* applyRefs: what an operation no longer holds is queued.
LEMMA Applying ==
  ASSUME NEW a \in Release, NEW u \in RefsUpdate, Narrows(a.refs, u),
         NEW b, b = [refs |-> u.refs, cleanup |-> Enqueue(a.cleanup, R!RemoveValues(u))]
  PROVE  b \in Release /\ HandsOver(a, b)
<1>1. a.refs \in Refs /\ a.cleanup \in Queue /\ u.refs \in Refs /\ u.candidates \subseteq Value
  BY DEF Release, RefsUpdate
<1>2. \A v \in Value : u.refs.finalized[v] \in Nat /\ u.refs.pending[v] \in Nat
  BY <1>1 DEF Refs, Bag
<1>3. /\ R!RemoveValues(u) \subseteq Value
      /\ R!RemoveValues(u) \cap HeldBy(u.refs) = {}
      /\ u.candidates \subseteq R!RemoveValues(u) \cup HeldBy(u.refs)
  BY <1>1, <1>2 DEF R!RemoveValues, HeldBy
<1>4. b.cleanup \in Queue /\ Removing(b.cleanup) = Removing(a.cleanup) \cup R!RemoveValues(u) /\ b.refs = u.refs
  BY <1>1, <1>3, EnqueueKeeps
<1>5. b \in Release
  BY <1>1, <1>4 DEF Release
<1> QED
  BY <1>3, <1>4, <1>5 DEF HandsOver, Narrows

\* A block that is given up: its insertions are counted no more.
LEMMA ReleaseStep ==
  ASSUME NEW r \in Refs, PendingIsExact(r), NEW h \in Header,
         NEW u, u = R!ReleaseUnfinalized(r, h)
  PROVE  /\ u \in RefsUpdate
         /\ PendingIsExact(u.refs)
         /\ u.refs.finalized = r.finalized
         /\ u.refs.deltas = WithDelta(r.deltas, h, NoDelta)
         /\ Narrows(r, u)
<1>1. r.finalized \in Bag /\ r.pending \in Bag /\ r.deltas \in [Header -> Delta \cup {NoDelta}]
  BY DEF Refs
<1>2. CASE r.deltas[h] = NoDelta
  <2>1. u = [refs |-> r, candidates |-> {}]
    BY <1>2 DEF R!ReleaseUnfinalized, R!Update
  <2>2. WithDelta(r.deltas, h, NoDelta) = r.deltas
    BY <1>1, <1>2 DEF WithDelta
  <2> QED
    BY <2>1, <2>2 DEF RefsUpdate, Narrows
<1>3. CASE r.deltas[h] # NoDelta
  <2> DEFINE d == r.deltas[h]
             pen == R!BagMonus(r.pending, d.inserted)
             del == WithDelta(r.deltas, h, NoDelta)
             r2 == [r EXCEPT !.pending = pen, !.deltas = del]
  <2>1. d \in Delta /\ d.inserted \in Bag
    BY <1>1, <1>3 DEF Delta
  <2>2. u = [refs |-> r2, candidates |-> R!Members(d.inserted)]
    BY <1>1, <1>3 DEF R!ReleaseUnfinalized, R!Update, WithDelta, Refs
  <2>3. pen \in Bag /\ del \in [Header -> Delta \cup {NoDelta}]
    BY <1>1, <2>1 DEF WithDelta, R!BagMonus, Bag
  <2> HIDE DEF pen, del
  <2>4. r2 \in Refs /\ r2.finalized = r.finalized /\ r2.pending = pen /\ r2.deltas = del
    BY <1>1, <2>3 DEF Refs
  <2> HIDE DEF r2
  <2>5. PendingIsExact(r2) /\ \A v \in Value : r.pending[v] = r2.pending[v] + d.inserted[v]
    BY <2>1, <2>4, PendingWithout DEF pen, del
  <2>6. R!Members(d.inserted) \subseteq Value
    BY DEF R!Members
  <2>7. \A v \in Value : r2.pending[v] \in Nat /\ d.inserted[v] \in Nat /\ r.finalized[v] \in Nat
    BY <1>1, <2>1, <2>3, <2>4 DEF Bag
  <2> HIDE DEF d
  <2>8. Narrows(r, u)
    <3> SUFFICES ASSUME NEW v \in Value
                 PROVE  /\ r2.pending[v] > 0 => r.pending[v] > 0
                        /\ r.pending[v] > 0 => r2.pending[v] > 0 \/ d.inserted[v] > 0
      BY <2>2, <2>4 DEF Narrows, HeldBy, R!Members
    <3> QED
      BY <2>5, <2>7
  <2> QED
    BY <2>2, <2>4, <2>5, <2>6, <2>8 DEF RefsUpdate, del
<1> QED
  BY <1>2, <1>3

\* What is known when n of the headers are given up.
ReleasedTo(a, headers, n, b) ==
    /\ b \in Release
    /\ PendingIsExact(b.refs)
    /\ b.refs.finalized = a.refs.finalized
    /\ b.refs.deltas = WithoutDeltas(a.refs.deltas, {headers[i] : i \in 1 .. n})
    /\ HandsOver(a, b)

LEMMA ReleasesOne ==
  ASSUME NEW b \in Release, PendingIsExact(b.refs), NEW h \in Header
  PROVE  /\ MarkUnused(b, h) \in Release
         /\ PendingIsExact(MarkUnused(b, h).refs)
         /\ MarkUnused(b, h).refs.finalized = b.refs.finalized
         /\ MarkUnused(b, h).refs.deltas = WithDelta(b.refs.deltas, h, NoDelta)
         /\ HandsOver(b, MarkUnused(b, h))
<1> DEFINE u == R!ReleaseUnfinalized(b.refs, h)
           c == MarkUnused(b, h)
<1>1. b.refs \in Refs
  BY DEF Release
<1>2. c = [refs |-> u.refs, cleanup |-> Enqueue(b.cleanup, R!RemoveValues(u))]
  BY DEF MarkUnused
<1> HIDE DEF u, c
<1>3. /\ u \in RefsUpdate /\ PendingIsExact(u.refs) /\ u.refs.finalized = b.refs.finalized
      /\ u.refs.deltas = WithDelta(b.refs.deltas, h, NoDelta) /\ Narrows(b.refs, u)
  BY <1>1, ReleaseStep DEF u
<1>4. c \in Release /\ HandsOver(b, c)
  BY <1>2, <1>3, Applying
<1>5. c.refs = u.refs
  BY <1>2
<1> QED
  BY <1>3, <1>4, <1>5 DEF c

LEMMA ReleasesNext ==
  ASSUME NEW a \in Release, NEW headers \in Seq(Header), NEW n \in 1 .. Len(headers),
         NEW b, ReleasedTo(a, headers, n - 1, b)
  PROVE  ReleasedTo(a, headers, n, MarkUnused(b, headers[n]))
<1> DEFINE h == headers[n]
           before == {headers[i] : i \in 1 .. n - 1}
           c == MarkUnused(b, h)
<1>1. h \in Header /\ {headers[i] : i \in 1 .. n} = before \cup {h}
  <2>1. 1 .. n = (1 .. n - 1) \cup {n}
    OBVIOUS
  <2> QED
    BY <2>1
<1>2. /\ b \in Release /\ PendingIsExact(b.refs) /\ b.refs.finalized = a.refs.finalized
      /\ b.refs.deltas = WithoutDeltas(a.refs.deltas, before) /\ HandsOver(a, b)
  BY DEF ReleasedTo
<1> HIDE DEF h, before
<1>3. /\ c \in Release /\ PendingIsExact(c.refs) /\ c.refs.finalized = b.refs.finalized
      /\ c.refs.deltas = WithDelta(b.refs.deltas, h, NoDelta) /\ HandsOver(b, c)
  BY <1>1, <1>2, ReleasesOne
<1> HIDE DEF c
<1>4. c.refs.deltas = WithoutDeltas(a.refs.deltas, before \cup {h})
  BY <1>1, <1>2, <1>3 DEF WithDelta, WithoutDeltas
<1>5. HandsOver(a, c)
  BY <1>2, <1>3 DEF HandsOver
<1> QED
  BY <1>1, <1>2, <1>3, <1>4, <1>5 DEF ReleasedTo, c, h

\* markUnused of several headers.
LEMMA Releases ==
  ASSUME NEW a \in Release, PendingIsExact(a.refs), NEW headers \in Seq(Header)
  PROVE  ReleasedTo(a, headers, Len(headers), MarkAllUnused(a, headers))
<1> DEFINE len == Len(headers)
           X == {b \in Release : PendingIsExact(b.refs)}
           step == [x \in X \X (1..len) |-> MarkUnused(x[1], headers[x[2]])]
           Is(f) == f = [n \in 0..len |-> IF n = 0 THEN a ELSE MarkUnused(f[n - 1], headers[n])]
           f == CHOOSE f : Is(f)
<1>1. len \in Nat /\ (\A n \in 1..len : headers[n] \in Header) /\ a \in X
  OBVIOUS
<1>2. step \in [X \X (1..len) -> X]
  <2> SUFFICES ASSUME NEW x \in X \X (1..len) PROVE MarkUnused(x[1], headers[x[2]]) \in X
    OBVIOUS
  <2>1. x[1] \in Release /\ PendingIsExact(x[1].refs) /\ headers[x[2]] \in Header
    BY <1>1
  <2> QED
    BY <2>1, ReleasesOne
<1>3. MarkAllUnused(a, headers) = f[len]
  BY DEF MarkAllUnused
<1>4. PICK g \in [0..len -> X] : Stepwise(g, a, step, len)
  <2> HIDE DEF X, step, len
  <2> QED
    BY <1>1, <1>2, Recursion
<1>5. Is(g)
  <2>1. ASSUME NEW n \in 0..len
        PROVE  g[n] = IF n = 0 THEN a ELSE MarkUnused(g[n - 1], headers[n])
    <3>1. CASE n = 0
      BY <3>1, <1>4 DEF Stepwise
    <3>2. CASE n # 0
      <4>1. n \in 1..len /\ n - 1 \in 0..len
        BY <3>2, <1>1
      <4>2. g[n - 1] \in X
        BY <4>1
      <4>3. g[n] = step[<<g[n - 1], n>>]
        BY <3>2, <1>4 DEF Stepwise
      <4>4. step[<<g[n - 1], n>>] = MarkUnused(g[n - 1], headers[n])
        BY <4>1, <4>2
      <4> QED
        BY <4>3, <4>4, <3>2
    <3> QED
      BY <3>1, <3>2
  <2>2. g = [n \in 0..len |-> g[n]]
    OBVIOUS
  <2> QED
    BY <2>1, <2>2
<1>6. Is(f)
  BY <1>5
<1>7. \A n \in 0..len : f[n] = IF n = 0 THEN a ELSE MarkUnused(f[n - 1], headers[n])
  <2> HIDE DEF f
  <2> QED
    BY <1>6
<1> HIDE DEF f
<1> DEFINE good == {n \in 0..len : ReleasedTo(a, headers, n, f[n])}
<1>8. 0 \in good
  <2>1. f[0] = a /\ 0 \in 0..len
    BY <1>1, <1>7
  <2>2. a.refs.deltas = WithoutDeltas(a.refs.deltas, {headers[i] : i \in 1 .. 0})
    BY DEF Refs, Release, WithoutDeltas
  <2>3. ReleasedTo(a, headers, 0, a)
    BY <2>2 DEF ReleasedTo, HandsOver
  <2> QED
    BY <2>1, <2>3
<1>9. ASSUME NEW n \in 1..len, n - 1 \in good PROVE n \in good
  <2>1. ReleasedTo(a, headers, n - 1, f[n - 1]) /\ n \in 0..len /\ n # 0
    BY <1>9
  <2>2. f[n] = MarkUnused(f[n - 1], headers[n])
    BY <2>1, <1>7
  <2>3. ReleasedTo(a, headers, n, MarkUnused(f[n - 1], headers[n]))
    BY <2>1, ReleasesNext
  <2> QED
    BY <2>1, <2>2, <2>3
<1> HIDE DEF good
<1>10. 0..len \subseteq good
  BY <1>1, <1>8, <1>9, UpTo
<1>11. ReleasedTo(a, headers, len, f[len])
  BY <1>10, <1>1 DEF good
<1> QED
  BY <1>3, <1>11

\* SetToSeqs: the elements of a finite set, each once.
LEMMA OrderIs ==
  ASSUME NEW S \in SUBSET Header, IsFiniteSet(S), NEW order \in SetToSeqs(S)
  PROVE  order \in Seq(Header) /\ {order[i] : i \in 1 .. Len(order)} = S
<1> DEFINE n == Cardinality(S)
<1>1. n \in Nat
  BY FS_CardinalityType
<1>2. order \in [1 .. n -> S] /\ \A i, j \in 1 .. n : i # j => order[i] # order[j]
  BY DEF SetToSeqs
<1>3. order \in Injection(1 .. n, S)
  BY <1>2 DEF Injection, IsInjective
<1>4. IsFiniteSet(1 .. n) /\ Cardinality(1 .. n) = n
  <2> HIDE DEF n
  <2>1. 1 \in Int /\ n \in Int
    BY <1>1
  <2>2. IsFiniteSet(1 .. n) /\ Cardinality(1 .. n) = IF 1 > n THEN 0 ELSE n - 1 + 1
    BY <2>1, FS_Interval
  <2> QED
    BY <2>2, <1>1
<1>5. order \in Surjection(1 .. n, S)
  BY <1>3, <1>4, FS_Injection
<1> HIDE DEF n
<1>6. order \in Seq(Header) /\ Len(order) = n
  BY <1>1, <1>2
<1>7. \A x \in S : \E i \in 1 .. n : order[i] = x
  BY <1>5 DEF Surjection
<1> QED
  BY <1>2, <1>6, <1>7

(* The invariant *)

\* The blocks that the finalizer follows.
Tracks == {lastFinalized} \cup Blocks(unfinalized)

\* A block whose state is stored already, but that is not imported yet.
Fresh == IF pc = "stored" THEN {import.header} ELSE {}
ParentOf(h) == IF h \in Fresh THEN import.parent ELSE parent[h]

\* The values that were written for a state that is not stored yet.
Flushed == IF pc \in {"persist", "written"} THEN R!Members(import.delta.inserted) ELSE {}

Shape ==
    /\ leafs \in [Block -> Leafs \cup {NoState}]
    /\ refs \in Refs
    /\ disk \subseteq Value /\ stray \subseteq Value
    /\ cleanup \in Queue
    /\ pc \in {"idle", "flush", "persist", "written", "stored"}
    /\ failures \in [writes : Nat, removals : Nat]

\* The block to be imported is a child of a block whose state is there.
ImportIsReady ==
    pc # "idle" =>
        /\ import.header \in Header /\ parent[import.header] = NotImported
        /\ import.parent \in Tracks
        /\ import.leafs \in Leafs /\ import.delta \in Delta
        /\ Tells(import.delta, leafs[import.parent], import.leafs)

\* The blocks with a state are those the finalizer follows, and each but the
\* finalized one waits with a delta that tells its leaves from its parent's.
Counted ==
    /\ Loadable = Tracks \cup Fresh
    /\ Waiting(refs.deltas) = Blocks(unfinalized) \cup Fresh
    /\ PendingIsExact(refs)
    /\ refs.finalized = References(leafs[lastFinalized])
    /\ \A h \in Waiting(refs.deltas) :
        /\ ParentOf(h) \in Tracks
        /\ Tells(refs.deltas[h], leafs[ParentOf(h)], leafs[h])

\* Until a removal fails: what is held is on disk and not about to be removed,
\* and without any failure nothing else is.
DiskHolds ==
    failures.removals = 0 =>
        /\ stray = {}
        /\ HeldBy(refs) \cup Flushed \subseteq disk
        /\ (HeldBy(refs) \cup Flushed) \cap Removing(cleanup) = {}
        /\ failures.writes = 0 => disk \subseteq HeldBy(refs) \cup Flushed \cup Removing(cleanup)

StatesIInv ==
    /\ IInv /\ restarts = 0
    /\ Shape /\ ImportIsReady /\ Counted /\ DiskHolds

\* A value that a waiting block inserted is counted.
LEMMA InsertedIsPending ==
  ASSUME NEW r \in Refs, PendingIsExact(r), NEW h \in Header, r.deltas[h] \in Delta, NEW v \in Value,
         r.deltas[h].inserted[v] > 0
  PROVE  v \in HeldBy(r)
<1> DEFINE n == r.deltas[h].inserted[v]
           A == InsertionsIn(r.deltas, v)
<1>1. n \in Nat /\ r.pending[v] \in Nat
  BY DEF Delta, Bag, Refs
<1>2. h \in Waiting(r.deltas)
  BY AbsenceAssumption DEF Waiting
<1>3. 1 \in 1 .. n
  BY <1>1
<1>4. <<h, 1>> \in A
  BY <1>2, <1>3 DEF InsertionsIn
<1>5. IsFiniteSet(A) /\ r.pending[v] = Cardinality(A)
  BY DEF PendingIsExact
<1> HIDE DEF A
<1>6. r.pending[v] # 0
  BY <1>4, <1>5, FS_EmptySet
<1> QED
  BY <1>1, <1>6 DEF HeldBy

\* The states that can be loaded are those of the tracked blocks, and of the
\* block that is being imported.
LEMMA LoadableLeafs ==
  ASSUME Shape, Counted, NEW b \in Tracks \cup Fresh
  PROVE  b \in Block /\ leafs[b] \in Leafs
  BY DEF Shape, Counted, Loadable

LEMMA WaitingDeltas ==
  ASSUME Shape, NEW h \in Waiting(refs.deltas)
  PROVE  h \in Header /\ refs.deltas[h] \in Delta
  BY DEF Shape, Waiting, Refs

\* One step down the tree: a value of a waiting block is counted, or its parent
\* has it.
LEMMA HeldOrInherited ==
  ASSUME Shape, Counted, NEW h \in Waiting(refs.deltas), NEW v \in Value, References(leafs[h])[v] > 0
  PROVE  v \in HeldBy(refs) \/ References(leafs[ParentOf(h)])[v] > 0
<1> DEFINE d == refs.deltas[h]
<1>1. h \in Header /\ d \in Delta /\ refs \in Refs
  BY WaitingDeltas DEF Shape
<1>2. leafs[h] \in Leafs /\ leafs[ParentOf(h)] \in Leafs
  BY LoadableLeafs DEF Counted, Tracks
<1>3. References(leafs[h])[v] + d.removed[v] = References(leafs[ParentOf(h)])[v] + d.inserted[v]
  BY DEF Counted, Tells
<1>4. /\ References(leafs[h])[v] \in Nat /\ References(leafs[ParentOf(h)])[v] \in Nat
      /\ d.removed[v] \in Nat /\ d.inserted[v] \in Nat
  BY <1>1, <1>2, ReferencesType DEF Bag, Delta
<1>5. d.inserted[v] > 0 => v \in HeldBy(refs)
  BY <1>1, InsertedIsPending DEF Counted
<1> HIDE DEF d
<1> QED
  BY <1>3, <1>4, <1>5

\* Every value of a state that can be loaded is counted.
LEMMA ReferencedIsHeld ==
  ASSUME StatesIInv, NEW b \in Loadable, NEW k \in Key, NEW v \in Value, leafs[b][k] = v
  PROVE  v \in HeldBy(refs)
<1> USE DEF StatesIInv
<1>0. /\ Loadable = Tracks \cup Fresh /\ Waiting(refs.deltas) = Blocks(unfinalized) \cup Fresh
      /\ refs.finalized = References(leafs[lastFinalized])
  BY DEF Counted
<1>1. References(leafs[b])[v] > 0
  BY <1>0, LoadableLeafs, ReferencesType
<1>2. References(leafs[lastFinalized])[v] > 0 => v \in HeldBy(refs)
  BY <1>0 DEF HeldBy
<1>3. ASSUME NEW h \in Blocks(unfinalized), References(leafs[h])[v] > 0
      PROVE  v \in HeldBy(refs)
  <2>1. PICK c \in unfinalized : \E i \in DOMAIN c : h = c[i]
    BY DEF Blocks
  <2>2. /\ IsPath(parent, Lineage, lastFinalized, c)
        /\ c \in Seq(Header) /\ DOMAIN c = 1 .. Len(c) /\ Len(c) \in Nat
    BY ChainShape DEF IInv, ChainsAbove
  <2> DEFINE T == {i \in DOMAIN c : References(leafs[c[i]])[v] > 0}
  <2>3. PICK n \in T : \A m \in T : n <= m
    <3>1. T \subseteq Nat /\ T # {}
      BY <2>1, <2>2, <1>3
    <3> HIDE DEF T
    <3> QED
      BY <3>1, LeastNumber
  <2>4. c[n] \in Blocks(unfinalized) /\ n \in DOMAIN c
    BY BlocksAreStored DEF IInv
  <2>5. ParentOf(c[n]) = parent[c[n]]
    <3>1. parent[c[n]] # NotImported
      <4>1. c[n] \in StoredIn(parent)
        BY <2>4, BlocksAreStored DEF IInv
      <4> QED
        BY <2>4, <4>1, GenesisAssumption DEF Blocks, StoredIn
    <3> QED
      BY <3>1 DEF ParentOf, Fresh, ImportIsReady
  <2>6. v \in HeldBy(refs) \/ References(leafs[parent[c[n]]])[v] > 0
    BY <2>3, <2>4, <2>5, <1>0, HeldOrInherited
  <2>7. CASE n = 1
    BY <2>2, <2>4, <2>6, <2>7, <1>2 DEF IsPath
  <2>8. CASE n # 1
    <3>1. n - 1 \in DOMAIN c /\ ~(n <= n - 1)
      BY <2>2, <2>4, <2>8
    <3>2. n - 1 \notin T
      BY <3>1, <2>3
    <3>3. parent[c[n]] = c[n - 1]
      BY <2>2, <2>4, <2>8 DEF IsPath
    <3> QED
      BY <3>1, <3>2, <3>3, <2>6
  <2> QED
    BY <2>7, <2>8
<1>4. ASSUME NEW h \in Fresh, References(leafs[h])[v] > 0
      PROVE  v \in HeldBy(refs)
  <2>1. ParentOf(h) \in Tracks /\ (v \in HeldBy(refs) \/ References(leafs[ParentOf(h)])[v] > 0)
    BY <1>0, <1>4, HeldOrInherited DEF Counted
  <2> QED
    BY <2>1, <1>2, <1>3 DEF Tracks
<1> QED
  BY <1>0, <1>1, <1>2, <1>3, <1>4 DEF Tracks

(* Steps *)

\* insertInitialState: the values of the initial state are counted and on disk.
LEMMA StatesInitIInv == Init => StatesIInv
<1> SUFFICES ASSUME Init PROVE StatesIInv
  OBVIOUS
<1>1. /\ FinalizerInit /\ unfinalized = {} /\ lastFinalized = Genesis /\ restarts = 0
      /\ cleanup = <<>> /\ stray = {} /\ pc = "idle" /\ failures = [writes |-> 0, removals |-> 0]
  BY DEF Init, FinalizerInit
<1>2. PICK initial \in Leafs :
        /\ leafs = [b \in Block |-> IF b = Genesis THEN initial ELSE NoState]
        /\ refs = R!OnInitial(R!EmptyRefs, References(initial)).refs
        /\ disk = R!Members(References(initial))
  BY DEF Init
<1>3. IInv
  BY <1>1, InitIInv
<1>4. References(initial) \in Bag
  BY ReferencesType
<1>5. R!NoValues \in Bag /\ \A v \in Value : R!NoValues[v] = 0
  BY DEF R!NoValues, Bag
<1>6. R!BagSum(R!NoValues, References(initial)) = References(initial)
  <2>1. \A v \in Value : R!BagSum(R!NoValues, References(initial))[v] = References(initial)[v]
    BY <1>4, <1>5 DEF R!BagSum, Bag
  <2>2. R!BagSum(R!NoValues, References(initial)) = [v \in Value |-> R!BagSum(R!NoValues, References(initial))[v]]
    BY DEF R!BagSum
  <2> QED
    BY <2>1, <2>2, <1>4 DEF Bag
<1>7. refs = [finalized |-> References(initial), pending |-> R!NoValues, deltas |-> [h \in Header |-> NoDelta]]
  BY <1>2, <1>6 DEF R!OnInitial, R!EmptyRefs, R!Update
<1>8. /\ refs.finalized = References(initial) /\ refs.pending = R!NoValues
      /\ refs.deltas = [h \in Header |-> NoDelta] /\ refs \in Refs
  BY <1>4, <1>5, <1>7 DEF Refs
<1>9. Waiting(refs.deltas) = {} /\ \A v \in Value : InsertionsIn(refs.deltas, v) = {}
  <2>1. Waiting(refs.deltas) = {}
    BY <1>8 DEF Waiting
  <2> QED
    BY <2>1 DEF InsertionsIn
<1>10. PendingIsExact(refs)
  BY <1>5, <1>8, <1>9, FS_EmptySet DEF PendingIsExact
<1>11. HeldBy(refs) = disk /\ disk \subseteq Value
  BY <1>2, <1>4, <1>5, <1>8 DEF HeldBy, R!Members, Bag
<1>12. cleanup \in Queue /\ Removing(cleanup) = {}
  BY <1>1 DEF Queue, Removing
<1>13. Genesis \in Block /\ leafs[Genesis] = initial /\ leafs \in [Block -> Leafs \cup {NoState}]
       /\ \A b \in Block : leafs[b] # NoState <=> b = Genesis
  BY <1>2, AbsenceAssumption DEF Block
<1>14. Blocks(unfinalized) = {} /\ Tracks = {Genesis} /\ Fresh = {} /\ Flushed = {}
  BY <1>1 DEF Blocks, Tracks, Fresh, Flushed
<1>15. Shape
  BY <1>1, <1>8, <1>11, <1>12, <1>13 DEF Shape
<1>16. ImportIsReady
  BY <1>1 DEF ImportIsReady
<1>17. Loadable = {Genesis}
  BY <1>13 DEF Loadable
<1>18. Counted
  BY <1>1, <1>8, <1>9, <1>10, <1>13, <1>14, <1>17 DEF Counted
<1>19. DiskHolds
  BY <1>1, <1>11, <1>12, <1>14 DEF DiskHolds
<1> QED
  BY <1>1, <1>3, <1>15, <1>16, <1>18, <1>19 DEF StatesIInv

\* The finalizer does nothing before an import ends.
LEMMA FinalizerStays ==
  ASSUME StatesIInv, UNCHANGED finalizerVars
  PROVE  /\ IInv' /\ restarts' = 0
         /\ Tracks' = Tracks /\ Blocks(unfinalized') = Blocks(unfinalized)
         /\ parent' = parent /\ lastFinalized' = lastFinalized
<1>1. IInv /\ restarts = 0
  BY DEF StatesIInv
<1>2. IInv'
  BY <1>1, NextIInv
<1> QED
  BY <1>1, <1>2 DEF finalizerVars, Tracks, Blocks

\* What is counted stays as it is while no state is stored.
LEMMA CountedStays ==
  ASSUME StatesIInv, UNCHANGED finalizerVars, UNCHANGED statesVars,
         (pc # "stored" /\ pc' # "stored") \/ UNCHANGED <<pc, import>>
  PROVE  Counted'
<1>1. /\ Tracks' = Tracks /\ Blocks(unfinalized') = Blocks(unfinalized)
      /\ parent' = parent /\ lastFinalized' = lastFinalized
  BY FinalizerStays
<1>2. leafs' = leafs /\ refs' = refs
  BY DEF statesVars
<1>3. Fresh' = Fresh
  BY DEF Fresh
<1>4. \A h : ParentOf(h)' = ParentOf(h)
  BY <1>1, <1>3 DEF ParentOf, Fresh
<1>5. Loadable' = Loadable
  BY <1>2 DEF Loadable
<1> QED
  BY <1>1, <1>2, <1>3, <1>4, <1>5 DEF Counted, StatesIInv

\* A block is executed on the state of its parent: the delta tells its leaves.
LEMMA StartIInv ==
  ASSUME StatesIInv, NEW h \in Header, NEW p \in Block, StartImport(h, p)
  PROVE  StatesIInv'
<1> USE DEF StatesIInv
<1>1. /\ pc = "idle" /\ parent[h] = NotImported /\ leafs[p] # NoState
      /\ UNCHANGED <<finalizerVars, leafs, refs, disk, cleanup, stray, failures>>
  BY DEF StartImport, statesVars, diskVars
<1>2. PICK writes \in Writes :
        /\ import' = [header |-> h, parent |-> p, leafs |-> UpdateLeafs(leafs[p], writes).leafs,
                      delta |-> [inserted |-> UpdateLeafs(leafs[p], writes).inserted,
                                 removed |-> UpdateLeafs(leafs[p], writes).removed]]
        /\ pc' = IF R!Members(UpdateLeafs(leafs[p], writes).inserted) = {} THEN "written" ELSE "flush"
  BY DEF StartImport
<1> DEFINE u == UpdateLeafs(leafs[p], writes)
           d == [inserted |-> u.inserted, removed |-> u.removed]
<1>3. p \in Tracks /\ leafs[p] \in Leafs
  BY <1>1, LoadableLeafs DEF Counted, Loadable, Fresh
<1>4. writes \in Seq(Write)
  <2>1. PICK m \in 0 .. MaxWrites : writes \in [1 .. m -> Write]
    BY DEF Writes, BoundedSeq, SeqOf, Write
  <2>2. m \in Nat
    BY BoundAssumption
  <2> QED
    BY <2>1, <2>2
<1>5. u \in LeafUpdate /\ Tells(u, leafs[p], u.leafs)
  BY <1>3, <1>4, UpdateLeafsTell
<1> HIDE DEF u
<1>6. /\ import'.header = h /\ import'.parent = p /\ import'.leafs = u.leafs /\ import'.delta = d
      /\ pc' \in {"written", "flush"} /\ (pc' = "written" => R!Members(u.inserted) = {})
  BY <1>2 DEF u
<1>7. d \in Delta /\ u.leafs \in Leafs /\ Tells(d, leafs[p], u.leafs) /\ d.inserted = u.inserted
  BY <1>5 DEF LeafUpdate, Delta, Tells
<1> HIDE DEF d
<1>8. /\ IInv' /\ restarts' = 0 /\ Tracks' = Tracks /\ parent' = parent
  BY <1>1, FinalizerStays
<1>9. Counted'
  BY <1>1, <1>6, CountedStays DEF statesVars
<1>10. Shape'
  BY <1>1, <1>6 DEF Shape
<1>11. ImportIsReady'
  BY <1>1, <1>3, <1>6, <1>7, <1>8 DEF ImportIsReady
<1>12. Flushed = {} /\ Flushed' = {}
  BY <1>1, <1>6, <1>7 DEF Flushed
<1>13. DiskHolds'
  BY <1>1, <1>12 DEF DiskHolds
<1> QED
  BY <1>8, <1>9, <1>10, <1>11, <1>13

\* What a step of the writes leaves as it is.
LEMMA ImportStays ==
  ASSUME StatesIInv, UNCHANGED finalizerVars, UNCHANGED statesVars, UNCHANGED import, pc # "idle"
  PROVE  ImportIsReady'
<1>1. Tracks' = Tracks /\ parent' = parent
  BY FinalizerStays
<1> QED
  BY <1>1 DEF StatesIInv, ImportIsReady, statesVars

LEMMA InsertIInv ==
  ASSUME StatesIInv, InsertBatch
  PROVE  StatesIInv'
<1> USE DEF StatesIInv
<1>1. /\ pc = "flush" /\ pc' = "persist" /\ cleanup = <<>>
      /\ disk' = disk \cup R!Members(import.delta.inserted)
      /\ UNCHANGED <<finalizerVars, leafs, refs, cleanup, stray, import, failures>>
  BY DEF InsertBatch, statesVars
<1>2. IInv' /\ restarts' = 0
  BY <1>1, FinalizerStays
<1>3. Counted' /\ ImportIsReady'
  BY <1>1, CountedStays, ImportStays DEF statesVars
<1>4. R!Members(import.delta.inserted) \subseteq Value
  BY DEF R!Members
<1>5. Shape'
  BY <1>1, <1>4 DEF Shape
<1>6. Removing(cleanup) = {}
  BY <1>1 DEF Removing
<1>7. Flushed = {} /\ Flushed' = R!Members(import.delta.inserted)
  BY <1>1 DEF Flushed
<1>8. DiskHolds'
  BY <1>1, <1>6, <1>7 DEF DiskHolds
<1> QED
  BY <1>2, <1>3, <1>5, <1>8

LEMMA PersistIInv ==
  ASSUME StatesIInv, Persist
  PROVE  StatesIInv'
<1> USE DEF StatesIInv
<1>1. /\ pc = "persist" /\ pc' = "written"
      /\ UNCHANGED <<finalizerVars, leafs, refs, disk, cleanup, stray, import, failures>>
  BY DEF Persist, statesVars, diskVars
<1>2. IInv' /\ restarts' = 0
  BY <1>1, FinalizerStays
<1>3. Counted' /\ ImportIsReady'
  BY <1>1, CountedStays, ImportStays DEF statesVars
<1>4. Shape'
  BY <1>1 DEF Shape
<1>5. Flushed' = Flushed
  BY <1>1 DEF Flushed
<1>6. DiskHolds'
  BY <1>1, <1>5 DEF DiskHolds
<1> QED
  BY <1>2, <1>3, <1>4, <1>6

\* The values that were written stay on disk: from now on there was a failure.
LEMMA FailWriteIInv ==
  ASSUME StatesIInv, FailWrite
  PROVE  StatesIInv'
<1> USE DEF StatesIInv
<1>1. /\ pc \in {"flush", "persist"} /\ pc' = "idle"
      /\ failures' = [failures EXCEPT !.writes = @ + 1]
      /\ UNCHANGED <<finalizerVars, leafs, refs, disk, cleanup, stray>>
  BY DEF FailWrite, statesVars, diskVars
<1>2. IInv' /\ restarts' = 0
  BY <1>1, FinalizerStays
<1>3. Counted' /\ ImportIsReady'
  BY <1>1, CountedStays DEF statesVars, ImportIsReady
<1>4. /\ failures' \in [writes : Nat, removals : Nat]
      /\ failures'.removals = failures.removals /\ failures'.writes # 0
  BY <1>1 DEF Shape
<1>5. Shape'
  BY <1>1, <1>4 DEF Shape
<1>6. Flushed' = {}
  BY <1>1 DEF Flushed
<1>7. DiskHolds'
  BY <1>1, <1>4, <1>6 DEF DiskHolds
<1> QED
  BY <1>2, <1>3, <1>5, <1>7

\* The state of the block is stored and its insertions are counted.
LEMMA SetStateIInv ==
  ASSUME StatesIInv, SetState
  PROVE  StatesIInv'
<1> USE DEF StatesIInv
<1> DEFINE h == import.header
           d == import.delta
<1>1. /\ pc = "written" /\ pc' = "stored"
      /\ leafs' = [leafs EXCEPT ![h] = import.leafs]
      /\ refs' = R!OnImport(refs, h, d).refs
      /\ UNCHANGED <<finalizerVars, disk, cleanup, stray, import, failures>>
  BY DEF SetState, diskVars
<1>2. /\ IInv' /\ restarts' = 0 /\ Tracks' = Tracks /\ Blocks(unfinalized') = Blocks(unfinalized)
      /\ parent' = parent /\ lastFinalized' = lastFinalized
  BY <1>1, FinalizerStays
<1>3. /\ h \in Header /\ parent[h] = NotImported /\ import.parent \in Tracks
      /\ import.leafs \in Leafs /\ d \in Delta /\ Tells(d, leafs[import.parent], import.leafs)
  BY <1>1 DEF ImportIsReady
<1>4. h \notin Tracks
  <2>1. h \notin StoredIn(parent)
    BY <1>3, GenesisAssumption DEF StoredIn
  <2> QED
    BY <2>1, BlocksAreStored DEF IInv, Tracks, ChainsAbove
<1>5. Fresh = {} /\ Fresh' = {h}
  BY <1>1 DEF Fresh
<1>6. Loadable = Tracks /\ Waiting(refs.deltas) = Blocks(unfinalized)
  BY <1>5 DEF Counted
<1>7. refs.deltas[h] = NoDelta /\ h \in Block
  BY <1>3, <1>4, <1>6 DEF Tracks, Waiting, Block
<1>8. /\ refs \in Refs /\ refs.finalized \in Bag /\ refs.pending \in Bag
      /\ refs.deltas \in [Header -> Delta \cup {NoDelta}] /\ d.inserted \in Bag
  BY <1>3 DEF Shape, Refs, Delta
<1>9. refs' = [refs EXCEPT !.deltas[h] = d, !.pending = R!BagSum(refs.pending, d.inserted)]
  BY <1>1, <1>7, <1>8 DEF R!OnImport, R!Update, Refs
<1>10. /\ refs'.finalized = refs.finalized
       /\ refs'.pending = R!BagSum(refs.pending, d.inserted)
       /\ refs'.deltas = WithDelta(refs.deltas, h, d)
       /\ refs' \in Refs
  <2>1. R!BagSum(refs.pending, d.inserted) \in Bag
    BY <1>8 DEF R!BagSum, Bag
  <2>2. WithDelta(refs.deltas, h, d) \in [Header -> Delta \cup {NoDelta}]
    BY <1>3, <1>8 DEF WithDelta
  <2>3. refs' = [finalized |-> refs.finalized, pending |-> R!BagSum(refs.pending, d.inserted),
                 deltas |-> WithDelta(refs.deltas, h, d)]
    BY <1>8, <1>9 DEF WithDelta, Refs
  <2> QED
    BY <2>1, <2>2, <2>3, <1>8 DEF Refs
<1> HIDE DEF h, d
<1>11. PendingIsExact(refs')
  BY <1>3, <1>7, <1>8, <1>10, PendingWith DEF Counted
<1>12. \A g \in Header : refs'.deltas[g] = IF g = h THEN d ELSE refs.deltas[g]
  BY <1>8, <1>10 DEF WithDelta
<1>13. Waiting(refs'.deltas) = Waiting(refs.deltas) \cup {h}
  BY <1>3, <1>12, AbsenceAssumption DEF Waiting
<1>14. \A b \in Block : leafs'[b] = IF b = h THEN import.leafs ELSE leafs[b]
  BY <1>1 DEF Shape, h
<1>15. leafs' \in [Block -> Leafs \cup {NoState}]
  BY <1>1, <1>3 DEF Shape, h
<1>16. Loadable' = Loadable \cup {h}
  BY <1>3, <1>7, <1>14, AbsenceAssumption DEF Loadable
<1>17. Shape'
  BY <1>1, <1>10, <1>15 DEF Shape
<1>18. \A b \in Tracks : b \in Block /\ leafs'[b] = leafs[b]
  BY <1>4, <1>14, LoadableLeafs
<1>19. ImportIsReady'
  BY <1>1, <1>2, <1>3, <1>18 DEF ImportIsReady, h, d
<1>20. ASSUME NEW g \in Waiting(refs'.deltas)
       PROVE  ParentOf(g)' \in Tracks /\ Tells(refs'.deltas[g], leafs'[ParentOf(g)'], leafs'[g])
  <2>1. CASE g = h
    <3>1. ParentOf(g)' = import.parent
      BY <2>1, <1>1, <1>5 DEF ParentOf
    <3>2. refs'.deltas[g] = d /\ leafs'[g] = import.leafs /\ leafs'[import.parent] = leafs[import.parent]
      BY <2>1, <1>3, <1>7, <1>12, <1>14, <1>18
    <3> QED
      BY <3>1, <3>2, <1>3
  <2>2. CASE g # h
    <3>1. g \in Waiting(refs.deltas) /\ g \in Header
      BY <2>2, <1>13 DEF Waiting
    <3>2. ParentOf(g)' = ParentOf(g)
      BY <2>2, <1>2, <1>5 DEF ParentOf
    <3>3. ParentOf(g) \in Tracks /\ Tells(refs.deltas[g], leafs[ParentOf(g)], leafs[g])
      BY <3>1 DEF Counted
    <3>4. g \in Tracks
      BY <3>1, <1>6 DEF Tracks
    <3>5. refs'.deltas[g] = refs.deltas[g] /\ leafs'[g] = leafs[g] /\ leafs'[ParentOf(g)] = leafs[ParentOf(g)]
      BY <2>2, <3>1, <3>3, <3>4, <1>12, <1>18
    <3> QED
      BY <3>2, <3>3, <3>5
  <2> QED
    BY <2>1, <2>2
<1>21. refs'.finalized = References(leafs'[lastFinalized])
  BY <1>10, <1>18 DEF Counted, Tracks
<1>22. Counted'
  <2>1. Loadable' = Tracks' \cup Fresh' /\ Waiting(refs'.deltas) = Blocks(unfinalized') \cup Fresh'
    BY <1>2, <1>5, <1>6, <1>13, <1>16
  <2> QED
    BY <2>1, <1>2, <1>11, <1>20, <1>21 DEF Counted
<1>23. HeldBy(refs') = HeldBy(refs) \cup R!Members(d.inserted)
  <2>1. \A v \in Value : /\ refs'.pending[v] = refs.pending[v] + d.inserted[v]
                         /\ refs.pending[v] \in Nat /\ d.inserted[v] \in Nat /\ refs.finalized[v] \in Nat
    BY <1>8, <1>10 DEF R!BagSum, Bag
  <2>2. \A v \in Value : refs'.pending[v] > 0 <=> refs.pending[v] > 0 \/ d.inserted[v] > 0
    BY <2>1
  <2> QED
    BY <2>2, <1>10 DEF HeldBy, R!Members
<1>24. Flushed = R!Members(d.inserted) /\ Flushed' = {}
  BY <1>1 DEF Flushed, d
<1>25. DiskHolds'
  BY <1>1, <1>23, <1>24 DEF DiskHolds
<1> QED
  BY <1>2, <1>17, <1>19, <1>22, <1>25

\* A removal takes a value out of the first batch.
LEMMA FirstBatch ==
  ASSUME NEW queue \in Queue, queue # <<>>, NEW v \in Head(queue)
  PROVE  /\ v \in Removing(queue)
         /\ Head(queue) \subseteq Value
         /\ Tail(queue) \in Queue
         /\ Removing(queue) = Head(queue) \cup Removing(Tail(queue))
<1>1. /\ Len(queue) \in Nat /\ Len(queue) >= 1 /\ DOMAIN queue = 1 .. Len(queue)
      /\ \A i \in DOMAIN queue : queue[i] \subseteq Value
      /\ Head(queue) = queue[1] /\ 1 \in DOMAIN queue
  BY DEF Queue
<1>2. /\ Tail(queue) \in Queue /\ DOMAIN Tail(queue) = 1 .. (Len(queue) - 1)
      /\ \A i \in 1 .. (Len(queue) - 1) : Tail(queue)[i] = queue[i + 1]
  BY <1>1 DEF Queue
<1>3. \A i \in DOMAIN queue : i = 1 \/ (i - 1 \in DOMAIN Tail(queue) /\ Tail(queue)[i - 1] = queue[i])
  <2> SUFFICES ASSUME NEW i \in DOMAIN queue, i # 1
               PROVE  i - 1 \in DOMAIN Tail(queue) /\ Tail(queue)[i - 1] = queue[i]
    OBVIOUS
  <2>1. i - 1 \in 1 .. (Len(queue) - 1) /\ (i - 1) + 1 = i
    BY <1>1
  <2> QED
    BY <2>1, <1>2
<1>4. \A i \in DOMAIN Tail(queue) : i + 1 \in DOMAIN queue /\ queue[i + 1] = Tail(queue)[i]
  BY <1>1, <1>2
<1>5. Removing(queue) = Head(queue) \cup Removing(Tail(queue))
  <2>1. ASSUME NEW x \in Removing(queue) PROVE x \in Head(queue) \cup Removing(Tail(queue))
    BY <1>1, <1>3 DEF Removing
  <2>2. ASSUME NEW x \in Head(queue) PROVE x \in Removing(queue)
    BY <1>1 DEF Removing
  <2>3. ASSUME NEW x \in Removing(Tail(queue)) PROVE x \in Removing(queue)
    BY <1>4 DEF Removing
  <2> QED
    BY <2>1, <2>2, <2>3
<1> QED
  BY <1>1, <1>2, <1>5

LEMMA RemovalShrinks ==
  ASSUME NEW queue \in Queue, queue # <<>>, NEW v \in Head(queue), NEW rest, rest = Head(queue) \ {v},
         NEW queue2, queue2 = IF rest = {} THEN Tail(queue) ELSE <<rest>> \o Tail(queue)
  PROVE  queue2 \in Queue /\ Removing(queue2) = rest \cup Removing(Tail(queue))
<1>1. Tail(queue) \in Queue /\ rest \subseteq Value
  BY FirstBatch
<1>2. CASE rest = {}
  BY <1>1, <1>2
<1>3. CASE rest # {}
  <2> DEFINE tail == Tail(queue)
  <2>1. tail \in Seq((SUBSET Value) \ {{}}) /\ rest \in (SUBSET Value) \ {{}}
    BY <1>1, <1>3 DEF Queue
  <2>2. queue2 = <<rest>> \o tail
    BY <1>3
  <2> HIDE DEF tail
  <2>3. Len(tail) \in Nat /\ DOMAIN tail = 1 .. Len(tail)
    BY <2>1
  <2>4. /\ queue2 \in Queue /\ DOMAIN queue2 = 1 .. (Len(tail) + 1)
        /\ \A i \in 1 .. (Len(tail) + 1) : queue2[i] = IF i = 1 THEN rest ELSE tail[i - 1]
    <3> DEFINE S == (SUBSET Value) \ {{}}
               first == <<rest>>
    <3>1. first \in Seq(S) /\ tail \in Seq(S) /\ Len(first) = 1 /\ first[1] = rest
      BY <2>1
    <3> HIDE DEF first, S
    <3>2. queue2 = first \o tail
      BY <2>2 DEF first
    <3>3. /\ first \o tail \in Seq(S) /\ Len(first \o tail) = Len(first) + Len(tail)
          /\ \A i \in 1 .. Len(first) + Len(tail) :
                (first \o tail)[i] = IF i <= Len(first) THEN first[i] ELSE tail[i - Len(first)]
      <4>1. first \in Seq(S) /\ tail \in Seq(S)
        BY <3>1
      <4> QED
        BY ONLY <4>1, ConcatProperties, Zenon
    <3>4. queue2 \in Queue /\ Len(queue2) = 1 + Len(tail)
      BY <3>1, <3>2, <3>3 DEF Queue, S
    <3>5. DOMAIN queue2 = 1 .. (Len(tail) + 1) /\ Len(first) + Len(tail) = Len(tail) + 1
      BY <2>3, <3>1, <3>4 DEF Queue
    <3>6. \A i \in 1 .. (Len(tail) + 1) : i <= 1 <=> i = 1
      BY <2>3
    <3> QED
      BY <3>1, <3>2, <3>3, <3>4, <3>5, <3>6
  <2>5. ASSUME NEW x \in Removing(queue2) PROVE x \in rest \cup Removing(tail)
    <3>1. PICK i \in 1 .. (Len(tail) + 1) : x \in queue2[i] /\ x \in Value
      BY <2>4, <2>5 DEF Removing
    <3>2. CASE i = 1
      BY <3>1, <3>2, <2>4
    <3>3. CASE i # 1
      <4>1. i - 1 \in DOMAIN tail /\ queue2[i] = tail[i - 1]
        BY <3>3, <2>3, <2>4
      <4> QED
        BY <4>1, <3>1 DEF Removing
    <3> QED
      BY <3>2, <3>3
  <2>6. ASSUME NEW x \in rest PROVE x \in Removing(queue2)
    <3>1. 1 \in DOMAIN queue2 /\ queue2[1] = rest
      BY <2>3, <2>4
    <3> QED
      BY <3>1, <1>1 DEF Removing
  <2>7. ASSUME NEW x \in Removing(tail) PROVE x \in Removing(queue2)
    <3>1. PICK i \in DOMAIN tail : x \in tail[i] /\ x \in Value
      BY <2>7 DEF Removing
    <3>2. i + 1 \in DOMAIN queue2 /\ i + 1 # 1 /\ (i + 1) - 1 = i
      BY <2>3, <2>4
    <3>3. queue2[i + 1] = tail[i]
      BY <3>2, <2>4
    <3> QED
      BY <3>1, <3>2, <3>3 DEF Removing
  <2> QED
    BY <2>4, <2>5, <2>6, <2>7 DEF tail
<1> QED
  BY <1>2, <1>3

LEMMA RemoveIInv ==
  ASSUME StatesIInv, NEW v \in Value, RemoveValue(v)
  PROVE  StatesIInv'
<1> USE DEF StatesIInv
<1>1. /\ cleanup # <<>> /\ v \in Head(cleanup) /\ disk' = disk \ {v}
      /\ cleanup' = IF Head(cleanup) \ {v} = {} THEN Tail(cleanup) ELSE <<Head(cleanup) \ {v}>> \o Tail(cleanup)
      /\ UNCHANGED <<finalizerVars, leafs, refs, stray, pc, import, failures>>
  BY DEF RemoveValue, FinishRemoval, statesVars
<1>2. IInv' /\ restarts' = 0
  BY <1>1, FinalizerStays
<1>3. Counted' /\ ImportIsReady'
  BY <1>1, CountedStays, ImportStays DEF statesVars, ImportIsReady
<1>4. /\ v \in Removing(cleanup) /\ Removing(cleanup) = Head(cleanup) \cup Removing(Tail(cleanup))
      /\ cleanup' \in Queue /\ Removing(cleanup') = (Head(cleanup) \ {v}) \cup Removing(Tail(cleanup))
  BY <1>1, FirstBatch, RemovalShrinks DEF Shape
<1>5. Shape'
  BY <1>1, <1>4 DEF Shape
<1>6. Flushed' = Flushed
  BY <1>1 DEF Flushed
<1>7. DiskHolds'
  BY <1>1, <1>4, <1>6 DEF DiskHolds
<1> QED
  BY <1>2, <1>3, <1>5, <1>7

LEMMA FailRemovalIInv ==
  ASSUME StatesIInv, NEW v \in Value, FailRemoval(v)
  PROVE  StatesIInv'
<1> USE DEF StatesIInv
<1>1. /\ cleanup # <<>> /\ v \in Head(cleanup) /\ cleanup' = Tail(cleanup)
      /\ stray' = stray \cup (Head(cleanup) \ {v})
      /\ failures' = [failures EXCEPT !.removals = @ + 1]
      /\ UNCHANGED <<finalizerVars, leafs, refs, disk, pc, import>>
  BY DEF FailRemoval, statesVars
<1>2. IInv' /\ restarts' = 0
  BY <1>1, FinalizerStays
<1>3. Counted' /\ ImportIsReady'
  BY <1>1, CountedStays, ImportStays DEF statesVars, ImportIsReady
<1>4. Head(cleanup) \subseteq Value /\ cleanup' \in Queue
  BY <1>1, FirstBatch DEF Shape
<1>5. failures' \in [writes : Nat, removals : Nat] /\ failures'.removals # 0
  BY <1>1 DEF Shape
<1>6. Shape'
  BY <1>1, <1>4, <1>5 DEF Shape
<1>7. DiskHolds'
  BY <1>5 DEF DiskHolds
<1> QED
  BY <1>2, <1>3, <1>6, <1>7

\* Stray removals exist only after a removal failed.
LEMMA StrayIInv ==
  ASSUME StatesIInv, NEW v \in Value, StrayRemoval(v)
  PROVE  StatesIInv'
<1> USE DEF StatesIInv
<1>1. /\ v \in stray /\ disk' = disk \ {v} /\ stray' = stray \ {v}
      /\ UNCHANGED <<finalizerVars, leafs, refs, cleanup, pc, import, failures>>
  BY DEF StrayRemoval, statesVars
<1>2. IInv' /\ restarts' = 0
  BY <1>1, FinalizerStays
<1>3. Counted' /\ ImportIsReady'
  BY <1>1, CountedStays, ImportStays DEF statesVars, ImportIsReady
<1>4. Shape'
  BY <1>1 DEF Shape
<1>5. DiskHolds'
  BY <1>1 DEF DiskHolds
<1> QED
  BY <1>2, <1>3, <1>4, <1>5

(* The end of an import *)

\* Finality moves when h is imported: the path that is committed and what is
\* given up are what is no longer tracked.
Finalizes(h) ==
    LET new == finality'.newlyFinalizedHeaders
    IN  /\ finality' \in Result
        /\ new \in Seq(Header) /\ Len(new) >= 1 /\ new[Len(new)] = lastFinalized'
        /\ \A i \in 1 .. Len(new) :
            /\ new[i] \in Blocks(unfinalized) \cup {h}
            /\ new[i] \notin Blocks(unfinalized')
            /\ parent'[new[i]] = IF i = 1 THEN lastFinalized ELSE new[i - 1]
        /\ \A i, j \in 1 .. Len(new) : new[i] = new[j] => i = j
        /\ Tracks' \subseteq Blocks(unfinalized) \cup {h}
        /\ finality'.prunableStateHashes = (Tracks \cup {h}) \ Tracks'

\* The chain of h is long enough.
LEMMA SettlesDeep ==
  ASSUME NEW h \in Header, NEW chains, NEW e \in chains,
         IsTree(parent', Lineage'), ChainsAbove(parent', Lineage', lastFinalized, chains),
         Blocks(chains) = Blocks(unfinalized) \cup {h},
         Settle(chains, e), IsDeepEnough(e)
  PROVE  Finalizes(h)
<1> DEFINE n == Len(e) - Depth
           f == NewlyFinalized(e)
           alive == Through(chains, f)
           rem == Remaining(alive, f)
           new == finality'.newlyFinalizedHeaders
<1>1. /\ lastFinalized' = f /\ unfinalized' = rem
      /\ finality' = [finalizedHash |-> f,
                      finalizedChain |-> Prefix(e, f),
                      newlyFinalizedHeaders |-> Committed(alive, f),
                      prunableStateHashes |-> Prunable(chains, f)]
  BY DEF Settle, Through
<1>2. /\ f \in Blocks(chains) /\ n \in 1 .. Len(e) - 1 /\ f = e[n]
      /\ ChainsAbove(parent', Lineage', f, rem)
      /\ Prunable(chains, f) = ({lastFinalized} \cup Blocks(chains)) \ ({f} \cup Blocks(rem))
      /\ {f} \cup Blocks(rem) \subseteq Blocks(chains)
      /\ e \in alive
      /\ \A c \in alive : Prefix(c, f) = SubSeq(e, 1, n)
  BY Finalizing
<1>3. e \in Seq(Header) /\ Len(e) \in Nat /\ DOMAIN e = 1 .. Len(e)
  BY ChainShape
<1> HIDE DEF n, f, alive, rem
<1>4. new = SubSeq(e, 1, n) /\ finality'.finalizedChain = SubSeq(e, 1, n)
  BY <1>1, <1>2 DEF Committed
<1>5. new \in Seq(Header) /\ Len(new) = n /\ n \in Nat /\ n >= 1 /\ \A i \in 1 .. n : i \in DOMAIN e /\ new[i] = e[i]
  <2>1. n \in 0 .. Len(e) /\ n \in Nat /\ n >= 1 /\ \A i \in 1 .. n : i \in DOMAIN e
    BY <1>2, <1>3
  <2> QED
    BY <2>1, <1>3, <1>4, PrefixFacts
<1> HIDE DEF new
<1>6. Tracks' = {f} \cup Blocks(rem) /\ Blocks(unfinalized') = Blocks(rem)
  BY <1>1 DEF Tracks
<1>7. lastFinalized \in Block /\ f \in Header
  BY <1>2 DEF ChainsAbove, StoredIn, Block, Blocks
<1>8. finality'.prunableStateHashes = ({lastFinalized} \cup Blocks(chains)) \ ({f} \cup Blocks(rem))
  BY <1>1, <1>2
<1>9. finality' \in Result
  <2>1. finality'.prunableStateHashes \in SUBSET Block
    BY <1>7, <1>8 DEF Blocks, Block
  <2>2. finality'.finalizedHash = f /\ f \in Block
    BY <1>1, <1>7 DEF Block
  <2>3. finality' = [finalizedHash |-> f, finalizedChain |-> finality'.finalizedChain,
                     newlyFinalizedHeaders |-> new, prunableStateHashes |-> finality'.prunableStateHashes]
    BY <1>1 DEF new
  <2>4. finality'.finalizedChain \in Seq(Header)
    BY <1>4, <1>5
  <2> QED
    BY <2>1, <2>2, <2>3, <2>4, <1>5 DEF Result
<1>10. IsPath(parent', Lineage', lastFinalized, e)
  BY DEF ChainsAbove
<1>11. \A i, j \in DOMAIN e : e[i] = e[j] => i = j
  BY DEF ChainsAbove, AreBranches
<1>12. ASSUME NEW i \in 1 .. n
       PROVE  /\ e[i] \in Blocks(chains) /\ e[i] \notin Blocks(rem)
              /\ parent'[e[i]] = IF i = 1 THEN lastFinalized ELSE e[i - 1]
  <2>1. i \in DOMAIN e /\ n \in DOMAIN e
    BY <1>2, <1>3, <1>5
  <2>2. e[i] \in Blocks(chains) /\ e[i] \in StoredIn(parent')
    BY <2>1, BlocksAreStored
  <2>3. CASE i = n
    <3>1. e[i] \notin Blocks(rem)
      BY <2>3, <1>2, BlocksAreStored
    <3> QED
      BY <3>1, <2>1, <2>2, <1>10 DEF IsPath
  <2>4. CASE i # n
    <3>1. Lineage'[e[i]] = Lineage'[lastFinalized] \cup {e[j] : j \in 1 .. i} /\ f \notin Lineage'[lastFinalized]
      BY <2>1, <1>2, <1>10 DEF IsPath
    <3>2. \A j \in 1 .. i : j \in DOMAIN e /\ j # n
      BY <2>4, <1>5
    <3>3. f \notin Lineage'[e[i]]
      BY <3>1, <3>2, <2>1, <1>2, <1>11
    <3>4. e[i] \notin Blocks(rem)
      BY <3>3, <2>2, <1>2 DEF ChainsAbove
    <3> QED
      BY <3>4, <2>1, <2>2, <1>10 DEF IsPath
  <2> QED
    BY <2>3, <2>4
<1>13. \A i \in 1 .. Len(new) :
        /\ new[i] \in Blocks(unfinalized) \cup {h} /\ new[i] \notin Blocks(unfinalized')
        /\ parent'[new[i]] = IF i = 1 THEN lastFinalized ELSE new[i - 1]
  <2> SUFFICES ASSUME NEW i \in 1 .. n
               PROVE  /\ new[i] \in Blocks(chains) /\ new[i] \notin Blocks(rem)
                      /\ parent'[new[i]] = IF i = 1 THEN lastFinalized ELSE new[i - 1]
    BY <1>5, <1>6
  <2>1. i # 1 => i - 1 \in 1 .. n
    BY <1>5
  <2> QED
    BY <2>1, <1>5, <1>12
<1>14. new[Len(new)] = lastFinalized'
  BY <1>1, <1>2, <1>5
<1>15. \A i, j \in 1 .. Len(new) : new[i] = new[j] => i = j
  BY <1>5, <1>11
<1>16. Tracks' \subseteq Blocks(unfinalized) \cup {h}
  BY <1>2, <1>6
<1>17. finality'.prunableStateHashes = (Tracks \cup {h}) \ Tracks'
  BY <1>6, <1>8 DEF Tracks
<1> QED
  BY <1>5, <1>9, <1>13, <1>14, <1>15, <1>16, <1>17 DEF Finalizes, new

\* A child of a tracked block is tracked, or finality moves.
LEMMA ImportResult ==
  ASSUME IInv, restarts = 0, NEW h \in Header, OnBlockImported(h), NEW p \in Tracks, parent'[h] = p
  PROVE  /\ IInv' /\ restarts' = 0
         /\ parent[h] = NotImported /\ parent' = [parent EXCEPT ![h] = p]
         /\ \/ /\ finality' = NoFinality /\ lastFinalized' = lastFinalized
               /\ Blocks(unfinalized') = Blocks(unfinalized) \cup {h}
            \/ Finalizes(h)
<1>1. IInv' /\ parent[h] = NotImported /\ restarts' = restarts
  BY ImportIInv DEF OnBlockImported
<1>2. PICK q \in Surviving :
        /\ parent' = [parent EXCEPT ![h] = q]
        /\ \/ \E a \in Attachments(h, q) : Settle(a.chains, a.extended)
           \/ /\ Attachments(h, q) = {}
              /\ finality' = NoFinality
              /\ UNCHANGED <<lastFinalized, unfinalized, pruned>>
  BY DEF OnBlockImported
<1>3. q = p
  BY <1>2 DEF IInv, IsTree
<1>4. /\ IsTree(parent', Lineage')
      /\ Attachments(h, p) # {}
      /\ \A a \in Attachments(h, p) :
           /\ ChainsAbove(parent', Lineage', lastFinalized, a.chains)
           /\ a.extended \in a.chains
           /\ Blocks(a.chains) = Blocks(unfinalized) \cup {h}
  <2>0. parent[h] = NotImported
    BY <1>1
  <2>1. IsTree(parent', Lineage')
    BY <2>0, <1>2, Importing
  <2>3. \A a \in Attachments(h, q) :
          /\ ChainsAbove(parent', Lineage', lastFinalized, a.chains)
          /\ a.extended \in a.chains
          /\ a.extended[Len(a.extended)] = h
          /\ Blocks(a.chains) = Blocks(unfinalized) \cup {h}
          /\ ShortBut(a.chains, a.extended)
    BY <2>0, <1>2, Importing
  <2>2. Attachments(h, q) = {} => q \notin {lastFinalized} \cup Blocks(unfinalized)
    BY <2>0, <1>2, Importing
  <2> QED
    BY <2>1, <2>2, <2>3, <1>3 DEF Tracks
<1>5. PICK a \in Attachments(h, p) : Settle(a.chains, a.extended)
  BY <1>2, <1>3, <1>4
<1>6. CASE ~IsDeepEnough(a.extended)
  <2>1. finality' = NoFinality /\ lastFinalized' = lastFinalized /\ unfinalized' = a.chains
    BY <1>5, <1>6 DEF Settle
  <2> QED
    BY <2>1, <1>1, <1>2, <1>3, <1>4
<1>7. CASE IsDeepEnough(a.extended)
  <2>1. Finalizes(h)
    BY <1>4, <1>5, <1>7, SettlesDeep
  <2> QED
    BY <2>1, <1>1, <1>2, <1>3
<1> QED
  BY <1>6, <1>7

\* The parent of a tracked block is tracked.
LEMMA ParentsAreTracked ==
  ASSUME NEW tree, NEW line, NEW root, NEW chains, IsTree(tree, line), ChainsAbove(tree, line, root, chains),
         NEW g \in Blocks(chains)
  PROVE  tree[g] \in {root} \cup Blocks(chains)
<1>1. PICK c \in chains : \E i \in DOMAIN c : g = c[i]
  BY DEF Blocks
<1>2. PICK i \in DOMAIN c : g = c[i]
  BY <1>1
<1>3. tree[g] = IF i = 1 THEN root ELSE c[i - 1]
  BY <1>2 DEF ChainsAbove, IsPath
<1>4. CASE i # 1
  <2>1. i - 1 \in DOMAIN c
    BY <1>4, ChainShape
  <2> QED
    BY <2>1, <1>3, <1>4, BlocksAreStored
<1> QED
  BY <1>3, <1>4

LEMMA HandsOverTwice ==
  ASSUME NEW a, NEW b, NEW c, HandsOver(a, b), HandsOver(b, c)
  PROVE  HandsOver(a, c)
  BY DEF HandsOver

\* What commitFinalized and markUnused leave of the counts: exactly those of
\* the blocks that are still tracked.
LEMMA PruneCounts ==
  ASSUME StatesIInv, pc = "stored", NEW h, h = import.header, Finalizes(h),
         parent' = [parent EXCEPT ![h] = import.parent], Prune(finality')
  PROVE  /\ refs' \in Refs /\ cleanup' \in Queue
         /\ PendingIsExact(refs')
         /\ refs'.finalized = References(leafs[lastFinalized'])
         /\ Waiting(refs'.deltas) = Blocks(unfinalized')
         /\ \A g \in Blocks(unfinalized') : refs'.deltas[g] = refs.deltas[g]
         /\ HandsOver([refs |-> refs, cleanup |-> cleanup], [refs |-> refs', cleanup |-> cleanup'])
<1> USE DEF StatesIInv
<1> DEFINE new == finality'.newlyFinalizedHeaders
           prunable == finality'.prunableStateHashes
           L == [i \in 0 .. Len(new) |-> IF i = 0 THEN leafs[lastFinalized] ELSE leafs[new[i]]]
           a == [refs |-> refs, cleanup |-> cleanup]
           u == R!CommitFinalized(refs, new)
           committed == [refs |-> u.refs, cleanup |-> Enqueue(cleanup, R!RemoveValues(u))]
           S == prunable \ {Genesis}
           N == {new[i] : i \in 1 .. Len(new)}
<1>1. /\ new \in Seq(Header) /\ Len(new) >= 1 /\ new[Len(new)] = lastFinalized' /\ Len(new) \in Nat
      /\ \A i \in 1 .. Len(new) :
          /\ new[i] \in Blocks(unfinalized) \cup {h}
          /\ new[i] \notin Blocks(unfinalized')
          /\ parent'[new[i]] = IF i = 1 THEN lastFinalized ELSE new[i - 1]
      /\ \A i, j \in 1 .. Len(new) : new[i] = new[j] => i = j
      /\ Tracks' \subseteq Blocks(unfinalized) \cup {h}
      /\ prunable = (Tracks \cup {h}) \ Tracks'
  <2>1. new \in Seq(Header)
    BY DEF Finalizes
  <2>2. Len(new) \in Nat
    BY <2>1
  <2>3. /\ Len(new) >= 1 /\ new[Len(new)] = lastFinalized'
        /\ \A i \in 1 .. Len(new) :
            /\ new[i] \in Blocks(unfinalized) \cup {h}
            /\ new[i] \notin Blocks(unfinalized')
            /\ parent'[new[i]] = IF i = 1 THEN lastFinalized ELSE new[i - 1]
        /\ \A i, j \in 1 .. Len(new) : new[i] = new[j] => i = j
        /\ Tracks' \subseteq Blocks(unfinalized) \cup {h}
        /\ prunable = (Tracks \cup {h}) \ Tracks'
    BY Zenon DEF Finalizes
  <2> HIDE DEF new, prunable
  <2> QED
    BY <2>1, <2>2, <2>3
<1>2. PICK order \in SetToSeqs(S) :
        refs' = MarkAllUnused(committed, order).refs /\ cleanup' = MarkAllUnused(committed, order).cleanup
  BY DEF Prune
<1> HIDE DEF new, prunable
<1>3. /\ h \in Header /\ Fresh = {h} /\ parent[h] = NotImported
      /\ Loadable = Tracks \cup {h} /\ Waiting(refs.deltas) = Blocks(unfinalized) \cup {h}
      /\ refs \in Refs /\ PendingIsExact(refs) /\ cleanup \in Queue
      /\ refs.finalized = References(leafs[lastFinalized])
  BY DEF ImportIsReady, Fresh, Counted, Shape
<1>4. \A g \in Blocks(unfinalized) \cup {h} : ParentOf(g) = parent'[g]
  <2>1. parent \in [Header -> Block \cup {NotImported}]
    BY DEF IInv, IsTree
  <2> QED
    BY <2>1, <1>3 DEF ParentOf, Blocks
<1>5. L \in [0 .. Len(new) -> Leafs]
  <2>1. leafs[lastFinalized] \in Leafs /\ \A g \in Blocks(unfinalized) \cup {h} : leafs[g] \in Leafs
    BY <1>3, LoadableLeafs DEF Tracks
  <2>2. \A i \in 0 .. Len(new) : i # 0 => i \in 1 .. Len(new)
    BY <1>1
  <2> QED
    BY <2>1, <2>2, <1>1
<1>6. Continues(refs, new, L)
  <2>1. L[0] = leafs[lastFinalized]
    BY <1>1
  <2>2. ASSUME NEW i \in 1 .. Len(new)
        PROVE  refs.deltas[new[i]] \in Delta /\ Tells(refs.deltas[new[i]], L[i - 1], L[i])
    <3>1. new[i] \in Waiting(refs.deltas)
      BY <1>1, <1>3
    <3>2. /\ refs.deltas[new[i]] \in Delta
          /\ Tells(refs.deltas[new[i]], leafs[parent'[new[i]]], leafs[new[i]])
      BY <3>1, <1>3, <1>4, WaitingDeltas DEF Counted
    <3>3. L[i] = leafs[new[i]]
      BY <1>1
    <3>4. L[i - 1] = leafs[parent'[new[i]]]
      <4>1. i - 1 \in 0 .. Len(new) /\ (i - 1 = 0 <=> i = 1)
        BY <1>1
      <4> QED
        BY <4>1, <1>1
    <3> QED
      BY <3>2, <3>3, <3>4
  <2> HIDE DEF L
  <2> QED
    BY <2>1, <2>2, <1>1, <1>3 DEF Continues
<1>7. CommittedTo(refs, new, L, Len(new), u)
  <2> HIDE DEF L, u
  <2> QED
    BY <1>1, <1>3, <1>5, <1>6, Commits DEF u
<1>8. L[Len(new)] = leafs[lastFinalized']
  BY <1>1
<1> HIDE DEF L, u
<1>9. /\ u \in RefsUpdate /\ PendingIsExact(u.refs) /\ u.refs.finalized = References(leafs[lastFinalized'])
      /\ u.refs.deltas = WithoutDeltas(refs.deltas, N) /\ Narrows(refs, u)
  BY <1>7, <1>8 DEF CommittedTo
<1>10. a \in Release /\ a.refs = refs /\ a.cleanup = cleanup
  BY <1>3 DEF Release
<1> HIDE DEF a
<1>11. committed \in Release /\ HandsOver(a, committed) /\ committed.refs = u.refs
  BY <1>9, <1>10, Applying
<1> HIDE DEF committed
<1>12. S \in SUBSET Header /\ IsFiniteSet(S)
  <2>1. prunable \subseteq Waiting(refs.deltas) \cup {lastFinalized}
    BY <1>1, <1>3 DEF Tracks
  <2>2. IsFiniteSet(Waiting(refs.deltas) \cup {lastFinalized})
    BY <1>3, FS_AddElement DEF PendingIsExact
  <2>3. lastFinalized \in Block /\ Waiting(refs.deltas) \subseteq Header
    BY LoadableLeafs DEF Tracks, Waiting
  <2> QED
    BY <2>1, <2>2, <2>3, FS_Subset DEF Block
<1> HIDE DEF S
<1>13. order \in Seq(Header) /\ {order[i] : i \in 1 .. Len(order)} = S
  BY <1>2, <1>12, OrderIs
<1> DEFINE done == MarkAllUnused(committed, order)
<1>14. /\ done \in Release /\ PendingIsExact(done.refs) /\ done.refs.finalized = u.refs.finalized
       /\ done.refs.deltas = WithoutDeltas(u.refs.deltas, S) /\ HandsOver(committed, done)
  <2>1. ReleasedTo(committed, order, Len(order), done)
    BY <1>9, <1>11, <1>13, Releases
  <2> HIDE DEF done
  <2> QED
    BY <2>1, <1>11, <1>13 DEF ReleasedTo
<1>15. done = [refs |-> refs', cleanup |-> cleanup']
  BY <1>2, <1>14 DEF Release
<1> HIDE DEF done
<1>16. HandsOver(a, done)
  BY <1>11, <1>14, HandsOverTwice
<1>17. \A g \in Header : refs'.deltas[g] = IF g \in N \cup S THEN NoDelta ELSE refs.deltas[g]
  BY <1>2, <1>9, <1>14 DEF WithoutDeltas, done
<1>18. Tracks' = {lastFinalized'} \cup Blocks(unfinalized') /\ Blocks(unfinalized) \subseteq Header
       /\ Blocks(unfinalized') \subseteq Header
  BY DEF Tracks, Blocks
<1>19. \A g \in Blocks(unfinalized) \cup {h} : g \in N \cup S <=> g \notin Blocks(unfinalized')
  <2>1. lastFinalized' \in N /\ N \cap Blocks(unfinalized') = {}
    BY <1>1
  <2>2. \A g \in Blocks(unfinalized) \cup {h} : g \in S <=> g \notin Tracks'
    BY <1>1, <1>3, <1>18, GenesisAssumption DEF S, Tracks
  <2> QED
    BY <2>1, <2>2, <1>18
<1>20. Waiting(refs'.deltas) = Blocks(unfinalized')
  <2>1. \A g \in Header : g \in Waiting(refs'.deltas) <=> g \in Waiting(refs.deltas) /\ g \notin N \cup S
    BY <1>17 DEF Waiting
  <2>2. Waiting(refs'.deltas) \subseteq Header
    BY DEF Waiting
  <2>3. Blocks(unfinalized') \subseteq Blocks(unfinalized) \cup {h}
    BY <1>1, <1>18
  <2> QED
    BY <2>1, <2>2, <2>3, <1>3, <1>18, <1>19
<1>21. \A g \in Blocks(unfinalized') : refs'.deltas[g] = refs.deltas[g]
  BY <1>1, <1>17, <1>18, <1>19
<1> QED
  BY <1>9, <1>14, <1>15, <1>16, <1>20, <1>21 DEF Release, a

\* The end of an import keeps the invariant, whether or not finality moves.
LEMMA FinishIInv ==
  ASSUME StatesIInv, FinishImport
  PROVE  StatesIInv'
<1> USE DEF StatesIInv
<1> DEFINE h == import.header
<1>1. /\ pc = "stored" /\ pc' = "idle" /\ OnBlockImported(h) /\ parent'[h] = import.parent
      /\ UNCHANGED <<disk, stray, failures>>
      /\ IF finality' = NoFinality THEN UNCHANGED <<leafs, refs, cleanup>> ELSE Prune(finality')
  BY DEF FinishImport, statesVars
<1>2. /\ h \in Header /\ parent[h] = NotImported /\ import.parent \in Tracks /\ Fresh = {h} /\ Fresh' = {}
      /\ Loadable = Tracks \cup {h} /\ Waiting(refs.deltas) = Blocks(unfinalized) \cup {h}
  BY <1>1 DEF ImportIsReady, Fresh, Counted
<1> HIDE DEF h
<1>3. /\ IInv' /\ restarts' = 0 /\ parent' = [parent EXCEPT ![h] = import.parent]
      /\ \/ /\ finality' = NoFinality /\ lastFinalized' = lastFinalized
            /\ Blocks(unfinalized') = Blocks(unfinalized) \cup {h}
         \/ Finalizes(h)
  BY <1>1, <1>2, ImportResult
<1>4. \A g \in Blocks(unfinalized) \cup {h} : ParentOf(g) = parent'[g]
  <2>1. parent \in [Header -> Block \cup {NotImported}]
    BY DEF IInv, IsTree
  <2> QED
    BY <2>1, <1>2, <1>3 DEF ParentOf, Blocks
<1>5. \A g : ParentOf(g)' = parent'[g]
  BY <1>2 DEF ParentOf
<1>6. \A g \in Blocks(unfinalized') : parent'[g] \in Tracks'
  <2>1. IsTree(parent', Lineage') /\ ChainsAbove(parent', Lineage', lastFinalized', unfinalized')
    BY <1>3 DEF IInv
  <2> QED
    BY <2>1, ParentsAreTracked DEF Tracks
<1>7. ImportIsReady'
  BY <1>1 DEF ImportIsReady
<1>8. Flushed = {} /\ Flushed' = {}
  BY <1>1 DEF Flushed
<1>9. Tracks' = {lastFinalized'} \cup Blocks(unfinalized')
  BY DEF Tracks
<1>10. CASE /\ finality' = NoFinality /\ lastFinalized' = lastFinalized
            /\ Blocks(unfinalized') = Blocks(unfinalized) \cup {h}
  <2>1. leafs' = leafs /\ refs' = refs /\ cleanup' = cleanup
    BY <1>1, <1>10
  <2>2. Shape'
    BY <1>1, <2>1 DEF Shape
  <2>3. Loadable' = Tracks' \cup Fresh' /\ Waiting(refs'.deltas) = Blocks(unfinalized') \cup Fresh'
    BY <1>2, <1>9, <1>10, <2>1 DEF Loadable, Tracks
  <2>4. Counted'
    BY <2>1, <2>3, <1>2, <1>4, <1>5, <1>6, <1>10 DEF Counted
  <2>5. DiskHolds'
    BY <1>1, <1>8, <2>1 DEF DiskHolds
  <2> QED
    BY <1>3, <1>7, <2>2, <2>4, <2>5
<1>11. CASE Finalizes(h)
  <2> DEFINE prunable == finality'.prunableStateHashes
  <2>1. /\ finality' \in Result
        /\ Tracks' \subseteq Blocks(unfinalized) \cup {h} /\ prunable = (Tracks \cup {h}) \ Tracks'
    BY <1>11, Zenon DEF Finalizes
  <2>2. Prune(finality')
    BY <1>1, <2>1, AbsenceAssumption
  <2>3. leafs' = [b \in Block |-> IF b \in prunable THEN NoState ELSE leafs[b]]
    BY <2>2 DEF Prune
  <2> HIDE DEF prunable
  <2>4. /\ refs' \in Refs /\ cleanup' \in Queue
        /\ PendingIsExact(refs')
        /\ refs'.finalized = References(leafs[lastFinalized'])
        /\ Waiting(refs'.deltas) = Blocks(unfinalized')
        /\ \A g \in Blocks(unfinalized') : refs'.deltas[g] = refs.deltas[g]
        /\ HandsOver([refs |-> refs, cleanup |-> cleanup], [refs |-> refs', cleanup |-> cleanup'])
    BY <1>1, <1>2, <1>3, <1>11, <2>2, PruneCounts DEF h
  <2>5. Tracks \cup {h} \subseteq Block
    BY <1>2, LoadableLeafs
  <2>6. leafs' \in [Block -> Leafs \cup {NoState}]
    BY <2>3 DEF Shape
  <2>7. Shape'
    BY <1>1, <2>4, <2>6 DEF Shape
  <2>8. \A b \in Tracks' : leafs'[b] = leafs[b] /\ b \in Tracks \cup {h}
    BY <2>1, <2>3, <2>5 DEF Tracks
  <2>9. Loadable' = Tracks'
    <3>1. \A b \in Block : b \in Loadable' <=> b \notin prunable /\ b \in Loadable
      BY <2>3 DEF Loadable
    <3>2. Loadable' \subseteq Block
      BY DEF Loadable
    <3> QED
      BY <3>1, <3>2, <2>1, <2>5, <2>8, <1>2
  <2>10. refs'.finalized = References(leafs'[lastFinalized'])
    BY <2>4, <2>8, <1>9
  <2>11. ASSUME NEW g \in Blocks(unfinalized')
         PROVE  parent'[g] \in Tracks' /\ Tells(refs'.deltas[g], leafs'[parent'[g]], leafs'[g])
    <3>1. g \in Blocks(unfinalized) \cup {h} /\ g \in Tracks' /\ parent'[g] \in Tracks'
      BY <2>1, <1>6, <1>9
    <3>2. Tells(refs.deltas[g], leafs[parent'[g]], leafs[g])
      BY <3>1, <1>2, <1>4 DEF Counted
    <3> QED
      BY <3>1, <3>2, <2>4, <2>8
  <2>12. Counted'
    BY <2>4, <2>9, <2>10, <2>11, <1>2, <1>5 DEF Counted
  <2>13. DiskHolds'
    <3> DEFINE a == [refs |-> refs, cleanup |-> cleanup]
               b == [refs |-> refs', cleanup |-> cleanup']
    <3>1. a.refs = refs /\ a.cleanup = cleanup /\ b.refs = refs' /\ b.cleanup = cleanup'
      OBVIOUS
    <3> HIDE DEF a, b
    <3>2. HandsOver(a, b)
      BY <2>4 DEF a, b
    <3>3. /\ HeldBy(refs') \subseteq HeldBy(refs)
          /\ HeldBy(refs) \subseteq HeldBy(refs') \cup Removing(cleanup')
          /\ Removing(cleanup) \subseteq Removing(cleanup')
          /\ Removing(cleanup') \cap HeldBy(refs') \subseteq Removing(cleanup) \cap HeldBy(refs)
      BY <3>1, <3>2 DEF HandsOver
    <3> QED
      BY <3>3, <1>1, <1>8 DEF DiskHolds
  <2> QED
    BY <1>3, <1>7, <2>7, <2>12, <2>13
<1> QED
  BY <1>3, <1>10, <1>11

LEMMA StatesNextIInv == StatesIInv /\ [Next]_vars => StatesIInv'
<1> SUFFICES ASSUME StatesIInv, [Next]_vars PROVE StatesIInv'
  OBVIOUS
<1>1. ASSUME NEW h \in Header, NEW p \in Block, StartImport(h, p) PROVE StatesIInv'
  BY <1>1, StartIInv
<1>2. CASE ImportStep
  BY <1>2, InsertIInv, PersistIInv, SetStateIInv, FinishIInv DEF ImportStep
<1>3. CASE FailWrite
  BY <1>3, FailWriteIInv
<1>4. CASE CleanupStep
  BY <1>4, RemoveIInv, FailRemovalIInv, StrayIInv DEF CleanupStep
<1>5. CASE UNCHANGED vars
  <2>1. UNCHANGED <<finalizerVars, leafs, refs, disk, cleanup, stray, pc, import, failures>>
    BY <1>5 DEF vars
  <2>2. IInv' /\ restarts' = 0 /\ Tracks' = Tracks /\ parent' = parent
    BY <2>1, FinalizerStays
  <2>3. Counted'
    BY <2>1, CountedStays DEF statesVars
  <2>4. ImportIsReady'
    BY <2>1, <2>2 DEF ImportIsReady, StatesIInv
  <2>5. Shape' /\ Flushed' = Flushed
    BY <2>1 DEF Shape, Flushed, StatesIInv
  <2>6. DiskHolds'
    BY <2>1, <2>5 DEF DiskHolds, StatesIInv
  <2> QED
    BY <2>2, <2>3, <2>4, <2>5, <2>6 DEF StatesIInv
<1> QED
  BY <1>1, <1>2, <1>3, <1>4, <1>5 DEF Next

LEMMA StatesInvariantHolds == Spec => []StatesIInv
<1>1. Init => StatesIInv
  BY StatesInitIInv
<1>2. StatesIInv /\ [Next]_vars => StatesIInv'
  BY StatesNextIInv
<1> QED
  BY <1>1, <1>2, PTL DEF Spec

(* The theorems *)

LEMMA StatesIInvImpliesCounts == StatesIInv => CountsAreExact
<1> SUFFICES ASSUME StatesIInv PROVE CountsAreExact
  OBVIOUS
<1> USE DEF StatesIInv
<1>1. HasDelta = Waiting(refs.deltas) /\ \A v : Insertions(v) = InsertionsIn(refs.deltas, v)
  BY DEF HasDelta, Waiting, Insertions, InsertionsIn
<1>2. \A v \in Value : /\ refs.finalized[v] = References(leafs[lastFinalized])[v]
                       /\ refs.pending[v] = Cardinality(Insertions(v))
  BY <1>1 DEF Counted, PendingIsExact
<1>3. Waiting(refs.deltas) = Blocks(unfinalized) \cup Fresh /\ Loadable = Tracks \cup Fresh
  BY DEF Counted
<1>4. Waiting(refs.deltas) \subseteq Header
  BY DEF Waiting
<1>5. lastFinalized \notin Blocks(unfinalized) /\ lastFinalized \in StoredIn(parent)
  BY BlocksAreStored DEF IInv, ChainsAbove
<1>6. lastFinalized \notin Fresh
  BY <1>5, GenesisAssumption DEF Fresh, ImportIsReady, StoredIn
<1>7. HasDelta = Loadable \ {lastFinalized, Genesis}
  BY <1>1, <1>3, <1>4, <1>5, <1>6, GenesisAssumption DEF Tracks
<1> QED
  BY <1>2, <1>7 DEF CountsAreExact

\* `finalized` counts the leaves of the finalized state and `pending` the
\* insertions of the blocks above it, however forks end: each block is
\* committed or released once.
THEOREM CountsCorrect == Spec => []CountsAreExact
  BY StatesInvariantHolds, StatesIInvImpliesCounts, PTL

LEMMA StatesIInvImpliesNothingLeaks == StatesIInv => NothingLeaks
<1> SUFFICES ASSUME StatesIInv, pc \notin {"persist", "written"}, cleanup = <<>>,
                    failures = [writes |-> 0, removals |-> 0]
             PROVE  disk = {v \in Value : refs.finalized[v] + refs.pending[v] > 0}
  BY DEF NothingLeaks
<1> USE DEF StatesIInv
<1>1. Flushed = {} /\ Removing(cleanup) = {}
  BY DEF Flushed, Removing
<1>2. failures.removals = 0 /\ failures.writes = 0
  OBVIOUS
<1>3. disk = HeldBy(refs)
  BY <1>1, <1>2 DEF DiskHolds
<1>4. \A v \in Value : refs.finalized[v] \in Nat /\ refs.pending[v] \in Nat
  BY DEF Shape, Refs, Bag
<1>5. \A v \in Value : refs.finalized[v] + refs.pending[v] > 0 <=> refs.finalized[v] > 0 \/ refs.pending[v] > 0
  BY <1>4
<1> QED
  BY <1>3, <1>5 DEF HeldBy

\* Without failures, what is on disk when all removals are done is what is
\* counted and nothing else.
THEOREM LeaksNothing == Spec => []NothingLeaks
  BY StatesInvariantHolds, StatesIInvImpliesNothingLeaks, PTL

\* Until a removal fails every value of every state that can be loaded is on
\* disk, also while the importer writes and removes in the background.
THEOREM AvailableUntilRemovalFails == Spec => [](failures.removals = 0 => ValuesAvailable)
<1>1. StatesIInv => (failures.removals = 0 => ValuesAvailable)
  <2> SUFFICES ASSUME StatesIInv, failures.removals = 0, NEW v \in Value, Referenced(v)
               PROVE  v \in disk
    BY DEF ValuesAvailable
  <2>1. v \in HeldBy(refs)
    BY ReferencedIsHeld DEF Referenced
  <2> QED
    BY <2>1 DEF StatesIInv, DiskHolds
<1> QED
  BY <1>1, StatesInvariantHolds, PTL

\* Removals that never fail.
LEMMA NoRemovalFails ==
  ASSUME MaxRemovalFailures = 0
  PROVE  Spec => [](failures.removals = 0)
<1> DEFINE None == failures.removals = 0
<1>1. Init => None
  BY DEF Init
<1>2. None /\ [Next]_vars => None'
  <2> SUFFICES ASSUME None, [Next]_vars PROVE None'
    OBVIOUS
  <2>1. ASSUME NEW v \in Value, FailRemoval(v) PROVE FALSE
    BY <2>1 DEF FailRemoval
  <2>2. CASE UNCHANGED failures
    BY <2>2
  <2>3. CASE FailWrite
    <3>1. failures' = [failures EXCEPT !.writes = @ + 1]
      BY <2>3 DEF FailWrite
    <3> QED
      BY <3>1
  <2>4. CASE CleanupStep
    BY <2>1, <2>2, <2>4 DEF CleanupStep, RemoveValue, StrayRemoval
  <2>5. CASE ImportStep
    BY <2>2, <2>5 DEF ImportStep, InsertBatch, Persist, SetState, FinishImport
  <2>6. ASSUME NEW h \in Header, NEW p \in Block, StartImport(h, p) PROVE None'
    BY <2>2, <2>6 DEF StartImport
  <2> QED
    BY <2>2, <2>3, <2>4, <2>5, <2>6 DEF Next, vars
<1> HIDE DEF None
<1>3. Spec => []None
  BY <1>1, <1>2, PTL DEF Spec
<1> QED
  BY <1>3 DEF None

\* With removals that never fail the values are always available.
THEOREM AvailableWithoutRemovalFailures ==
  ASSUME MaxRemovalFailures = 0
  PROVE  Spec => []ValuesAvailable
<1>1. Spec => [](failures.removals = 0)
  BY NoRemovalFails
<1>2. Spec => [](failures.removals = 0 => ValuesAvailable)
  BY AvailableUntilRemovalFails
<1> QED
  BY <1>1, <1>2, PTL

\* The maps keep the shape that hybrid-states.ts and value-refs.ts give them.
THEOREM StatesTypeCorrect == Spec => []StatesTypeOK
<1>1. StatesIInv => StatesTypeOK
  BY DEF StatesIInv, Shape, StatesTypeOK, Refs, Bag, Queue
<1> QED
  BY <1>1, StatesInvariantHolds, PTL
=============================================================================
