------------------------- MODULE DummyFinalizerProofs -------------------------
(***************************************************************************)
(* Proofs about DummyFinalizer for any set of blocks, any depth and any    *)
(* number of restarts.                                                     *)
(*                                                                         *)
(* The ancestors of a block are a recursive function of the block tree.  A *)
(* tree that grows at its leaves keeps that function where it was defined  *)
(* (TreeGrows), so that the proofs need no induction over the tree: the    *)
(* invariant says what the ancestors of the blocks of a chain are, and     *)
(* every step preserves it.                                                *)
(***************************************************************************)
EXTENDS DummyFinalizer, TLAPS, SequenceTheorems, FiniteSetTheorems

(* The block tree *)

\* f gives every block of a tree the set of its ancestors.
IsLineage(tree, f) ==
    f = [b \in Block \cup {NotImported} |->
            IF b \in {Genesis, NotImported} THEN {b} ELSE {b} \cup f[tree[b]]]

StoredIn(tree) == {Genesis} \cup {h \in Header : tree[h] # NotImported}

\* A tree of stored blocks, and the one function that gives their ancestors.
IsTree(tree, line) ==
    /\ tree \in [Header -> Block \cup {NotImported}]
    /\ \A h \in Header : tree[h] # NotImported => tree[h] \in StoredIn(tree)
    /\ \A f : IsLineage(tree, f) <=> f = line
    /\ \A b \in StoredIn(tree) :
        /\ b \in line[b]
        /\ line[b] \subseteq StoredIn(tree)
        /\ \A a \in line[b] : line[a] \subseteq line[b]

\* Lineage is that function (it is chosen as such).
LEMMA LineageIsChosen == Lineage = CHOOSE f : IsLineage(parent, f)
  BY DEF Lineage, IsLineage

\* The imported blocks are those stored in the tree.
LEMMA ImportedIsStored == Imported = StoredIn(parent)
  BY DEF Imported, StoredIn

\* A leaf h is added below p, and its ancestors to those of the others.
WithLeaf(tree, h, p) == [tree EXCEPT ![h] = p]
WithAncestors(line, h, p) == [line EXCEPT ![h] = {h} \cup line[p]]

\* A leaf is added to a tree: nobody's ancestors change but the leaf's own.
LEMMA TreeGrows ==
  ASSUME NEW tree, NEW line, IsTree(tree, line),
         NEW h \in Header, tree[h] = NotImported, NEW p \in StoredIn(tree)
  PROVE  /\ StoredIn(WithLeaf(tree, h, p)) = StoredIn(tree) \cup {h}
         /\ h \notin StoredIn(tree)
         /\ \A b \in StoredIn(tree) : h \notin line[b]
         /\ \A b \in StoredIn(tree) : WithAncestors(line, h, p)[b] = line[b]
         /\ WithAncestors(line, h, p)[h] = {h} \cup line[p]
         /\ IsTree(WithLeaf(tree, h, p), WithAncestors(line, h, p))
<1> DEFINE tree2 == [tree EXCEPT ![h] = p]
           line2 == [line EXCEPT ![h] = {h} \cup line[p]]
           All == Block \cup {NotImported}
<1>1. /\ tree \in [Header -> All] /\ h \in Block /\ h # Genesis /\ h # NotImported
      /\ p \in Block /\ p # NotImported /\ p # h
  BY GenesisAssumption DEF IsTree, StoredIn, Block
<1>2. StoredIn(tree2) = StoredIn(tree) \cup {h} /\ h \notin StoredIn(tree)
  BY <1>1 DEF StoredIn
<1>3. \A b \in StoredIn(tree) : h \notin line[b]
  BY <1>2 DEF IsTree
<1>4. IsLineage(tree, line)
  BY DEF IsTree
<1>5. line = [b \in All |-> IF b \in {Genesis, NotImported} THEN {b} ELSE {b} \cup line[tree[b]]]
  BY <1>4 DEF IsLineage
<1>6. DOMAIN line = All
  BY <1>5
<1>7. \A b \in StoredIn(tree) : b \in All /\ b # h /\ line2[b] = line[b]
  BY <1>1, <1>2, <1>6 DEF StoredIn, Block
<1>8. line2[h] = {h} \cup line[p]
  BY <1>1, <1>6
<1>9. \A b \in Block : b # h /\ b # Genesis => tree[b] \in All /\ tree[b] # h /\ tree2[b] = tree[b]
  BY <1>1, <1>2 DEF IsTree, Block, StoredIn
<1>10. tree2[h] = p
  BY <1>1
<1>11. IsLineage(tree2, line2)
  <2>1. \A b \in All : line2[b] = IF b \in {Genesis, NotImported} THEN {b} ELSE {b} \cup line2[tree2[b]]
    <3> SUFFICES ASSUME NEW b \in All
                 PROVE  line2[b] = IF b \in {Genesis, NotImported} THEN {b} ELSE {b} \cup line2[tree2[b]]
      OBVIOUS
    <3>1. CASE b = h
      BY <3>1, <1>1, <1>6, <1>8, <1>10
    <3>2. CASE b \in {Genesis, NotImported}
      BY <3>2, <1>1, <1>5
    <3>3. CASE b # h /\ b \notin {Genesis, NotImported}
      <4>1. line2[b] = line[b] /\ line[b] = {b} \cup line[tree[b]]
        BY <3>3, <1>5, <1>6
      <4>2. tree[b] \in All /\ tree[b] # h /\ tree2[b] = tree[b]
        BY <3>3, <1>9
      <4> QED
        BY <4>1, <4>2, <3>3, <1>6
    <3> QED
      BY <3>1, <3>2, <3>3
  <2>2. line2 = [b \in All |-> line2[b]]
    BY <1>6
  <2> HIDE DEF line2, tree2
  <2> QED
    BY <2>1, <2>2 DEF IsLineage
<1>12. ASSUME NEW f, IsLineage(tree2, f)
       PROVE  f = line2
  <2> DEFINE g == [f EXCEPT ![h] = {h, NotImported}]
  <2>1. f = [b \in All |-> IF b \in {Genesis, NotImported} THEN {b} ELSE {b} \cup f[tree2[b]]]
    BY <1>12 DEF IsLineage
  <2>2. DOMAIN f = All
    BY <2>1
  <2>3. \A b \in All : g[b] = IF b \in {Genesis, NotImported} THEN {b} ELSE {b} \cup g[tree[b]]
    <3> SUFFICES ASSUME NEW b \in All
                 PROVE  g[b] = IF b \in {Genesis, NotImported} THEN {b} ELSE {b} \cup g[tree[b]]
      OBVIOUS
    <3>1. CASE b = h
      <4>1. g[h] = {h, NotImported} /\ g[NotImported] = f[NotImported]
        BY <2>2, <1>1
      <4>2. f[NotImported] = {NotImported}
        BY <2>1
      <4> QED
        BY <4>1, <4>2, <3>1, <1>1
    <3>2. CASE b \in {Genesis, NotImported}
      BY <3>2, <2>1, <1>1
    <3>3. CASE b # h /\ b \notin {Genesis, NotImported}
      <4>1. g[b] = f[b] /\ f[b] = {b} \cup f[tree2[b]]
        BY <3>3, <2>1, <2>2
      <4>2. tree[b] \in All /\ tree[b] # h /\ tree2[b] = tree[b]
        BY <3>3, <1>9
      <4> QED
        BY <4>1, <4>2, <3>3, <2>2
    <3> QED
      BY <3>1, <3>2, <3>3
  <2>4. g = [b \in All |-> g[b]]
    BY <2>2
  <2>5. IsLineage(tree, g)
    <3> HIDE DEF g
    <3> QED
      BY <2>3, <2>4 DEF IsLineage
  <2>6. g = line
    BY <2>5 DEF IsTree
  <2>7. f[h] = {h} \cup f[p]
    BY <2>1, <1>1, <1>10
  <2>8. f[p] = line[p]
    BY <2>2, <2>6, <1>1
  <2>9. \A b \in All : f[b] = line2[b]
    <3> SUFFICES ASSUME NEW b \in All PROVE f[b] = line2[b]
      OBVIOUS
    <3>1. CASE b = h
      BY <3>1, <2>7, <2>8, <1>8
    <3>2. CASE b # h
      BY <3>2, <2>2, <2>6, <1>6
    <3> QED
      BY <3>1, <3>2
  <2> QED
    BY <2>9, <2>2, <2>1, <1>6
<1>13. \A b \in StoredIn(tree2) :
        /\ b \in line2[b]
        /\ line2[b] \subseteq StoredIn(tree2)
        /\ \A a \in line2[b] : line2[a] \subseteq line2[b]
  <2> HIDE DEF tree2, line2
  <2> QED
    BY <1>2, <1>3, <1>7, <1>8 DEF IsTree
<1>14. \A g \in Header : tree2[g] # NotImported => tree2[g] \in StoredIn(tree2)
  BY <1>1, <1>2 DEF IsTree
<1>15. tree2 \in [Header -> Block \cup {NotImported}]
  BY <1>1
<1>16. \A f : IsLineage(tree2, f) <=> f = line2
  BY <1>11, <1>12
<1> HIDE DEF tree2, line2
<1>17. IsTree(tree2, line2)
  BY <1>13, <1>14, <1>15, <1>16 DEF IsTree
<1> QED
  BY <1>2, <1>3, <1>7, <1>8, <1>17 DEF tree2, line2, WithLeaf, WithAncestors

(* The chains *)

\* c is a path of the tree that starts above root.
IsPath(tree, line, root, c) ==
    /\ c \in Seq(Header)
    /\ c # <<>>
    /\ \A i \in DOMAIN c :
        /\ tree[c[i]] = IF i = 1 THEN root ELSE c[i - 1]
        /\ line[c[i]] = line[root] \cup {c[j] : j \in 1 .. i}
        /\ c[i] \notin line[root]

\* Chains that share a block share all that is before it, and the tip of a
\* chain is in no other chain.
AreBranches(chains) ==
    \A c, d \in chains : \A i \in DOMAIN c, j \in DOMAIN d :
        c[i] = d[j] =>
            /\ i = j
            /\ \A k \in 1 .. i : c[k] = d[k]
            /\ i = Len(c) => c = d

Blocks(chains) == {b \in Header : \E c \in chains : \E i \in DOMAIN c : b = c[i]}

\* The chains above root are the branches of the tree above root, all of them.
ChainsAbove(tree, line, root, chains) ==
    /\ root \in StoredIn(tree)
    /\ \A c \in chains : IsPath(tree, line, root, c)
    /\ AreBranches(chains)
    /\ \A b \in StoredIn(tree) : root \in line[b] <=> b \in {root} \cup Blocks(chains)

\* The blocks of the chains are stored above the root.
LEMMA BlocksAreStored ==
  ASSUME NEW tree, NEW line, NEW root, NEW chains,
         IsTree(tree, line), ChainsAbove(tree, line, root, chains)
  PROVE  /\ Blocks(chains) \subseteq StoredIn(tree)
         /\ \A c \in chains : \A i \in DOMAIN c : c[i] \in Blocks(chains)
         /\ root \notin Blocks(chains)
<1>1. \A c \in chains : \A i \in DOMAIN c : c[i] \in Header /\ tree[c[i]] # NotImported /\ c[i] # root
  <2> SUFFICES ASSUME NEW c \in chains, NEW i \in DOMAIN c
               PROVE  c[i] \in Header /\ tree[c[i]] # NotImported /\ c[i] # root
    OBVIOUS
  <2>1. c \in Seq(Header) /\ i \in 1 .. Len(c) /\ Len(c) \in Nat
    BY DEF ChainsAbove, IsPath
  <2>2. c[i] \in Header /\ (i # 1 => i - 1 \in DOMAIN c /\ c[i - 1] \in Header)
    BY <2>1
  <2>3. tree[c[i]] \in {root, c[i - 1]} /\ (i = 1 => tree[c[i]] = root) /\ (i # 1 => tree[c[i]] = c[i - 1])
    BY DEF ChainsAbove, IsPath
  <2>4. root \in Block /\ root \in line[root]
    BY DEF ChainsAbove, IsTree, StoredIn, Block
  <2>5. tree[c[i]] # NotImported
    BY <2>2, <2>3, <2>4, GenesisAssumption DEF Block
  <2> QED
    BY <2>2, <2>4, <2>5 DEF ChainsAbove, IsPath
<1> QED
  BY <1>1 DEF Blocks, StoredIn

\* The chains are sequences of stored headers.
LEMMA ChainShape ==
  ASSUME NEW tree, NEW line, NEW root, NEW chains, NEW c \in chains,
         IsTree(tree, line), ChainsAbove(tree, line, root, chains)
  PROVE  /\ c \in Seq(Header) /\ Len(c) \in Nat /\ Len(c) >= 1 /\ DOMAIN c = 1 .. Len(c)
         /\ \A i \in DOMAIN c : c[i] \in StoredIn(tree) /\ c[i] \in Header
<1>1. c \in Seq(Header) /\ c # <<>>
  BY DEF ChainsAbove, IsPath
<1>2. Len(c) \in Nat /\ Len(c) >= 1 /\ DOMAIN c = 1 .. Len(c) /\ \A i \in DOMAIN c : c[i] \in Header
  BY <1>1
<1>3. \A i \in DOMAIN c : c[i] \in StoredIn(tree)
  BY BlocksAreStored
<1> QED
  BY <1>1, <1>2, <1>3

\* A sequence with one more element.
LEMMA AppendFacts ==
  ASSUME NEW S, NEW s \in Seq(S), NEW x \in S
  PROVE  /\ Append(s, x) \in Seq(S) /\ Append(s, x) # <<>>
         /\ Len(Append(s, x)) = Len(s) + 1
         /\ DOMAIN Append(s, x) = 1 .. (Len(s) + 1)
         /\ \A i \in 1 .. Len(s) : Append(s, x)[i] = s[i]
         /\ Append(s, x)[Len(s) + 1] = x
  OBVIOUS

\* The first n elements of a sequence.
LEMMA PrefixFacts ==
  ASSUME NEW S, NEW s \in Seq(S), NEW n \in 0 .. Len(s)
  PROVE  /\ SubSeq(s, 1, n) \in Seq(S)
         /\ Len(SubSeq(s, 1, n)) = n
         /\ DOMAIN SubSeq(s, 1, n) = 1 .. n
         /\ \A i \in 1 .. n : SubSeq(s, 1, n)[i] = s[i]
<1>1. \A i \in 1 .. n : s[i] \in S
  OBVIOUS
<1>2. n \in Int /\ 1 \in Int /\ (1 <= n \/ n = 0)
  OBVIOUS
<1>3. /\ SubSeq(s, 1, n) \in Seq(S)
      /\ Len(SubSeq(s, 1, n)) = IF 1 <= n THEN n - 1 + 1 ELSE 0
      /\ \A i \in 1 .. n - 1 + 1 : SubSeq(s, 1, n)[i] = s[1 + i - 1]
  BY <1>1, <1>2, SubSeqProperties
<1> QED
  BY <1>3, <1>2

\* What is left of a sequence after its first n elements.
LEMMA RestFacts ==
  ASSUME NEW S, NEW s \in Seq(S), NEW n \in 0 .. Len(s)
  PROVE  /\ SubSeq(s, n + 1, Len(s)) \in Seq(S)
         /\ Len(SubSeq(s, n + 1, Len(s))) = Len(s) - n
         /\ DOMAIN SubSeq(s, n + 1, Len(s)) = 1 .. (Len(s) - n)
         /\ \A i \in 1 .. (Len(s) - n) : SubSeq(s, n + 1, Len(s))[i] = s[n + i]
<1>1. \A i \in (n + 1) .. Len(s) : s[i] \in S
  OBVIOUS
<1>2. n + 1 \in Int /\ Len(s) \in Int /\ (n + 1 <= Len(s) \/ n = Len(s))
  OBVIOUS
<1>3. /\ SubSeq(s, n + 1, Len(s)) \in Seq(S)
      /\ Len(SubSeq(s, n + 1, Len(s))) = IF n + 1 <= Len(s) THEN Len(s) - (n + 1) + 1 ELSE 0
      /\ \A i \in 1 .. Len(s) - (n + 1) + 1 : SubSeq(s, n + 1, Len(s))[i] = s[n + 1 + i - 1]
  BY <1>1, <1>2, SubSeqProperties
<1>4. \A i \in 1 .. (Len(s) - n) : i \in 1 .. Len(s) - (n + 1) + 1 /\ n + 1 + i - 1 = n + i
  OBVIOUS
<1> QED
  BY <1>3, <1>2, <1>4

(* A block is attached *)

\* e is a chain that ends with h, a child of p, and is the beginning of one of
\* the chains before that.
EndsWith(e, h, p, root, chains) ==
    /\ e \in Seq(Header)
    /\ e # <<>>
    /\ e[Len(e)] = h
    /\ Len(e) = 1 => p = root
    /\ Len(e) # 1 =>
        \E c \in chains :
            /\ Len(e) - 1 \in DOMAIN c
            /\ c[Len(e) - 1] = p
            /\ \A i \in 1 .. Len(e) - 1 : e[i] = c[i]

\* The new chain is a path of the tree with the new leaf.
LEMMA PathGrows ==
  ASSUME NEW tree, NEW line, NEW root, NEW chains,
         IsTree(tree, line), ChainsAbove(tree, line, root, chains),
         NEW h \in Header, tree[h] = NotImported, NEW p \in StoredIn(tree),
         NEW e, EndsWith(e, h, p, root, chains)
  PROVE  IsPath(WithLeaf(tree, h, p), WithAncestors(line, h, p), root, e)
<1> DEFINE tree2 == WithLeaf(tree, h, p)
           line2 == WithAncestors(line, h, p)
           n == Len(e)
<1>0. n \in Nat /\ n >= 1
  BY DEF EndsWith
<1>1. /\ e \in Seq(Header) /\ n \in Nat /\ n >= 1 /\ e[n] = h /\ DOMAIN e = 1 .. n
  BY DEF EndsWith
<1>2. /\ h \notin StoredIn(tree)
      /\ \A b \in StoredIn(tree) : h \notin line[b]
      /\ \A b \in StoredIn(tree) : line2[b] = line[b]
      /\ line2[h] = {h} \cup line[p]
  BY TreeGrows
<1>3. \A b \in Header : b # h => tree2[b] = tree[b]
  BY DEF IsTree, WithLeaf
<1>4. tree2[h] = p
  BY DEF IsTree, WithLeaf
<1>5. root \in StoredIn(tree)
  BY DEF ChainsAbove
<1> SUFFICES ASSUME NEW i \in 1 .. n
             PROVE  /\ tree2[e[i]] = IF i = 1 THEN root ELSE e[i - 1]
                    /\ line2[e[i]] = line2[root] \cup {e[j] : j \in 1 .. i}
                    /\ e[i] \notin line2[root]
  BY <1>1 DEF IsPath
<1> HIDE DEF tree2, line2
<1>6. CASE n = 1
  <2>1. i = 1 /\ p = root /\ e[1] = h
    BY <1>6, <1>1 DEF EndsWith
  <2>2. {e[j] : j \in 1 .. i} = {h}
    BY <2>1
  <2> QED
    BY <2>1, <2>2, <1>2, <1>4, <1>5
<1>7. CASE n # 1
  <2>1. PICK c \in chains : n - 1 \in DOMAIN c /\ c[n - 1] = p /\ \A k \in 1 .. n - 1 : e[k] = c[k]
    BY <1>7, <1>1 DEF EndsWith
  <2>2. IsPath(tree, line, root, c) /\ c \in Seq(Header) /\ Len(c) \in Nat /\ DOMAIN c = 1 .. Len(c)
    BY DEF ChainsAbove, IsPath
  <2>3. \A k \in 1 .. n - 1 : k \in DOMAIN c /\ c[k] \in StoredIn(tree) /\ c[k] \in Header /\ c[k] # h
    BY <2>1, <2>2, <1>1, <1>2, BlocksAreStored
  <2>4. CASE i # n
    <3>1. i \in 1 .. n - 1 /\ (i # 1 => i - 1 \in 1 .. n - 1)
      BY <2>4, <1>0
    <3>2. tree[c[i]] = (IF i = 1 THEN root ELSE c[i - 1]) /\ c[i] \notin line[root]
          /\ line[c[i]] = line[root] \cup {c[j] : j \in 1 .. i}
      BY <2>2, <2>3, <3>1 DEF IsPath
    <3>3. {e[j] : j \in 1 .. i} = {c[j] : j \in 1 .. i}
      BY <2>1, <3>1, <1>1
    <3>4. e[i] = c[i] /\ c[i] # h /\ c[i] \in StoredIn(tree) /\ c[i] \in Header /\ (i # 1 => e[i - 1] = c[i - 1])
      BY <3>1, <2>1, <2>3
    <3>5. tree2[c[i]] = tree[c[i]] /\ line2[c[i]] = line[c[i]] /\ line2[root] = line[root]
      BY <3>4, <1>2, <1>3, <1>5
    <3> QED
      BY <3>2, <3>3, <3>4, <3>5
  <2>5. CASE i = n
    <3>1. i # 1 /\ e[i] = h /\ e[i - 1] = p /\ n - 1 \in 1 .. n - 1
      BY <2>5, <1>7, <1>1, <2>1
    <3>2. line[p] = line[root] \cup {c[j] : j \in 1 .. n - 1}
      BY <2>1, <2>2, <2>3, <3>1 DEF IsPath
    <3>3. {e[j] : j \in 1 .. n} = {h} \cup {c[j] : j \in 1 .. n - 1}
      BY <2>1, <1>1
    <3> QED
      BY <3>1, <3>2, <3>3, <2>5, <1>2, <1>4, <1>5
  <2> QED
    BY <2>4, <2>5
<1> QED
  BY <1>6, <1>7

\* The other chains are paths of the tree with the new leaf, too.
LEMMA PathStays ==
  ASSUME NEW tree, NEW line, NEW root, NEW chains,
         IsTree(tree, line), ChainsAbove(tree, line, root, chains),
         NEW h \in Header, tree[h] = NotImported, NEW p \in StoredIn(tree),
         NEW c \in chains
  PROVE  IsPath(WithLeaf(tree, h, p), WithAncestors(line, h, p), root, c)
<1> DEFINE tree2 == WithLeaf(tree, h, p)
           line2 == WithAncestors(line, h, p)
<1>1. h \notin StoredIn(tree) /\ \A b \in StoredIn(tree) : line2[b] = line[b]
  BY TreeGrows
<1>2. \A b \in Header : b # h => tree2[b] = tree[b]
  BY DEF IsTree, WithLeaf
<1>3. /\ c \in Seq(Header) /\ Len(c) \in Nat /\ DOMAIN c = 1 .. Len(c)
      /\ \A i \in DOMAIN c : c[i] \in StoredIn(tree) /\ c[i] \in Header
  BY ChainShape
<1>4. IsPath(tree, line, root, c) /\ root \in StoredIn(tree)
  BY DEF ChainsAbove
<1>5. \A i \in DOMAIN c : i # 1 => i - 1 \in DOMAIN c
  BY <1>3
<1> HIDE DEF tree2, line2
<1>6. IsPath(tree2, line2, root, c)
  BY <1>1, <1>2, <1>3, <1>4, <1>5 DEF IsPath
<1> QED
  BY <1>6 DEF tree2, line2

\* A set of branches with the new chain, without the one whose tip it extends,
\* is the set of branches of the tree with the new leaf.
LEMMA BranchGrows ==
  ASSUME NEW tree, NEW line, NEW root, NEW chains,
         IsTree(tree, line), ChainsAbove(tree, line, root, chains),
         NEW h \in Header, tree[h] = NotImported, NEW p \in StoredIn(tree),
         NEW e, EndsWith(e, h, p, root, chains),
         NEW kept \in SUBSET chains, \A d \in kept : d[Len(d)] # p,
         Blocks(kept \cup {e}) = Blocks(chains) \cup {h}
  PROVE  ChainsAbove(WithLeaf(tree, h, p), WithAncestors(line, h, p), root, kept \cup {e})
<1> DEFINE tree2 == WithLeaf(tree, h, p)
           line2 == WithAncestors(line, h, p)
           n == Len(e)
<1>0. n \in Nat /\ n >= 1
  BY DEF EndsWith
<1>1. /\ e \in Seq(Header) /\ n \in Nat /\ n >= 1 /\ e[n] = h /\ DOMAIN e = 1 .. n
  BY DEF EndsWith
<1>2. /\ h \notin StoredIn(tree)
      /\ StoredIn(tree2) = StoredIn(tree) \cup {h}
      /\ \A b \in StoredIn(tree) : h \notin line[b]
      /\ \A b \in StoredIn(tree) : line2[b] = line[b]
      /\ line2[h] = {h} \cup line[p]
  BY TreeGrows
<1>3. \A b \in Header : b # h => tree2[b] = tree[b]
  BY DEF IsTree, WithLeaf
<1>4. root \in StoredIn(tree)
  BY DEF ChainsAbove
<1>5. \A c \in chains : /\ c \in Seq(Header) /\ Len(c) \in Nat /\ Len(c) >= 1 /\ DOMAIN c = 1 .. Len(c)
                        /\ \A i \in DOMAIN c : c[i] \in StoredIn(tree) /\ c[i] \in Header /\ c[i] # h
  BY <1>2, ChainShape
<1>6. IsPath(tree2, line2, root, e)
  BY PathGrows
<1>7. \A c \in chains : IsPath(tree2, line2, root, c)
  BY PathStays
<1> HIDE DEF tree2, line2
<1>8. \A i \in 1 .. n - 1 : \E c \in chains : n - 1 \in DOMAIN c /\ c[n - 1] = p /\ \A k \in 1 .. n - 1 : e[k] = c[k]
  BY <1>1 DEF EndsWith
<1>9. ASSUME NEW i \in 1 .. n, e[i] = h
      PROVE  i = n
  <2>1. ASSUME i # n
        PROVE  FALSE
    <3>1. i \in 1 .. n - 1
      BY <2>1, <1>0
    <3>2. PICK c \in chains : n - 1 \in DOMAIN c /\ \A k \in 1 .. n - 1 : e[k] = c[k]
      BY <1>8, <3>1
    <3>3. i \in DOMAIN c /\ c[i] = h
      BY <3>1, <3>2, <1>5, <1>9, <1>0
    <3> QED
      BY <3>3, <1>5
  <2> QED
    BY <2>1
<1>10. ASSUME NEW d \in kept, NEW i \in 1 .. n, NEW j \in DOMAIN d, e[i] = d[j]
       PROVE  i = j /\ i # n /\ j # Len(d) /\ \A k \in 1 .. i : e[k] = d[k]
  <2>a. i # n
    BY <1>10, <1>1, <1>5
  <2>1. i \in 1 .. n - 1
    BY <2>a, <1>0
  <2>2. PICK c \in chains : n - 1 \in DOMAIN c /\ c[n - 1] = p /\ \A k \in 1 .. n - 1 : e[k] = c[k]
    BY <1>8, <2>1
  <2>3. i \in DOMAIN c /\ c[i] = d[j]
    BY <2>1, <2>2, <1>5, <1>10
  <2>4. i = j /\ \A k \in 1 .. i : c[k] = d[k]
    BY <2>3 DEF ChainsAbove, AreBranches
  <2>5. ASSUME j = Len(d)
        PROVE  FALSE
    <3>1. d = c
      BY <2>3, <2>4, <2>5 DEF ChainsAbove, AreBranches
    <3>2. Len(c) \in Nat /\ n - 1 <= Len(c) /\ Len(c) <= n - 1
      BY <3>1, <2>5, <2>4, <2>1, <2>2, <1>5, <1>0
    <3>3. n - 1 = Len(c)
      BY <3>2, <1>0
    <3> QED
      BY <3>1, <3>3, <2>2
  <2> QED
    BY <2>1, <2>2, <2>4, <2>5, <1>1
<1>11. ASSUME NEW i \in 1 .. n, NEW j \in 1 .. n, e[i] = e[j]
       PROVE  i = j
  <2>1. CASE i = n \/ j = n
    BY <2>1, <1>1, <1>9, <1>11
  <2>2. CASE i # n /\ j # n
    <3>1. i \in 1 .. n - 1 /\ j \in 1 .. n - 1
      BY <2>2, <1>0
    <3>2. PICK c \in chains : n - 1 \in DOMAIN c /\ \A k \in 1 .. n - 1 : e[k] = c[k]
      BY <1>8, <3>1
    <3>3. i \in DOMAIN c /\ j \in DOMAIN c /\ c[i] = c[j]
      BY <3>1, <3>2, <1>5, <1>11
    <3> QED
      BY <3>3 DEF ChainsAbove, AreBranches
  <2> QED
    BY <2>1, <2>2
<1>12. AreBranches(kept \cup {e})
  <2> SUFFICES ASSUME NEW c \in kept \cup {e}, NEW d \in kept \cup {e},
                      NEW i \in DOMAIN c, NEW j \in DOMAIN d, c[i] = d[j]
               PROVE  i = j /\ (\A k \in 1 .. i : c[k] = d[k]) /\ (i = Len(c) => c = d)
    BY DEF AreBranches
  <2>1. CASE c \in kept /\ d \in kept
    BY <2>1 DEF ChainsAbove, AreBranches
  <2>2. CASE c = e /\ d \in kept
    <3>0. i \in 1 .. n /\ e[i] = d[j] /\ Len(e) = n
      BY <2>2, <1>1
    <3>1. i = j /\ (\A k \in 1 .. i : c[k] = d[k]) /\ i # Len(c)
      <4>1. i = j /\ i # n /\ \A k \in 1 .. i : e[k] = d[k]
        BY <2>2, <3>0, <1>10
      <4> QED
        BY <2>2, <3>0, <4>1
    <3> QED
      BY <3>1
  <2>3. CASE c \in kept /\ d = e
    <3>1. j = i /\ i # Len(c) /\ \A k \in 1 .. j : e[k] = c[k]
      BY <2>3, <1>10, <1>1
    <3> QED
      BY <3>1, <2>3
  <2>4. CASE c = e /\ d = e
    BY <2>4, <1>11, <1>1
  <2> QED
    BY <2>1, <2>2, <2>3, <2>4
<1>13. p \in {root} \cup Blocks(chains)
  <2>1. CASE n = 1
    BY <2>1 DEF EndsWith
  <2>2. CASE n # 1
    <3>1. PICK c \in chains : n - 1 \in DOMAIN c /\ c[n - 1] = p
      BY <2>2 DEF EndsWith
    <3> QED
      BY <3>1, BlocksAreStored
  <2> QED
    BY <2>1, <2>2
<1>14. \A b \in StoredIn(tree2) : root \in line2[b] <=> b \in {root} \cup Blocks(kept \cup {e})
  <2> SUFFICES ASSUME NEW b \in StoredIn(tree2)
               PROVE  root \in line2[b] <=> b \in {root} \cup Blocks(chains) \cup {h}
    OBVIOUS
  <2>1. CASE b = h
    BY <2>1, <1>2, <1>13 DEF ChainsAbove
  <2>2. CASE b # h
    BY <2>2, <1>2 DEF ChainsAbove
  <2> QED
    BY <2>1, <2>2
<1>15. \A c \in kept \cup {e} : IsPath(tree2, line2, root, c)
  BY <1>6, <1>7
<1>16. root \in StoredIn(tree2)
  BY <1>2, <1>4
<1>17. ChainsAbove(tree2, line2, root, kept \cup {e})
  BY <1>12, <1>14, <1>15, <1>16 DEF ChainsAbove
<1> QED
  BY <1>17 DEF tree2, line2

\* A block whose parent is in none of the branches leaves them as they are.
LEMMA OrphanGrows ==
  ASSUME NEW tree, NEW line, NEW root, NEW chains,
         IsTree(tree, line), ChainsAbove(tree, line, root, chains),
         NEW h \in Header, tree[h] = NotImported, NEW p \in StoredIn(tree),
         p \notin {root} \cup Blocks(chains)
  PROVE  ChainsAbove(WithLeaf(tree, h, p), WithAncestors(line, h, p), root, chains)
<1> DEFINE tree2 == WithLeaf(tree, h, p)
           line2 == WithAncestors(line, h, p)
<1>1. /\ StoredIn(tree2) = StoredIn(tree) \cup {h}
      /\ h \notin StoredIn(tree)
      /\ \A b \in StoredIn(tree) : line2[b] = line[b]
      /\ line2[h] = {h} \cup line[p]
  BY TreeGrows
<1>2. \A c \in chains : IsPath(tree2, line2, root, c)
  BY PathStays
<1>3. Blocks(chains) \subseteq StoredIn(tree) /\ root \in StoredIn(tree)
  BY BlocksAreStored DEF ChainsAbove
<1> HIDE DEF tree2, line2
<1>4. \A b \in StoredIn(tree2) : root \in line2[b] <=> b \in {root} \cup Blocks(chains)
  <2> SUFFICES ASSUME NEW b \in StoredIn(tree2)
               PROVE  root \in line2[b] <=> b \in {root} \cup Blocks(chains)
    OBVIOUS
  <2>1. CASE b = h
    BY <2>1, <1>1, <1>3 DEF ChainsAbove
  <2>2. CASE b # h
    BY <2>2, <1>1 DEF ChainsAbove
  <2> QED
    BY <2>1, <2>2
<1>5. ChainsAbove(tree2, line2, root, chains)
  BY <1>1, <1>2, <1>3, <1>4 DEF ChainsAbove
<1> QED
  BY <1>5 DEF tree2, line2

\* A block of a chain is at its position.
LEMMA PositionFacts ==
  ASSUME NEW S, NEW c \in Seq(S), NEW b, Contains(c, b)
  PROVE  Position(c, b) \in DOMAIN c /\ c[Position(c, b)] = b
<1>1. \E i \in DOMAIN c : c[i] = b
  BY DEF Contains
<1> QED
  BY <1>1 DEF Position

\* What the three places at which a block can be attached have in common.
Attaches(a, h, p) ==
    \E kept \in SUBSET unfinalized :
        /\ a.chains = kept \cup {a.extended}
        /\ EndsWith(a.extended, h, p, lastFinalized, unfinalized)
        /\ \A d \in kept : d[Len(d)] # p
        /\ Blocks(a.chains) = Blocks(unfinalized) \cup {h}

\* finality.ts 60-68: the chain whose tip is the parent goes on.
LEMMA AttachedAtTip ==
  ASSUME NEW line, IsTree(parent, line), ChainsAbove(parent, line, lastFinalized, unfinalized),
         NEW h \in Header, parent[h] = NotImported, NEW p \in StoredIn(parent),
         NEW a \in AttachAtTip(h, p)
  PROVE  Attaches(a, h, p)
<1>1. PICK c \in unfinalized :
        /\ c[Len(c)] = p
        /\ a = [chains |-> (unfinalized \ {c}) \cup {Append(c, h)}, extended |-> Append(c, h)]
  BY DEF AttachAtTip, TipIs, Last
<1> DEFINE e == Append(c, h)
           kept == unfinalized \ {c}
<1>2. \A d \in unfinalized :
        /\ d \in Seq(Header) /\ Len(d) \in Nat /\ Len(d) >= 1 /\ DOMAIN d = 1 .. Len(d)
        /\ \A i \in DOMAIN d : d[i] \in StoredIn(parent) /\ d[i] \in Header
  BY ChainShape
<1>3. /\ e \in Seq(Header) /\ e # <<>> /\ Len(e) = Len(c) + 1 /\ DOMAIN e = 1 .. (Len(c) + 1)
      /\ \A i \in 1 .. Len(c) : e[i] = c[i]
      /\ e[Len(c) + 1] = h
  BY <1>2, AppendFacts
<1> HIDE DEF e
<1>4. EndsWith(e, h, p, lastFinalized, unfinalized)
  <2>1. Len(e) - 1 = Len(c) /\ Len(e) # 1 /\ Len(c) \in DOMAIN c
    BY <1>2, <1>3
  <2> QED
    BY <2>1, <1>1, <1>3 DEF EndsWith
<1>5. ASSUME NEW d \in kept
      PROVE  d[Len(d)] # p
  <2>1. Len(d) \in DOMAIN d /\ Len(c) \in DOMAIN c
    BY <1>2
  <2> QED
    BY <2>1, <1>1 DEF ChainsAbove, AreBranches
<1>6. Blocks(kept \cup {e}) = Blocks(unfinalized) \cup {h}
  <2>1. \A b : (\E i \in DOMAIN e : b = e[i]) <=> (b = h \/ \E i \in DOMAIN c : b = c[i])
    <3>1. \A i \in DOMAIN e : i = Len(c) + 1 \/ (i \in DOMAIN c /\ e[i] = c[i])
      BY <1>2, <1>3
    <3>2. Len(c) + 1 \in DOMAIN e /\ \A i \in DOMAIN c : i \in DOMAIN e /\ e[i] = c[i]
      BY <1>2, <1>3
    <3> QED
      BY <3>1, <3>2, <1>3
  <2> QED
    BY <2>1 DEF Blocks
<1> QED
  BY <1>1, <1>4, <1>5, <1>6 DEF Attaches, e

\* finality.ts 70-75: a new chain begins above the finalized block.
LEMMA AttachedAtFinalized ==
  ASSUME NEW line, IsTree(parent, line), ChainsAbove(parent, line, lastFinalized, unfinalized),
         NEW h \in Header, parent[h] = NotImported, NEW p \in StoredIn(parent),
         AttachAtTip(h, p) = {}, NEW a \in AttachAtFinalized(h, p)
  PROVE  Attaches(a, h, p)
<1>1. p = lastFinalized /\ a = [chains |-> unfinalized \cup {<<h>>}, extended |-> <<h>>]
  BY DEF AttachAtFinalized
<1>2. \A d \in unfinalized : d[Len(d)] # p
  BY DEF AttachAtTip, TipIs, Last
<1>3. <<h>> \in Seq(Header) /\ <<h>> # <<>> /\ Len(<<h>>) = 1 /\ <<h>>[1] = h /\ DOMAIN <<h>> = {1}
  OBVIOUS
<1>4. EndsWith(<<h>>, h, p, lastFinalized, unfinalized)
  BY <1>1, <1>3 DEF EndsWith
<1>5. Blocks(unfinalized \cup {<<h>>}) = Blocks(unfinalized) \cup {h}
  BY <1>3 DEF Blocks
<1> QED
  BY <1>1, <1>2, <1>4, <1>5 DEF Attaches

\* finality.ts 76-87: the beginning of a chain is copied.
LEMMA AttachedByForking ==
  ASSUME NEW line, IsTree(parent, line), ChainsAbove(parent, line, lastFinalized, unfinalized),
         NEW h \in Header, parent[h] = NotImported, NEW p \in StoredIn(parent),
         AttachAtTip(h, p) = {}, NEW a \in AttachByForking(h, p)
  PROVE  Attaches(a, h, p)
<1>1. PICK c \in unfinalized :
        /\ Contains(c, p)
        /\ a = LET fork == Append(SubSeq(c, 1, Position(c, p)), h)
               IN  [chains |-> unfinalized \cup {fork}, extended |-> fork]
  BY DEF AttachByForking
<1> DEFINE n == Position(c, p)
           s == SubSeq(c, 1, n)
           e == Append(s, h)
<1>2. \A d \in unfinalized : d[Len(d)] # p
  BY DEF AttachAtTip, TipIs, Last
<1>3. /\ c \in Seq(Header) /\ Len(c) \in Nat /\ DOMAIN c = 1 .. Len(c)
      /\ \A i \in DOMAIN c : c[i] \in StoredIn(parent) /\ c[i] \in Header
  BY ChainShape
<1>4. n \in 1 .. Len(c) /\ c[n] = p
  BY <1>1, <1>3, PositionFacts
<1> HIDE DEF n
<1>5. s \in Seq(Header) /\ Len(s) = n /\ \A i \in 1 .. n : s[i] = c[i]
  <2>1. n \in 0 .. Len(c)
    BY <1>3, <1>4
  <2> QED
    BY <2>1, <1>3, PrefixFacts
<1> HIDE DEF s
<1>6. /\ e \in Seq(Header) /\ e # <<>> /\ Len(e) = n + 1 /\ DOMAIN e = 1 .. (n + 1)
      /\ \A i \in 1 .. n : e[i] = c[i]
      /\ e[n + 1] = h
  BY <1>5, AppendFacts
<1> HIDE DEF e
<1>7. EndsWith(e, h, p, lastFinalized, unfinalized)
  <2>1. Len(e) - 1 = n /\ Len(e) # 1 /\ n \in DOMAIN c
    BY <1>3, <1>4, <1>6
  <2> QED
    BY <2>1, <1>4, <1>6 DEF EndsWith
<1>8. Blocks(unfinalized \cup {e}) = Blocks(unfinalized) \cup {h}
  <2>1. \A i \in DOMAIN e : i = n + 1 \/ (i \in DOMAIN c /\ e[i] = c[i])
    BY <1>3, <1>4, <1>6
  <2>2. n + 1 \in DOMAIN e
    BY <1>4, <1>6
  <2> QED
    BY <2>1, <2>2, <1>6 DEF Blocks
<1>9. a = [chains |-> unfinalized \cup {e}, extended |-> e]
  BY <1>1 DEF e, s, n
<1> QED
  BY <1>2, <1>7, <1>8, <1>9 DEF Attaches

\* Wherever the block is attached, it ends a chain that was there before.
LEMMA AttachmentsAttach ==
  ASSUME NEW line, IsTree(parent, line), ChainsAbove(parent, line, lastFinalized, unfinalized),
         NEW h \in Header, parent[h] = NotImported, NEW p \in StoredIn(parent),
         NEW a \in Attachments(h, p)
  PROVE  Attaches(a, h, p)
  BY AttachedAtTip, AttachedAtFinalized, AttachedByForking DEF Attachments

\* Only e may be one block longer than a chain that waits.
ShortBut(chains, e) == \A c \in chains : Len(c) <= 2 * Depth + 1 /\ (c # e => Len(c) <= 2 * Depth)

\* The new chain is one block longer than a chain, or than none.
LEMMA AttachedChains ==
  ASSUME NEW line, IsTree(parent, line), ChainsAbove(parent, line, lastFinalized, unfinalized), ChainsAreShort,
         NEW h, NEW p, NEW a, Attaches(a, h, p)
  PROVE  ShortBut(a.chains, a.extended)
<1>1. \A c \in unfinalized : Len(c) \in Nat /\ DOMAIN c = 1 .. Len(c) /\ Len(c) <= 2 * Depth
  BY ChainShape DEF ChainsAreShort
<1>2. /\ a.extended \in Seq(Header)
      /\ Len(a.extended) # 1 => \E c \in unfinalized : Len(a.extended) - 1 \in DOMAIN c
  BY DEF Attaches, EndsWith
<1>3. Len(a.extended) \in Nat /\ Len(a.extended) <= 2 * Depth + 1
  <2>1. CASE Len(a.extended) = 1
    BY <2>1, DepthAssumption
  <2>2. CASE Len(a.extended) # 1
    BY <2>2, <1>1, <1>2, DepthAssumption
  <2> QED
    BY <2>1, <2>2
<1>4. \A c \in a.chains : c = a.extended \/ c \in unfinalized
  BY DEF Attaches
<1>5. ASSUME NEW c \in a.chains, c \in unfinalized
      PROVE  Len(c) <= 2 * Depth + 1 /\ Len(c) <= 2 * Depth
  BY <1>1, <1>5, DepthAssumption
<1> QED
  BY <1>3, <1>4, <1>5 DEF ShortBut

\* An orphan is a block whose parent is not above the finalized block.
LEMMA OrphansAttachNowhere ==
  ASSUME NEW h, NEW p, Attachments(h, p) = {}, \A c \in unfinalized : c \in Seq(Header)
  PROVE  p \notin {lastFinalized} \cup Blocks(unfinalized)
<1>1. p # lastFinalized
  BY DEF Attachments, AttachAtFinalized
<1>2. ASSUME p \in Blocks(unfinalized)
      PROVE  FALSE
  <2>1. PICK c \in unfinalized : \E i \in DOMAIN c : p = c[i]
    BY <1>2 DEF Blocks
  <2>2. Contains(c, p)
    BY <2>1 DEF Contains
  <2>3. AttachByForking(h, p) # {}
    BY <2>2 DEF AttachByForking
  <2> QED
    BY <2>3 DEF Attachments
<1> QED
  BY <1>1, <1>2

(* A block is finalized *)

\* Where f is in the chains that hold it.
LEMMA FinalizedPosition ==
  ASSUME NEW tree, NEW line, IsTree(tree, line), NEW root, NEW chains,
         ChainsAbove(tree, line, root, chains), NEW e \in chains, IsDeepEnough(e),
         NEW n, n = Len(e) - Depth, NEW f, f = NewlyFinalized(e)
  PROVE  /\ n \in 1 .. Len(e) - 1 /\ e[n] = f /\ f \in Header
         /\ \A c \in chains : \A i \in DOMAIN c : c[i] = f =>
              /\ Contains(c, f) /\ i = n /\ Position(c, f) = n /\ \A k \in 1 .. n : c[k] = e[k]
         /\ \A c \in chains : Contains(c, f) =>
              n \in DOMAIN c /\ c[n] = f /\ Position(c, f) = n /\ \A k \in 1 .. n : c[k] = e[k]
<1>1. e \in Seq(Header) /\ Len(e) \in Nat /\ DOMAIN e = 1 .. Len(e) /\ \A i \in DOMAIN e : e[i] \in Header
  BY ChainShape
<1>2. n \in 1 .. Len(e) - 1 /\ n \in DOMAIN e
  BY <1>1, DepthAssumption DEF IsDeepEnough
<1>3. e[n] = f /\ f \in Header
  BY <1>1, <1>2 DEF NewlyFinalized
<1>4. ASSUME NEW c \in chains, NEW i \in DOMAIN c, c[i] = f
      PROVE  i = n /\ \A k \in 1 .. n : c[k] = e[k]
  BY <1>2, <1>3, <1>4 DEF ChainsAbove, AreBranches
<1>5. ASSUME NEW c \in chains, Contains(c, f)
      PROVE  n \in DOMAIN c /\ c[n] = f /\ Position(c, f) = n /\ \A k \in 1 .. n : c[k] = e[k]
  <2>1. c \in Seq(Header)
    BY ChainShape
  <2>2. Position(c, f) \in DOMAIN c /\ c[Position(c, f)] = f
    BY <2>1, <1>5, PositionFacts
  <2> QED
    BY <2>2, <1>4
<1>6. ASSUME NEW c \in chains, NEW i \in DOMAIN c, c[i] = f
      PROVE  Contains(c, f)
  <2>1. DOMAIN c = 1 .. Len(c)
    BY ChainShape
  <2> QED
    BY <2>1, <1>6 DEF Contains
<1> QED
  BY <1>2, <1>3, <1>4, <1>5, <1>6

\* What remains of a chain through f is above f.
LEMMA RestOfChain ==
  ASSUME NEW tree, NEW line, IsTree(tree, line), NEW root, NEW chains,
         ChainsAbove(tree, line, root, chains), NEW e \in chains, IsDeepEnough(e),
         NEW n, n = Len(e) - Depth, NEW f, f = NewlyFinalized(e),
         NEW c \in chains, Contains(c, f)
  PROVE  /\ n \in Nat /\ Len(c) \in Nat /\ n <= Len(c)
         /\ Rest(c, f) \in Seq(Header)
         /\ Len(Rest(c, f)) = Len(c) - n
         /\ DOMAIN Rest(c, f) = 1 .. (Len(c) - n)
         /\ \A i \in 1 .. (Len(c) - n) : n + i \in DOMAIN c /\ Rest(c, f)[i] = c[n + i]
         /\ Rest(c, f) # <<>> => IsPath(tree, line, f, Rest(c, f))
<1>1. n \in DOMAIN c /\ c[n] = f /\ Position(c, f) = n
  BY FinalizedPosition
<1>2. c \in Seq(Header) /\ Len(c) \in Nat /\ DOMAIN c = 1 .. Len(c) /\ \A i \in DOMAIN c : c[i] \in Header
  BY ChainShape
<1>3. n \in Nat /\ n >= 1 /\ n <= Len(c) /\ n \in 0 .. Len(c)
  BY <1>1, <1>2
<1>4. Rest(c, f) = SubSeq(c, n + 1, Len(c))
  BY <1>1 DEF Rest
<1>5. /\ Rest(c, f) \in Seq(Header)
      /\ Len(Rest(c, f)) = Len(c) - n
      /\ DOMAIN Rest(c, f) = 1 .. (Len(c) - n)
      /\ \A i \in 1 .. (Len(c) - n) : Rest(c, f)[i] = c[n + i]
  <2>1. /\ SubSeq(c, n + 1, Len(c)) \in Seq(Header)
        /\ Len(SubSeq(c, n + 1, Len(c))) = Len(c) - n
        /\ DOMAIN SubSeq(c, n + 1, Len(c)) = 1 .. (Len(c) - n)
        /\ \A i \in 1 .. (Len(c) - n) : SubSeq(c, n + 1, Len(c))[i] = c[n + i]
    BY <1>2, <1>3, RestFacts, Zenon
  <2> QED
    BY <2>1, <1>4, Zenon
<1>6. \A i \in 1 .. (Len(c) - n) : n + i \in DOMAIN c
  BY <1>2, <1>3
<1>7. ASSUME Rest(c, f) # <<>>
      PROVE  IsPath(tree, line, f, Rest(c, f))
  <2> DEFINE r == Rest(c, f)
  <2>1. IsPath(tree, line, root, c)
    BY DEF ChainsAbove
  <2>2. line[f] = line[root] \cup {c[j] : j \in 1 .. n}
    BY <2>1, <1>1 DEF IsPath
  <2> SUFFICES ASSUME NEW i \in 1 .. (Len(c) - n)
               PROVE  /\ tree[r[i]] = IF i = 1 THEN f ELSE r[i - 1]
                      /\ line[r[i]] = line[f] \cup {r[j] : j \in 1 .. i}
                      /\ r[i] \notin line[f]
    BY <1>5, <1>7 DEF IsPath
  <2> HIDE DEF r
  <2>3. n + i \in DOMAIN c /\ r[i] = c[n + i] /\ n + i # 1 /\ i \in Nat
    BY <1>3, <1>5, <1>6 DEF r
  <2>4. /\ tree[c[n + i]] = c[n + i - 1]
        /\ line[c[n + i]] = line[root] \cup {c[j] : j \in 1 .. n + i}
        /\ c[n + i] \notin line[root]
    BY <2>1, <2>3 DEF IsPath
  <2>5. tree[r[i]] = IF i = 1 THEN f ELSE r[i - 1]
    <3>1. CASE i = 1
      <4>1. n + i - 1 = n
        BY <3>1, <1>3
      <4> QED
        BY <4>1, <3>1, <2>3, <2>4, <1>1
    <3>2. CASE i # 1
      <4>1. i - 1 \in 1 .. (Len(c) - n) /\ n + (i - 1) = n + i - 1
        BY <3>2, <1>2, <1>3
      <4>2. r[i - 1] = c[n + (i - 1)]
        BY <4>1, <1>5 DEF r
      <4> QED
        BY <4>1, <4>2, <3>2, <2>3, <2>4
    <3> QED
      BY <3>1, <3>2
  <2>6. {c[j] : j \in 1 .. n + i} = {c[j] : j \in 1 .. n} \cup {r[j] : j \in 1 .. i}
    <3>1. ASSUME NEW j \in 1 .. n + i
          PROVE  c[j] \in {c[k] : k \in 1 .. n} \cup {r[k] : k \in 1 .. i}
      <4>1. CASE j <= n
        BY <4>1, <1>3
      <4>2. CASE ~(j <= n)
        <5>1. j - n \in 1 .. i /\ j - n \in 1 .. (Len(c) - n) /\ n + (j - n) = j
          BY <4>2, <1>2, <1>3, <2>3
        <5>2. r[j - n] = c[j]
          BY <5>1, <1>5 DEF r
        <5> QED
          BY <5>1, <5>2
      <4> QED
        BY <4>1, <4>2
    <3>2. \A j \in 1 .. i : n + j \in 1 .. n + i /\ r[j] = c[n + j]
      BY <1>2, <1>3, <1>5, <2>3 DEF r
    <3>3. \A j \in 1 .. n : j \in 1 .. n + i
      BY <1>3, <2>3
    <3>4. {c[j] : j \in 1 .. n + i} \subseteq {c[j] : j \in 1 .. n} \cup {r[j] : j \in 1 .. i}
      BY <3>1
    <3>5. {c[j] : j \in 1 .. n} \subseteq {c[j] : j \in 1 .. n + i}
      BY <3>3
    <3>6. {r[j] : j \in 1 .. i} \subseteq {c[j] : j \in 1 .. n + i}
      BY <3>2
    <3> QED
      BY <3>4, <3>5, <3>6
  <2>7. r[i] \notin line[f]
    <3>1. \A j \in 1 .. n : j \in DOMAIN c /\ j # n + i
      BY <1>2, <1>3, <2>3
    <3>2. \A j \in 1 .. n : c[j] # c[n + i]
      BY <3>1, <2>3 DEF ChainsAbove, AreBranches
    <3> QED
      BY <3>2, <2>2, <2>3, <2>4
  <2> QED
    BY <2>2, <2>3, <2>4, <2>5, <2>6, <2>7
<1> QED
  BY <1>2, <1>3, <1>5, <1>6, <1>7

\* A block of a chain through f that is not after f is f or before it, and
\* what is after f is in what remains.
LEMMA AfterFinalized ==
  ASSUME NEW tree, NEW line, IsTree(tree, line), NEW root, NEW chains,
         ChainsAbove(tree, line, root, chains), NEW e \in chains, IsDeepEnough(e),
         NEW n, n = Len(e) - Depth, NEW f, f = NewlyFinalized(e),
         NEW alive, alive = {c \in chains : Contains(c, f)}
  PROVE  /\ \A c \in alive : \A i \in DOMAIN c : i > n => c[i] \in Blocks(Remaining(alive, f))
         /\ \A b \in Blocks(Remaining(alive, f)) : \E c \in alive : \E i \in DOMAIN c : i > n /\ b = c[i]
<1>1. ASSUME NEW c \in alive, NEW i \in DOMAIN c, i > n
      PROVE  c[i] \in Blocks(Remaining(alive, f))
  <2>1. c \in chains /\ Contains(c, f)
    OBVIOUS
  <2>2. /\ n \in Nat /\ Len(c) \in Nat /\ n <= Len(c)
        /\ Rest(c, f) \in Seq(Header)
        /\ DOMAIN Rest(c, f) = 1 .. (Len(c) - n)
        /\ \A k \in 1 .. (Len(c) - n) : Rest(c, f)[k] = c[n + k]
    BY <2>1, RestOfChain
  <2>3. DOMAIN c = 1 .. Len(c) /\ c[i] \in Header
    BY <2>1, ChainShape
  <2>4. i - n \in 1 .. (Len(c) - n) /\ n + (i - n) = i
    BY <1>1, <2>2, <2>3
  <2>5. Rest(c, f)[i - n] = c[i] /\ i - n \in DOMAIN Rest(c, f)
    BY <2>2, <2>4
  <2>6. Rest(c, f) # <<>>
    BY <2>5
  <2>7. Rest(c, f) \in Remaining(alive, f)
    BY <2>6 DEF Remaining
  <2> QED
    BY <2>3, <2>5, <2>7 DEF Blocks
<1>2. ASSUME NEW b \in Blocks(Remaining(alive, f))
      PROVE  \E c \in alive : \E i \in DOMAIN c : i > n /\ b = c[i]
  <2>1. PICK r \in Remaining(alive, f) : \E i \in DOMAIN r : b = r[i]
    BY DEF Blocks
  <2>2. PICK i \in DOMAIN r : b = r[i]
    BY <2>1
  <2>3. PICK c \in alive : r = Rest(c, f)
    BY DEF Remaining
  <2>4. /\ n \in Nat
        /\ DOMAIN Rest(c, f) = 1 .. (Len(c) - n)
        /\ \A k \in 1 .. (Len(c) - n) : n + k \in DOMAIN c /\ Rest(c, f)[k] = c[n + k]
    BY RestOfChain
  <2>5. i \in 1 .. (Len(c) - n) /\ n + i \in DOMAIN c /\ b = c[n + i]
    BY <2>2, <2>3, <2>4
  <2>6. n + i > n
    BY <2>4, <2>5
  <2> QED
    BY <2>5, <2>6
<1> QED
  BY <1>1, <1>2

\* What remains are the branches above f.
LEMMA RemainingAreBranches ==
  ASSUME NEW tree, NEW line, IsTree(tree, line), NEW root, NEW chains,
         ChainsAbove(tree, line, root, chains), NEW e \in chains, IsDeepEnough(e),
         NEW n, n = Len(e) - Depth, NEW f, f = NewlyFinalized(e),
         NEW alive, alive = {c \in chains : Contains(c, f)}
  PROVE  ChainsAbove(tree, line, f, Remaining(alive, f))
<1> DEFINE left == Remaining(alive, f)
<1>1. n \in 1 .. Len(e) - 1 /\ n \in DOMAIN e /\ e[n] = f
  <2>1. n \in 1 .. Len(e) - 1 /\ e[n] = f
    BY FinalizedPosition
  <2>2. DOMAIN e = 1 .. Len(e) /\ Len(e) \in Nat
    BY ChainShape
  <2> QED
    BY <2>1, <2>2
<1>2. f \in StoredIn(tree) /\ f \in Blocks(chains)
  BY <1>1, BlocksAreStored
<1>3. ASSUME NEW r \in left
      PROVE  IsPath(tree, line, f, r)
  <2>1. PICK c \in alive : r = Rest(c, f) /\ r # <<>>
    BY DEF Remaining
  <2> QED
    BY <2>1, RestOfChain
<1>4. AreBranches(left)
  <2> SUFFICES ASSUME NEW r \in left, NEW s \in left, NEW i \in DOMAIN r, NEW j \in DOMAIN s, r[i] = s[j]
               PROVE  i = j /\ (\A k \in 1 .. i : r[k] = s[k]) /\ (i = Len(r) => r = s)
    BY DEF AreBranches
  <2>1. PICK c \in alive : r = Rest(c, f)
    BY DEF Remaining
  <2>2. PICK d \in alive : s = Rest(d, f)
    BY DEF Remaining
  <2>0. c \in chains /\ Contains(c, f) /\ d \in chains /\ Contains(d, f)
    OBVIOUS
  <2>3. /\ n \in Nat /\ Len(c) \in Nat /\ Len(r) = Len(c) - n /\ DOMAIN r = 1 .. (Len(c) - n)
        /\ \A k \in 1 .. (Len(c) - n) : n + k \in DOMAIN c /\ r[k] = c[n + k]
    <3>1. /\ n \in Nat /\ Len(c) \in Nat /\ Len(Rest(c, f)) = Len(c) - n
          /\ DOMAIN Rest(c, f) = 1 .. (Len(c) - n)
          /\ \A k \in 1 .. (Len(c) - n) : n + k \in DOMAIN c /\ Rest(c, f)[k] = c[n + k]
      BY <2>0, RestOfChain
    <3> QED
      BY <3>1, <2>1
  <2>4. /\ Len(d) \in Nat /\ DOMAIN s = 1 .. (Len(d) - n)
        /\ \A k \in 1 .. (Len(d) - n) : n + k \in DOMAIN d /\ s[k] = d[n + k]
    <3>1. /\ Len(d) \in Nat /\ DOMAIN Rest(d, f) = 1 .. (Len(d) - n)
          /\ \A k \in 1 .. (Len(d) - n) : n + k \in DOMAIN d /\ Rest(d, f)[k] = d[n + k]
      BY <2>0, RestOfChain
    <3> QED
      BY <3>1, <2>2
  <2>5. /\ i \in Nat /\ j \in Nat /\ i \in 1 .. (Len(c) - n) /\ j \in 1 .. (Len(d) - n)
        /\ n + i \in DOMAIN c /\ n + j \in DOMAIN d /\ c[n + i] = d[n + j]
    BY <2>3, <2>4
  <2>6. /\ n + i = n + j
        /\ \A k \in 1 .. n + i : c[k] = d[k]
        /\ n + i = Len(c) => c = d
    BY <2>5 DEF ChainsAbove, AreBranches
  <2>7. i = j
    <3>1. n \in Nat /\ i \in Nat /\ j \in Nat /\ n + i = n + j
      BY <2>3, <2>5, <2>6
    <3> QED
      BY <3>1
  <2>8. ASSUME NEW k \in 1 .. i
        PROVE  r[k] = s[k]
    <3>0. /\ n \in Nat /\ Len(c) \in Nat /\ Len(d) \in Nat /\ i \in Nat /\ k \in 1 .. i
          /\ i <= Len(c) - n /\ i <= Len(d) - n
      BY <2>3, <2>4, <2>5, <2>7
    <3>1. k \in 1 .. (Len(c) - n) /\ k \in 1 .. (Len(d) - n) /\ n + k \in 1 .. n + i
      BY <3>0
    <3> QED
      BY <3>1, <2>3, <2>4, <2>6
  <2>9. i = Len(r) => r = s
    <3>1. n \in Nat /\ Len(c) \in Nat /\ Len(r) = Len(c) - n
      BY <2>3
    <3>2. i = Len(r) => n + i = Len(c)
      BY <3>1
    <3> QED
      BY <3>2, <2>6, <2>1, <2>2
  <2> QED
    BY <2>7, <2>8, <2>9
<1>5. ASSUME NEW b \in StoredIn(tree)
      PROVE  f \in line[b] <=> b \in {f} \cup Blocks(left)
  <2>1. ASSUME b \in Blocks(left)
        PROVE  f \in line[b]
    <3>1. PICK r \in left : \E i \in DOMAIN r : b = r[i]
      BY <2>1 DEF Blocks
    <3>2. IsPath(tree, line, f, r)
      BY <1>3
    <3>3. f \in line[f]
      BY <1>2 DEF IsTree
    <3> QED
      BY <3>1, <3>2, <3>3 DEF IsPath
  <2>2. f \in line[f]
    BY <1>2 DEF IsTree
  <2>3. ASSUME f \in line[b]
        PROVE  b \in {f} \cup Blocks(left)
    <3>1. root \in line[f]
      BY <1>2 DEF ChainsAbove
    <3>2. root \in line[b]
      BY <3>1, <2>3 DEF IsTree
    <3>3. b \in {root} \cup Blocks(chains)
      BY <3>2 DEF ChainsAbove
    <3>4. f \notin line[root]
      BY <1>1 DEF ChainsAbove, IsPath
    <3>5. b \in Blocks(chains)
      BY <3>3, <3>4, <2>3
    <3>6. PICK c \in chains : \E i \in DOMAIN c : b = c[i]
      BY <3>5 DEF Blocks
    <3>7. PICK i \in DOMAIN c : b = c[i]
      BY <3>6
    <3>8. line[b] = line[root] \cup {c[j] : j \in 1 .. i}
      BY <3>7 DEF ChainsAbove, IsPath
    <3>9. PICK j \in 1 .. i : f = c[j]
      BY <3>4, <3>8, <2>3
    <3>10. DOMAIN c = 1 .. Len(c) /\ Len(c) \in Nat
      BY ChainShape
    <3>11. j \in DOMAIN c
      BY <3>9, <3>10
    <3>12. c \in alive /\ j = n
      <4>1. \A d \in chains : \A k \in DOMAIN d : d[k] = f => Contains(d, f) /\ k = n
        BY FinalizedPosition
      <4> QED
        BY <4>1, <3>9, <3>11
    <3>13. CASE i = n
      BY <3>13, <3>12, <3>9, <3>7
    <3>14. CASE i # n
      <4>1. i > n
        BY <3>14, <3>12, <3>9, <3>10
      <4> QED
        BY <4>1, <3>12, <3>7, AfterFinalized
    <3> QED
      BY <3>13, <3>14
  <2> QED
    BY <2>1, <2>2, <2>3
<1> QED
  BY <1>2, <1>3, <1>4, <1>5 DEF ChainsAbove

\* What becomes prunable is all that was followed and is not f or above it.
LEMMA PrunableIsTheRest ==
  ASSUME NEW tree, NEW line, IsTree(tree, line), NEW chains,
         ChainsAbove(tree, line, lastFinalized, chains), NEW e \in chains, IsDeepEnough(e),
         NEW f, f = NewlyFinalized(e),
         NEW alive, alive = {c \in chains : Contains(c, f)}
  PROVE  Prunable(chains, f) =
           ({lastFinalized} \cup Blocks(chains)) \ ({f} \cup Blocks(Remaining(alive, f)))
<1> DEFINE n == Len(e) - Depth
           left == Blocks(Remaining(alive, f))
           before == UNION {ToSet(Prefix(c, f)) \ {f} : c \in {x \in chains : Contains(x, f)}}
           dead == UNION {ToSet(c) : c \in {x \in chains : ~Contains(x, f)}}
<1>1. n \in 1 .. Len(e) - 1 /\ e[n] = f /\ f \in Header
  BY FinalizedPosition
<1>2. \A c \in chains : Contains(c, f) =>
         n \in DOMAIN c /\ c[n] = f /\ Position(c, f) = n /\ \A k \in 1 .. n : c[k] = e[k]
  BY FinalizedPosition
<1>3. \A c \in chains : /\ c \in Seq(Header) /\ Len(c) \in Nat /\ Len(c) >= 1 /\ DOMAIN c = 1 .. Len(c)
                        /\ \A i \in DOMAIN c : c[i] \in StoredIn(tree) /\ c[i] \in Header
  BY ChainShape
<1>4. /\ \A c \in alive : \A i \in DOMAIN c : i > n => c[i] \in left
      /\ \A b \in left : \E c \in alive : \E i \in DOMAIN c : i > n /\ b = c[i]
  BY AfterFinalized
<1>5. \A c \in chains : \A i \in DOMAIN c : c[i] = f => Contains(c, f) /\ i = n
  BY FinalizedPosition
<1>6. n \in Nat /\ n >= 1
  <2>1. Len(e) \in Nat
    BY <1>3
  <2> QED
    BY <1>1, <2>1
<1> HIDE DEF n, left
<1>7. ASSUME NEW c \in alive
      PROVE  ToSet(Prefix(c, f)) = {c[i] : i \in 1 .. n}
  <2>1. c \in Seq(Header) /\ n \in 0 .. Len(c) /\ Position(c, f) = n
    BY <1>2, <1>3, <1>6
  <2>2. DOMAIN SubSeq(c, 1, n) = 1 .. n /\ \A i \in 1 .. n : SubSeq(c, 1, n)[i] = c[i]
    BY <2>1, PrefixFacts, Zenon
  <2> QED
    BY <2>1, <2>2 DEF Prefix, ToSet
<1>8. lastFinalized \notin left /\ lastFinalized # f
  <2>1. lastFinalized \notin Blocks(chains)
    BY BlocksAreStored
  <2>2. f \in Blocks(chains)
    BY <1>1, <1>2, <1>3, <1>5, BlocksAreStored
  <2>3. left \subseteq Blocks(chains)
    BY <1>4, BlocksAreStored
  <2> QED
    BY <2>1, <2>2, <2>3
<1>9. ASSUME NEW c \in chains, NEW i \in DOMAIN c, c[i] \in {f} \cup left
      PROVE  Contains(c, f) /\ i >= n
  <2>1. CASE c[i] = f
    BY <2>1, <1>5, <1>6
  <2>2. CASE c[i] \in left
    <3>1. PICK d \in alive : \E j \in DOMAIN d : j > n /\ c[i] = d[j]
      BY <2>2, <1>4
    <3>2. PICK j \in DOMAIN d : j > n /\ c[i] = d[j]
      BY <3>1
    <3>3. i = j /\ \A k \in 1 .. i : c[k] = d[k]
      BY <3>2 DEF ChainsAbove, AreBranches
    <3>4. n \in 1 .. i /\ n \in DOMAIN c
      BY <3>2, <3>3, <1>3, <1>6
    <3>5. c[n] = f
      BY <3>3, <3>4, <1>2
    <3> QED
      BY <3>2, <3>3, <3>4, <3>5, <1>5, <1>6, <1>3
  <2> QED
    BY <1>9, <2>1, <2>2
<1>10. before \cap ({f} \cup left) = {}
  <2> SUFFICES ASSUME NEW c \in alive, NEW b \in ToSet(Prefix(c, f)) \ {f}, b \in {f} \cup left
               PROVE  FALSE
    OBVIOUS
  <2>1. PICK i \in 1 .. n : b = c[i] /\ c[i] # f
    BY <1>7
  <2>2. i \in DOMAIN c /\ c \in chains
    BY <1>2, <1>3
  <2>3. i >= n
    BY <1>9, <2>1, <2>2
  <2>4. i = n
    BY <2>3, <1>6
  <2> QED
    BY <2>1, <2>4, <1>2
<1>11. dead \cap ({f} \cup left) = {}
  BY <1>9 DEF ToSet
<1>12. before \subseteq Blocks(chains)
  <2> SUFFICES ASSUME NEW c \in alive, NEW b \in ToSet(Prefix(c, f))
               PROVE  b \in Blocks(chains)
    OBVIOUS
  <2>1. PICK i \in 1 .. n : b = c[i]
    BY <1>7
  <2>2. i \in DOMAIN c /\ c \in chains
    BY <1>2, <1>3
  <2> QED
    BY <2>1, <2>2, BlocksAreStored
<1>13. dead \subseteq Blocks(chains)
  BY BlocksAreStored DEF ToSet
<1>14. ASSUME NEW b \in Blocks(chains), b \notin {f} \cup left
       PROVE  b \in before \cup dead
  <2>1. PICK c \in chains : \E i \in DOMAIN c : b = c[i]
    BY DEF Blocks
  <2>2. PICK i \in DOMAIN c : b = c[i]
    BY <2>1
  <2>3. CASE Contains(c, f)
    <3>1. ~(i > n)
      BY <2>2, <2>3, <1>4, <1>14
    <3>2. i \in 1 .. n
      BY <3>1, <1>3, <1>6
    <3> QED
      BY <3>2, <2>2, <2>3, <1>7, <1>14
  <2>4. CASE ~Contains(c, f)
    BY <2>4, <2>2 DEF ToSet
  <2> QED
    BY <2>3, <2>4
<1>15. Prunable(chains, f) = {lastFinalized} \cup before \cup dead
  BY DEF Prunable
<1> HIDE DEF before, dead
<1> QED
  BY <1>8, <1>10, <1>11, <1>12, <1>13, <1>14, <1>15 DEF left

(* The inductive invariant *)

\* Every block that descends from the finalized one is in a chain, and none of
\* them is pruned; the best block is a leaf, so that a restart, which makes it
\* the finalized one, need not follow anything above it.
IInv ==
    /\ IsTree(parent, Lineage)
    /\ ChainsAbove(parent, Lineage, lastFinalized, unfinalized)
    /\ pruned \subseteq Imported
    /\ pruned \cap ({lastFinalized} \cup Blocks(unfinalized)) = {}
    /\ best \in Imported \ pruned
    /\ \A b \in Imported : best \in Lineage[b] => b = best
    /\ restarts \in Nat
    /\ restarts = 0 => Surviving \subseteq {lastFinalized} \cup Blocks(unfinalized)
    /\ finality # NoFinality => finality.finalizedHash = lastFinalized
    /\ ChainsAreShort

\* Before any import there is the genesis block.
LEMMA InitialTree ==
  ASSUME FinalizerInit
  PROVE  /\ IsTree(parent, Lineage) /\ Imported = {Genesis} /\ Lineage[Genesis] = {Genesis}
<1> DEFINE All == Block \cup {NotImported}
           f0 == [b \in All |-> IF b \in {Genesis, NotImported} THEN {b} ELSE {b, NotImported}]
<1>1. parent = [h \in Header |-> NotImported] /\ Genesis # NotImported /\ Genesis \notin Header /\ NotImported \notin Header
  BY GenesisAssumption DEF FinalizerInit
<1>2. StoredIn(parent) = {Genesis}
  BY <1>1 DEF StoredIn
<1>3. IsLineage(parent, f0)
  <2>1. \A b \in All : f0[b] = IF b \in {Genesis, NotImported} THEN {b} ELSE {b} \cup f0[parent[b]]
    BY <1>1 DEF Block
  <2>2. f0 = [b \in All |-> f0[b]]
    OBVIOUS
  <2> HIDE DEF f0
  <2> QED
    BY <2>1, <2>2 DEF IsLineage
<1>4. ASSUME NEW f, IsLineage(parent, f)
      PROVE  f = f0
  <2>1. f = [b \in All |-> IF b \in {Genesis, NotImported} THEN {b} ELSE {b} \cup f[parent[b]]]
    BY <1>4 DEF IsLineage
  <2>2. f[NotImported] = {NotImported}
    BY <2>1
  <2>3. \A b \in All : f[b] = f0[b]
    BY <2>1, <2>2, <1>1 DEF Block
  <2> QED
    BY <2>1, <2>3
<1>5. Lineage = f0
  BY <1>3, <1>4, LineageIsChosen
<1>6. f0[Genesis] = {Genesis}
  BY DEF Block
<1> HIDE DEF f0
<1>7. IsTree(parent, f0)
  BY <1>1, <1>2, <1>3, <1>4, <1>6 DEF IsTree
<1> QED
  BY <1>2, <1>5, <1>6, <1>7, ImportedIsStored

\* It holds when the database is new.
LEMMA InitIInv == FinalizerInit => IInv
<1> SUFFICES ASSUME FinalizerInit
             PROVE  IInv
  OBVIOUS
<1>1. IsTree(parent, Lineage) /\ Imported = {Genesis} /\ Lineage[Genesis] = {Genesis} /\ StoredIn(parent) = {Genesis}
  BY InitialTree, ImportedIsStored
<1>2. Blocks(unfinalized) = {}
  BY DEF FinalizerInit, Blocks
<1>3. ChainsAbove(parent, Lineage, lastFinalized, unfinalized)
  BY <1>1, <1>2 DEF FinalizerInit, ChainsAbove, AreBranches
<1>4. ChainsAreShort
  BY DEF FinalizerInit, ChainsAreShort
<1> QED
  BY <1>1, <1>2, <1>3, <1>4 DEF FinalizerInit, IInv, Surviving

\* A block h is stored below p: what the tree and the chains are then.
LEMMA Importing ==
  ASSUME IInv, NEW h \in Header, parent[h] = NotImported, NEW p \in Surviving,
         parent' = [parent EXCEPT ![h] = p]
  PROVE  /\ IsTree(parent', Lineage')
         /\ Imported' = Imported \cup {h} /\ h \notin Imported
         /\ Lineage'[h] = {h} \cup Lineage[p]
         /\ \A b \in Imported : Lineage'[b] = Lineage[b] /\ h \notin Lineage[b]
         /\ Attachments(h, p) = {} =>
              /\ p \notin {lastFinalized} \cup Blocks(unfinalized)
              /\ ChainsAbove(parent', Lineage', lastFinalized, unfinalized)
         /\ \A a \in Attachments(h, p) :
              /\ ChainsAbove(parent', Lineage', lastFinalized, a.chains)
              /\ a.extended \in a.chains
              /\ a.extended[Len(a.extended)] = h
              /\ Blocks(a.chains) = Blocks(unfinalized) \cup {h}
              /\ ShortBut(a.chains, a.extended)
<1> DEFINE tree2 == WithLeaf(parent, h, p)
           line2 == WithAncestors(Lineage, h, p)
<1>1. IsTree(parent, Lineage) /\ ChainsAbove(parent, Lineage, lastFinalized, unfinalized)
  BY DEF IInv
<1>2. p \in StoredIn(parent) /\ Imported = StoredIn(parent)
  BY ImportedIsStored DEF Surviving
<1>3. /\ StoredIn(tree2) = StoredIn(parent) \cup {h}
      /\ h \notin StoredIn(parent)
      /\ \A b \in StoredIn(parent) : h \notin Lineage[b]
      /\ \A b \in StoredIn(parent) : line2[b] = Lineage[b]
      /\ line2[h] = {h} \cup Lineage[p]
      /\ IsTree(tree2, line2)
  BY <1>1, <1>2, TreeGrows
<1>4. parent' = tree2
  BY DEF WithLeaf
<1>5. Lineage' = line2
  <2>1. Lineage' = CHOOSE f : IsLineage(parent', f)
    BY DEF Lineage, IsLineage, Block
  <2> HIDE DEF tree2, line2
  <2>2. Lineage' = CHOOSE f : IsLineage(tree2, f)
    BY <2>1, <1>4, Zenon
  <2>3. \A f : IsLineage(tree2, f) <=> f = line2
    BY <1>3 DEF IsTree
  <2>4. IsLineage(tree2, CHOOSE f : IsLineage(tree2, f))
    BY <2>3, Zenon
  <2> QED
    BY <2>2, <2>3, <2>4, Zenon
<1>6. Imported' = StoredIn(tree2)
  BY <1>4 DEF Imported, StoredIn
<1>7. ASSUME Attachments(h, p) = {}
      PROVE  /\ p \notin {lastFinalized} \cup Blocks(unfinalized)
             /\ ChainsAbove(tree2, line2, lastFinalized, unfinalized)
  <2>1. \A c \in unfinalized : c \in Seq(Header)
    BY <1>1, ChainShape
  <2>2. p \notin {lastFinalized} \cup Blocks(unfinalized)
    BY <2>1, <1>7, OrphansAttachNowhere
  <2> QED
    BY <2>2, <1>1, <1>2, OrphanGrows
<1>8. ASSUME NEW a \in Attachments(h, p)
      PROVE  /\ ChainsAbove(tree2, line2, lastFinalized, a.chains)
             /\ a.extended \in a.chains
             /\ a.extended[Len(a.extended)] = h
             /\ Blocks(a.chains) = Blocks(unfinalized) \cup {h}
             /\ ShortBut(a.chains, a.extended)
  <2>1. Attaches(a, h, p)
    BY <1>1, <1>2, AttachmentsAttach
  <2>2. PICK kept \in SUBSET unfinalized :
            /\ a.chains = kept \cup {a.extended}
            /\ EndsWith(a.extended, h, p, lastFinalized, unfinalized)
            /\ \A d \in kept : d[Len(d)] # p
            /\ Blocks(a.chains) = Blocks(unfinalized) \cup {h}
    BY <2>1 DEF Attaches
  <2>3. ChainsAbove(tree2, line2, lastFinalized, kept \cup {a.extended})
    BY <2>2, <1>1, <1>2, BranchGrows
  <2>4. a.extended[Len(a.extended)] = h
    BY <2>2 DEF EndsWith
  <2>5. ShortBut(a.chains, a.extended)
    BY <2>1, <1>1, AttachedChains DEF IInv
  <2> QED
    BY <2>2, <2>3, <2>4, <2>5
<1>9. h \notin Imported /\ Imported' = Imported \cup {h}
  BY <1>2, <1>3, <1>6
<1>10. \A b \in Imported : Lineage'[b] = Lineage[b] /\ h \notin Lineage[b]
  BY <1>2, <1>3, <1>5
<1> HIDE DEF tree2, line2
<1>11. IsTree(parent', Lineage') /\ Lineage'[h] = {h} \cup Lineage[p]
  BY <1>3, <1>4, <1>5, Zenon
<1>12. Attachments(h, p) = {} =>
         /\ p \notin {lastFinalized} \cup Blocks(unfinalized)
         /\ ChainsAbove(parent', Lineage', lastFinalized, unfinalized)
  BY <1>4, <1>5, <1>7, Zenon
<1>13. \A a \in Attachments(h, p) :
         /\ ChainsAbove(parent', Lineage', lastFinalized, a.chains)
         /\ a.extended \in a.chains
         /\ a.extended[Len(a.extended)] = h
         /\ Blocks(a.chains) = Blocks(unfinalized) \cup {h}
         /\ ShortBut(a.chains, a.extended)
  BY <1>4, <1>5, <1>8, Zenon
<1> QED
  BY <1>9, <1>10, <1>11, <1>12, <1>13, Zenon

\* The chains that go on when f is finalized are those through f.
Through(chains, f) == {c \in chains : Contains(c, f)}

\* The chain e is deep enough, so its block f becomes finalized.
LEMMA Finalizing ==
  ASSUME NEW tree, NEW line, IsTree(tree, line), NEW chains, NEW e \in chains,
         ChainsAbove(tree, line, lastFinalized, chains), IsDeepEnough(e)
  PROVE  LET n == Len(e) - Depth
             f == NewlyFinalized(e)
             alive == Through(chains, f)
         IN  /\ f \in Blocks(chains) /\ n \in 1 .. Len(e) - 1 /\ f = e[n]
             /\ ChainsAbove(tree, line, f, Remaining(alive, f))
             /\ Prunable(chains, f) =
                  ({lastFinalized} \cup Blocks(chains)) \ ({f} \cup Blocks(Remaining(alive, f)))
             /\ {f} \cup Blocks(Remaining(alive, f)) \subseteq Blocks(chains)
             /\ e[Len(e)] \in Blocks(Remaining(alive, f))
             /\ e \in alive
             /\ \A c \in alive : Prefix(c, f) = SubSeq(e, 1, n)
<1> DEFINE n == Len(e) - Depth
           f == NewlyFinalized(e)
           alive == Through(chains, f)
<1> SUFFICES /\ f \in Blocks(chains) /\ n \in 1 .. Len(e) - 1 /\ f = e[n]
             /\ ChainsAbove(tree, line, f, Remaining(alive, f))
             /\ Prunable(chains, f) =
                  ({lastFinalized} \cup Blocks(chains)) \ ({f} \cup Blocks(Remaining(alive, f)))
             /\ {f} \cup Blocks(Remaining(alive, f)) \subseteq Blocks(chains)
             /\ e[Len(e)] \in Blocks(Remaining(alive, f))
             /\ e \in alive
             /\ \A c \in alive : Prefix(c, f) = SubSeq(e, 1, n)
  OBVIOUS
<1>0. n = Len(e) - Depth /\ f = NewlyFinalized(e) /\ alive = {c \in chains : Contains(c, f)}
  BY DEF Through
<1> HIDE DEF n, f, alive
<1>1. /\ n \in 1 .. Len(e) - 1 /\ e[n] = f /\ f \in Header
      /\ \A c \in chains : Contains(c, f) =>
           n \in DOMAIN c /\ c[n] = f /\ Position(c, f) = n /\ \A k \in 1 .. n : c[k] = e[k]
      /\ \A c \in chains : \A i \in DOMAIN c : c[i] = f => Contains(c, f)
  BY <1>0, FinalizedPosition
<1>2. \A c \in chains : /\ c \in Seq(Header) /\ Len(c) \in Nat /\ Len(c) >= 1 /\ DOMAIN c = 1 .. Len(c)
                        /\ \A i \in DOMAIN c : c[i] \in StoredIn(tree) /\ c[i] \in Header
  BY ChainShape
<1>3. n \in DOMAIN e /\ Len(e) \in DOMAIN e /\ Len(e) > n
  BY <1>1, <1>2
<1>4. f \in Blocks(chains) /\ e \in alive
  BY <1>0, <1>1, <1>3, BlocksAreStored
<1>5. ChainsAbove(tree, line, f, Remaining(alive, f))
  BY <1>0, RemainingAreBranches
<1>6. Prunable(chains, f) =
        ({lastFinalized} \cup Blocks(chains)) \ ({f} \cup Blocks(Remaining(alive, f)))
  BY <1>0, PrunableIsTheRest
<1>7. /\ \A c \in alive : \A i \in DOMAIN c : i > n => c[i] \in Blocks(Remaining(alive, f))
      /\ \A b \in Blocks(Remaining(alive, f)) : \E c \in alive : \E i \in DOMAIN c : i > n /\ b = c[i]
  BY <1>0, AfterFinalized
<1>8. e[Len(e)] \in Blocks(Remaining(alive, f))
  BY <1>3, <1>4, <1>7
<1>9. Blocks(Remaining(alive, f)) \subseteq Blocks(chains)
  BY <1>0, <1>7, BlocksAreStored
<1>10. ASSUME NEW c \in alive
       PROVE  Prefix(c, f) = SubSeq(e, 1, n)
  <2>1. c \in Seq(Header) /\ Position(c, f) = n /\ n \in 0 .. Len(c) /\ \A k \in 1 .. n : c[k] = e[k]
    BY <1>0, <1>1, <1>2
  <2>2. e \in Seq(Header) /\ n \in 0 .. Len(e)
    BY <1>2, <1>3
  <2>3. /\ SubSeq(c, 1, n) \in Seq(Header) /\ Len(SubSeq(c, 1, n)) = n
        /\ \A i \in 1 .. n : SubSeq(c, 1, n)[i] = c[i]
    BY <2>1, PrefixFacts, Zenon
  <2>4. /\ SubSeq(e, 1, n) \in Seq(Header) /\ Len(SubSeq(e, 1, n)) = n
        /\ \A i \in 1 .. n : SubSeq(e, 1, n)[i] = e[i]
    BY <2>2, PrefixFacts, Zenon
  <2>5. SubSeq(c, 1, n) = SubSeq(e, 1, n)
    BY <2>1, <2>3, <2>4, SeqEqual
  <2> QED
    BY <2>1, <2>5 DEF Prefix
<1> QED
  BY <1>1, <1>4, <1>5, <1>6, <1>8, <1>9, <1>10

\* What is left of the chains when one was long enough is half of them.
LEMMA RemainingAreShort ==
  ASSUME NEW tree, NEW line, IsTree(tree, line), NEW chains, NEW e \in chains,
         ChainsAbove(tree, line, lastFinalized, chains), IsDeepEnough(e), ShortBut(chains, e)
  PROVE  LET f == NewlyFinalized(e)
         IN  /\ Len(e) = 2 * Depth + 1
             /\ \A r \in Remaining(Through(chains, f), f) : Len(r) <= 2 * Depth
<1> DEFINE n == Len(e) - Depth
           f == NewlyFinalized(e)
<1>1. \A c \in chains : Len(c) \in Nat /\ Len(c) <= 2 * Depth + 1
  BY ChainShape DEF ShortBut
<1>2. Len(e) = 2 * Depth + 1 /\ n = Depth + 1
  BY <1>1, DepthAssumption DEF IsDeepEnough
<1>3. ASSUME NEW c \in chains, Contains(c, f)
      PROVE  Len(Rest(c, f)) <= 2 * Depth
  <2>1. Len(Rest(c, f)) = Len(c) - n
    BY <1>3, RestOfChain
  <2> QED
    BY <2>1, <1>1, <1>2, DepthAssumption
<1> QED
  BY <1>2, <1>3 DEF Remaining, Through

\* An import keeps the invariant, whether or not finality moves.
LEMMA ImportIInv ==
  ASSUME IInv, NEW h \in Header, OnBlockImported(h)
  PROVE  IInv'
<1>1. parent[h] = NotImported /\ best' = h /\ restarts' = restarts
  BY DEF OnBlockImported
<1>2. PICK p \in Surviving :
        /\ parent' = [parent EXCEPT ![h] = p]
        /\ \/ \E a \in Attachments(h, p) : Settle(a.chains, a.extended)
           \/ /\ Attachments(h, p) = {}
              /\ finality' = NoFinality
              /\ UNCHANGED <<lastFinalized, unfinalized, pruned>>
  BY DEF OnBlockImported
<1>3. /\ IsTree(parent', Lineage')
      /\ Imported' = Imported \cup {h} /\ h \notin Imported
      /\ Lineage'[h] = {h} \cup Lineage[p]
      /\ \A b \in Imported : Lineage'[b] = Lineage[b] /\ h \notin Lineage[b]
      /\ Attachments(h, p) = {} =>
           /\ p \notin {lastFinalized} \cup Blocks(unfinalized)
           /\ ChainsAbove(parent', Lineage', lastFinalized, unfinalized)
      /\ \A a \in Attachments(h, p) :
           /\ ChainsAbove(parent', Lineage', lastFinalized, a.chains)
           /\ a.extended \in a.chains
           /\ a.extended[Len(a.extended)] = h
           /\ Blocks(a.chains) = Blocks(unfinalized) \cup {h}
           /\ ShortBut(a.chains, a.extended)
  BY <1>1, <1>2, Importing
<1>4. /\ pruned \subseteq Imported
      /\ pruned \cap ({lastFinalized} \cup Blocks(unfinalized)) = {}
      /\ restarts \in Nat
      /\ restarts = 0 => Surviving \subseteq {lastFinalized} \cup Blocks(unfinalized)
  BY DEF IInv
<1>5. \A b \in Imported' : best' \in Lineage'[b] => b = best'
  BY <1>1, <1>3
<1>6. lastFinalized \in Imported /\ Blocks(unfinalized) \subseteq Imported
  <2>1. IsTree(parent, Lineage) /\ ChainsAbove(parent, Lineage, lastFinalized, unfinalized)
    BY DEF IInv
  <2> QED
    BY <2>1, BlocksAreStored, ImportedIsStored DEF ChainsAbove
<1>7. Surviving' = (Imported \cup {h}) \ pruned'
  BY <1>3 DEF Surviving
<1>8. CASE Attachments(h, p) = {}
  <2>1. finality' = NoFinality /\ lastFinalized' = lastFinalized /\ unfinalized' = unfinalized /\ pruned' = pruned
    BY <1>2, <1>8
  <2>2. restarts # 0
    BY <1>3, <1>4, <1>8
  <2>3. ChainsAreShort'
    BY <2>1 DEF IInv, ChainsAreShort
  <2> QED
    BY <2>1, <2>2, <2>3, <1>1, <1>3, <1>4, <1>5, <1>8 DEF IInv
<1>9. ASSUME NEW a \in Attachments(h, p), Settle(a.chains, a.extended)
      PROVE  IInv'
  <2> DEFINE chains == a.chains
             e == a.extended
  <2>1. /\ ChainsAbove(parent', Lineage', lastFinalized, chains)
        /\ e \in chains /\ e[Len(e)] = h
        /\ Blocks(chains) = Blocks(unfinalized) \cup {h}
        /\ ShortBut(chains, e)
    BY <1>3
  <2> HIDE DEF chains, e
  <2>2. CASE ~IsDeepEnough(e)
    <3>1. finality' = NoFinality /\ lastFinalized' = lastFinalized /\ unfinalized' = chains /\ pruned' = pruned
      BY <2>2, <1>9 DEF Settle, chains, e
    <3>2. Blocks(unfinalized') = Blocks(unfinalized) \cup {h}
      BY <2>1, <3>1
    <3>3. restarts = 0 => Surviving' \subseteq {lastFinalized} \cup Blocks(unfinalized) \cup {h}
      BY <1>4, <1>7, <3>1 DEF Surviving
    <3>4. pruned' \cap ({lastFinalized} \cup Blocks(unfinalized) \cup {h}) = {} /\ best' \notin pruned'
      BY <1>1, <1>3, <1>4, <3>1
    <3>5. ChainsAreShort'
      <4>1. Len(e) \in Nat
        BY <1>3, <2>1, ChainShape
      <4>2. Len(e) <= 2 * Depth
        BY <4>1, <2>2, DepthAssumption DEF IsDeepEnough
      <4> QED
        BY <4>2, <2>1, <3>1 DEF ShortBut, ChainsAreShort
    <3> QED
      BY <3>1, <3>2, <3>3, <3>4, <3>5, <2>1, <1>1, <1>3, <1>4, <1>5 DEF IInv
  <2>3. CASE IsDeepEnough(e)
    <3> DEFINE f == NewlyFinalized(e)
               alive == Through(chains, f)
               left == Remaining(alive, f)
    <3>1. /\ lastFinalized' = f
          /\ unfinalized' = left
          /\ finality' = [finalizedHash |-> f,
                          finalizedChain |-> Prefix(e, f),
                          newlyFinalizedHeaders |-> Committed(alive, f),
                          prunableStateHashes |-> Prunable(chains, f)]
          /\ pruned' = pruned \cup Prunable(chains, f)
      BY <2>3, <1>9 DEF Settle, Through, chains, e
    <3>2. /\ f \in Blocks(chains)
          /\ ChainsAbove(parent', Lineage', f, left)
          /\ Prunable(chains, f) = ({lastFinalized} \cup Blocks(chains)) \ ({f} \cup Blocks(left))
          /\ {f} \cup Blocks(left) \subseteq Blocks(chains)
          /\ e[Len(e)] \in Blocks(left)
      BY <1>3, <2>1, <2>3, Finalizing
    <3>8. ChainsAreShort'
      BY <1>3, <2>1, <2>3, <3>1, RemainingAreShort DEF ChainsAreShort
    <3> HIDE DEF f, alive, left
    <3>3. finality'.finalizedHash = lastFinalized'
      BY <3>1
    <3>4. pruned' \cap ({f} \cup Blocks(left)) = {}
      BY <3>1, <3>2, <2>1, <1>3, <1>4
    <3>5. pruned' \subseteq Imported \cup {h}
      BY <3>1, <3>2, <2>1, <1>4, <1>6
    <3>6. restarts = 0 => Surviving' \subseteq {f} \cup Blocks(left)
      BY <3>1, <3>2, <2>1, <1>4, <1>7 DEF Surviving
    <3>7. best' \in Imported' \ pruned'
      BY <3>2, <3>4, <2>1, <1>1, <1>3
    <3> QED
      BY <3>1, <3>2, <3>3, <3>4, <3>5, <3>6, <3>7, <3>8, <1>1, <1>3, <1>4, <1>5 DEF IInv
  <2> QED
    BY <2>2, <2>3
<1> QED
  BY <1>2, <1>8, <1>9

\* A restart makes a leaf the finalized block.
LEMMA RestartIInv ==
  ASSUME IInv, Restart
  PROVE  IInv'
<1>1. /\ lastFinalized' = best /\ unfinalized' = {} /\ finality' = NoFinality /\ restarts' = restarts + 1
      /\ parent' = parent /\ best' = best /\ pruned' = pruned
  BY DEF Restart, dbVars
<1>2. Lineage' = Lineage /\ Imported' = Imported
  BY <1>1 DEF Lineage, Imported
<1>3. Blocks(unfinalized') = {}
  BY <1>1 DEF Blocks
<1>4. best \in Lineage[best]
  BY ImportedIsStored DEF IInv, IsTree
<1>5. ChainsAbove(parent', Lineage', lastFinalized', unfinalized')
  BY <1>1, <1>2, <1>3, <1>4, ImportedIsStored DEF IInv, ChainsAbove, AreBranches
<1>6. restarts' \in Nat /\ restarts' # 0 /\ ChainsAreShort'
  BY <1>1 DEF IInv, ChainsAreShort
<1> QED
  BY <1>1, <1>2, <1>3, <1>5, <1>6 DEF IInv

\* Every step keeps it.
LEMMA NextIInv == IInv /\ [FinalizerNext]_finalizerVars => IInv'
<1> SUFFICES ASSUME IInv, [FinalizerNext]_finalizerVars
             PROVE  IInv'
  OBVIOUS
<1>1. CASE Restart
  BY <1>1, RestartIInv
<1>2. ASSUME NEW h \in Header, OnBlockImported(h)
      PROVE  IInv'
  BY <1>2, ImportIInv
<1>3. CASE UNCHANGED finalizerVars
  <2>1. /\ parent' = parent /\ best' = best /\ lastFinalized' = lastFinalized /\ unfinalized' = unfinalized
        /\ finality' = finality /\ pruned' = pruned /\ restarts' = restarts
    BY <1>3 DEF finalizerVars
  <2>2. Lineage' = Lineage /\ Imported' = Imported /\ Surviving' = Surviving
    BY <2>1 DEF Lineage, Imported, Surviving
  <2>3. ChainsAreShort'
    BY <2>1 DEF IInv, ChainsAreShort
  <2> QED
    BY <2>1, <2>2, <2>3 DEF IInv
<1> QED
  BY <1>1, <1>2, <1>3 DEF FinalizerNext

\* It holds in every reachable state.
LEMMA InvariantHolds == FinalizerSpec => []IInv
<1>1. FinalizerInit => IInv
  BY InitIInv
<1>2. IInv /\ [FinalizerNext]_finalizerVars => IInv'
  BY NextIInv
<1> QED
  BY <1>1, <1>2, PTL DEF FinalizerSpec

(* Theorems *)

\* What is followed, as the invariant says it and as the properties say it.
LEMMA TrackedBlocks ==
  ASSUME IInv
  PROVE  Tracked = {lastFinalized} \cup Blocks(unfinalized)
<1>1. \A c \in unfinalized : \A i \in DOMAIN c : c[i] \in Header
  BY ChainShape DEF IInv
<1>2. (UNION {ToSet(c) : c \in unfinalized}) = Blocks(unfinalized)
  BY <1>1 DEF Blocks, ToSet
<1> QED
  BY <1>2 DEF Tracked

\* It implies the type invariant,
LEMMA IInvImpliesFinalizerTypeOK == IInv => FinalizerTypeOK
<1> SUFFICES ASSUME IInv
             PROVE  FinalizerTypeOK
  OBVIOUS
<1>1. IsTree(parent, Lineage) /\ ChainsAbove(parent, Lineage, lastFinalized, unfinalized)
  BY DEF IInv
<1>2. Imported \subseteq Block
  BY DEF Imported, Block
<1>3. lastFinalized \in Block
  BY <1>1, <1>2, ImportedIsStored DEF ChainsAbove
<1>4. ASSUME NEW c \in unfinalized
      PROVE  c \in Seq(Header \ {lastFinalized}) \ {<<>>}
  <2>1. c \in Seq(Header) /\ c # <<>> /\ Len(c) \in Nat /\ DOMAIN c = 1 .. Len(c)
    BY <1>1, ChainShape DEF ChainsAbove, IsPath
  <2>2. \A i \in 1 .. Len(c) : c[i] \in Header \ {lastFinalized}
    BY <1>1, <2>1, BlocksAreStored
  <2>3. c \in Seq(Header \ {lastFinalized})
    BY <2>1, <2>2
  <2> QED
    BY <2>1, <2>3
<1> QED
  BY <1>1, <1>2, <1>3, <1>4 DEF IInv, IsTree, FinalizerTypeOK

\* and what is said of pruning.
LEMMA IInvImpliesPruningIsExact == IInv => PruningIsExact
<1> SUFFICES ASSUME IInv
             PROVE  PruningIsExact
  OBVIOUS
<1>1. IsTree(parent, Lineage) /\ ChainsAbove(parent, Lineage, lastFinalized, unfinalized)
  BY DEF IInv
<1>2. Imported = StoredIn(parent)
  BY ImportedIsStored
<1>3. Tracked = {lastFinalized} \cup Blocks(unfinalized)
  BY TrackedBlocks
<1>4. \A c \in unfinalized :
        /\ c \in Seq(Header) /\ Len(c) \in Nat /\ Len(c) >= 1 /\ DOMAIN c = 1 .. Len(c)
  BY <1>1, ChainShape
<1>5. ChainsAreBranches
  <2>1. ASSUME NEW c \in unfinalized
        PROVE  parent[c[1]] = lastFinalized /\ \A i \in 2 .. Len(c) : parent[c[i]] = c[i - 1]
    <3>1. 1 \in DOMAIN c /\ \A i \in 2 .. Len(c) : i \in DOMAIN c /\ i # 1
      BY <1>4
    <3>2. IsPath(parent, Lineage, lastFinalized, c)
      BY <1>1 DEF ChainsAbove
    <3> QED
      BY <3>1, <3>2 DEF IsPath
  <2>2. ASSUME NEW c \in unfinalized, NEW d \in unfinalized, IsPrefix(c, d)
        PROVE  c = d
    <3> DEFINE n == Len(c)
    <3>1. n \in 1 .. n /\ n \in 0 .. Len(c) /\ n \in 0 .. Len(d) /\ SubSeq(c, 1, n) = SubSeq(d, 1, n)
      BY <1>4, <2>2 DEF IsPrefix
    <3>2. SubSeq(c, 1, n)[n] = c[n] /\ SubSeq(d, 1, n)[n] = d[n]
      BY <1>4, <3>1, PrefixFacts
    <3>3. c[n] = d[n] /\ n \in DOMAIN c /\ n \in DOMAIN d
      BY <1>4, <3>1, <3>2
    <3> QED
      BY <3>3, <1>1 DEF ChainsAbove, AreBranches
  <2> QED
    BY <2>1, <2>2 DEF ChainsAreBranches
<1>6. Tracked \subseteq Imported
  BY <1>1, <1>2, <1>3, BlocksAreStored DEF ChainsAbove
<1>7. NothingForgotten
  BY <1>3, <1>6 DEF IInv, NothingForgotten, Surviving
<1>8. BestSurvives
  BY DEF IInv, BestSurvives, Surviving
<1>9. DescendantsSurvive
  <2> SUFFICES ASSUME NEW b \in Imported, lastFinalized \in Lineage[b]
               PROVE  b \in Surviving
    BY DEF DescendantsSurvive
  <2>1. b \in {lastFinalized} \cup Blocks(unfinalized)
    BY <1>1, <1>2 DEF ChainsAbove
  <2> QED
    BY <2>1 DEF IInv, Surviving
<1> QED
  BY <1>5, <1>7, <1>8, <1>9 DEF IInv, PruningIsExact

\* The state of the finalizer has the shape finality.ts gives it.
THEOREM TypeCorrect == FinalizerSpec => []FinalizerTypeOK
  BY InvariantHolds, IInvImpliesFinalizerTypeOK, PTL

\* Pruning gives up every state that no later import can need, and no other.
THEOREM PruningCorrect == FinalizerSpec => []PruningIsExact
  BY InvariantHolds, IInvImpliesPruningIsExact, PTL

(* A step that moves finality *)

\* What is known of the step that finalizes a block of the chain e.
MovesFinality(h, p, chains, e) ==
    LET n == Len(e) - Depth
        f == NewlyFinalized(e)
        alive == Through(chains, f)
    IN  /\ parent' = [parent EXCEPT ![h] = p]
        /\ best' = h
        /\ IsTree(parent', Lineage')
        /\ ChainsAbove(parent', Lineage', lastFinalized, chains)
        /\ Blocks(chains) = Blocks(unfinalized) \cup {h}
        /\ e \in alive
        /\ e[Len(e)] = h
        /\ Len(e) = 2 * Depth + 1
        /\ n \in 1 .. Len(e) - 1 /\ f = e[n] /\ f \in Blocks(chains)
        /\ \A c \in alive : Prefix(c, f) = SubSeq(e, 1, n)
        /\ lastFinalized' = f
        /\ finality' = [finalizedHash |-> f,
                        finalizedChain |-> Prefix(e, f),
                        newlyFinalizedHeaders |-> Committed(alive, f),
                        prunableStateHashes |-> Prunable(chains, f)]

\* An import moves finality that way, or not at all.
LEMMA ImportMovesFinality ==
  ASSUME IInv, NEW h \in Header, OnBlockImported(h)
  PROVE  /\ h \notin pruned /\ parent[h] = NotImported /\ restarts' = restarts
         /\ \E p \in Surviving :
              \/ /\ parent' = [parent EXCEPT ![h] = p]
                 /\ finality' = NoFinality
                 /\ UNCHANGED <<lastFinalized, pruned>>
              \/ \E chains : \E e \in chains : MovesFinality(h, p, chains, e)
<1>1. parent[h] = NotImported /\ best' = h /\ restarts' = restarts
  BY DEF OnBlockImported
<1>2. PICK p \in Surviving :
        /\ parent' = [parent EXCEPT ![h] = p]
        /\ \/ \E a \in Attachments(h, p) : Settle(a.chains, a.extended)
           \/ /\ Attachments(h, p) = {}
              /\ finality' = NoFinality
              /\ UNCHANGED <<lastFinalized, unfinalized, pruned>>
  BY DEF OnBlockImported
<1>3. /\ IsTree(parent', Lineage') /\ h \notin Imported
      /\ \A a \in Attachments(h, p) :
           /\ ChainsAbove(parent', Lineage', lastFinalized, a.chains)
           /\ a.extended \in a.chains
           /\ a.extended[Len(a.extended)] = h
           /\ Blocks(a.chains) = Blocks(unfinalized) \cup {h}
           /\ ShortBut(a.chains, a.extended)
  BY <1>1, <1>2, Importing
<1>4. h \notin pruned
  BY <1>3 DEF IInv
<1>5. CASE Attachments(h, p) = {}
  BY <1>1, <1>2, <1>4, <1>5
<1>6. ASSUME NEW a \in Attachments(h, p), Settle(a.chains, a.extended)
      PROVE  \/ finality' = NoFinality /\ UNCHANGED <<lastFinalized, pruned>>
             \/ \E chains : \E e \in chains : MovesFinality(h, p, chains, e)
  <2> DEFINE chains == a.chains
             e == a.extended
             f == NewlyFinalized(e)
             alive == Through(chains, f)
  <2>1. /\ ChainsAbove(parent', Lineage', lastFinalized, chains)
        /\ e \in chains /\ e[Len(e)] = h
        /\ Blocks(chains) = Blocks(unfinalized) \cup {h}
        /\ ShortBut(chains, e)
    BY <1>3
  <2>2. CASE ~IsDeepEnough(e)
    BY <2>2, <1>6 DEF Settle
  <2>3. CASE IsDeepEnough(e)
    <3>1. /\ lastFinalized' = f
          /\ finality' = [finalizedHash |-> f,
                          finalizedChain |-> Prefix(e, f),
                          newlyFinalizedHeaders |-> Committed(alive, f),
                          prunableStateHashes |-> Prunable(chains, f)]
      BY <2>3, <1>6 DEF Settle, Through
    <3> HIDE DEF chains, e
    <3>2. /\ f \in Blocks(chains) /\ Len(e) - Depth \in 1 .. Len(e) - 1 /\ f = e[Len(e) - Depth]
          /\ e \in alive
          /\ \A c \in alive : Prefix(c, f) = SubSeq(e, 1, Len(e) - Depth)
      BY <1>3, <2>1, <2>3, Finalizing
    <3>3. Len(e) = 2 * Depth + 1
      BY <1>3, <2>1, <2>3, RemainingAreShort
    <3>4. MovesFinality(h, p, chains, e)
      BY <1>1, <1>2, <1>3, <2>1, <3>1, <3>2, <3>3 DEF MovesFinality
    <3> QED
      BY <3>4, <2>1
  <2> QED
    BY <2>2, <2>3
<1> QED
  BY <1>1, <1>2, <1>4, <1>5, <1>6

\* What such a step reports is the path it finalizes.
LEMMA MovingCommits ==
  ASSUME IInv, NEW h \in Header, h \notin pruned, NEW p, NEW chains, NEW e \in chains,
         MovesFinality(h, p, chains, e)
  PROVE  CommittingStep
<1> DEFINE n == Len(e) - Depth
           f == NewlyFinalized(e)
           alive == Through(chains, f)
           new == finality'.newlyFinalizedHeaders
<1>1. /\ IsTree(parent', Lineage')
      /\ ChainsAbove(parent', Lineage', lastFinalized, chains)
      /\ Blocks(chains) = Blocks(unfinalized) \cup {h}
      /\ e \in alive
      /\ n \in 1 .. Len(e) - 1 /\ f = e[n] /\ n = Depth + 1
      /\ \A c \in alive : Prefix(c, f) = SubSeq(e, 1, n)
      /\ lastFinalized' = f
      /\ finality'.finalizedChain = Prefix(e, f)
      /\ new = Committed(alive, f)
  BY DepthAssumption DEF MovesFinality
<1> HIDE DEF n, f, alive, new
<1>2. e \in Seq(Header) /\ Len(e) \in Nat /\ DOMAIN e = 1 .. Len(e) /\ n \in 0 .. Len(e) /\ n \in Nat /\ n >= 1
  <2>1. e \in Seq(Header) /\ Len(e) \in Nat /\ DOMAIN e = 1 .. Len(e)
    BY <1>1, ChainShape
  <2> QED
    BY <2>1, <1>1
<1>3. new = SubSeq(e, 1, n) /\ finality'.finalizedChain = SubSeq(e, 1, n)
  BY <1>1 DEF Committed
<1>4. Len(new) = n /\ DOMAIN new = 1 .. n /\ \A i \in 1 .. n : new[i] = e[i]
  BY <1>2, <1>3, PrefixFacts
<1>5. Last(new) = f
  BY <1>1, <1>2, <1>4 DEF Last
<1>6. \A i \in 1 .. n : i \in DOMAIN e
  BY <1>1, <1>2
<1>7. IsPath(parent', Lineage', lastFinalized, e)
  BY <1>1 DEF ChainsAbove
<1>8. parent'[new[1]] = lastFinalized
  BY <1>2, <1>4, <1>6, <1>7 DEF IsPath
<1>9. ASSUME NEW i \in 2 .. Len(new)
      PROVE  parent'[new[i]] = new[i - 1]
  <2>1. i \in 1 .. n /\ i - 1 \in 1 .. n /\ i # 1
    BY <1>2, <1>4
  <2> QED
    BY <2>1, <1>4, <1>6, <1>7 DEF IsPath
<1>10. ToSet(new) \cap pruned = {}
  <2> SUFFICES ASSUME NEW i \in 1 .. n, e[i] \in pruned
               PROVE  FALSE
    BY <1>4 DEF ToSet
  <2>1. e[i] \in Blocks(unfinalized) \cup {h}
    BY <1>1, <1>6, BlocksAreStored
  <2> QED
    BY <2>1 DEF IInv
<1> QED
  BY <1>1, <1>3, <1>4, <1>5, <1>8, <1>9, <1>10 DEF CommittingStep, new

\* The last blocks of a path without repetition are as many as their places.
LEMMA BlocksAfter ==
  ASSUME NEW e \in Seq(Header), NEW n \in 1 .. Len(e),
         \A i, j \in DOMAIN e : e[i] = e[j] => i = j
  PROVE  Cardinality({e[i] : i \in n + 1 .. Len(e)}) = Len(e) - n
<1> DEFINE S == n + 1 .. Len(e)
           T == {e[i] : i \in S}
           f == [i \in S |-> e[i]]
<1>1. Len(e) \in Nat /\ n \in Nat /\ n <= Len(e) /\ \A i \in S : i \in DOMAIN e
  OBVIOUS
<1>2. IsFiniteSet(S) /\ Cardinality(S) = Len(e) - n
  <2>1. n + 1 \in Int /\ Len(e) \in Int /\ (n + 1 > Len(e) <=> Len(e) = n)
    BY <1>1
  <2>2. IsFiniteSet(S) /\ Cardinality(S) = IF n + 1 > Len(e) THEN 0 ELSE Len(e) - (n + 1) + 1
    BY <2>1, FS_Interval
  <2> QED
    BY <2>1, <2>2, <1>1
<1> HIDE DEF S
<1>3. f \in [S -> T] /\ (\A i, j \in S : f[i] = f[j] => i = j) /\ \A t \in T : \E i \in S : f[i] = t
  BY <1>1
<1>4. f \in Bijection(S, T)
  BY <1>3 DEF Bijection, Injection, Surjection, IsInjective
<1>5. ExistsBijection(S, T)
  BY <1>4 DEF ExistsBijection
<1>6. Cardinality(T) = Cardinality(S)
  BY <1>2, <1>5, FS_Bijection
<1> QED
  BY <1>2, <1>6 DEF S

\* Such a step finalizes a descendant that has Depth blocks on top.
LEMMA MovingAdvances ==
  ASSUME NEW h \in Header, NEW p, NEW chains, NEW e \in chains,
         MovesFinality(h, p, chains, e)
  PROVE  AdvancingStep
<1> DEFINE n == Len(e) - Depth
           f == NewlyFinalized(e)
<1>1. /\ best' = h
      /\ IsTree(parent', Lineage')
      /\ ChainsAbove(parent', Lineage', lastFinalized, chains)
      /\ e[Len(e)] = h
      /\ n \in 1 .. Len(e) - 1 /\ f = e[n] /\ f \in Blocks(chains)
      /\ lastFinalized' = f
  BY DEF MovesFinality
<1>2. e \in Seq(Header) /\ Len(e) \in Nat /\ DOMAIN e = 1 .. Len(e) /\ n \in 1 .. Len(e) /\ n \in DOMAIN e /\ Len(e) \in DOMAIN e
  <2>1. e \in Seq(Header) /\ Len(e) \in Nat /\ DOMAIN e = 1 .. Len(e)
    BY <1>1, ChainShape
  <2> QED
    BY <2>1, <1>1
<1>3. Len(e) - n = Depth
  BY <1>2, DepthAssumption
<1> HIDE DEF n, f
<1>4. lastFinalized \in Lineage'[f]
  <2>1. f \in StoredIn(parent')
    BY <1>1, BlocksAreStored
  <2> QED
    BY <2>1, <1>1 DEF ChainsAbove
<1>5. IsPath(parent', Lineage', lastFinalized, e)
  BY <1>1 DEF ChainsAbove
<1>6. \A i, j \in DOMAIN e : e[i] = e[j] => i = j
  BY <1>1 DEF ChainsAbove, AreBranches
<1>7. Lineage'[h] \ Lineage'[f] = {e[i] : i \in n + 1 .. Len(e)}
  <2>1. Lineage'[h] = Lineage'[lastFinalized] \cup {e[i] : i \in 1 .. Len(e)}
    BY <1>1, <1>2, <1>5 DEF IsPath
  <2>2. Lineage'[f] = Lineage'[lastFinalized] \cup {e[i] : i \in 1 .. n}
    BY <1>1, <1>2, <1>5 DEF IsPath
  <2>3. \A i \in 1 .. Len(e) : e[i] \notin Lineage'[lastFinalized]
    BY <1>2, <1>5 DEF IsPath
  <2>4. \A i \in n + 1 .. Len(e) : i \in 1 .. Len(e) /\ i \notin 1 .. n
    BY <1>2
  <2>5. \A i \in 1 .. n : i \in 1 .. Len(e) /\ i \notin n + 1 .. Len(e)
    BY <1>2
  <2>6. \A i \in 1 .. Len(e) : i \in 1 .. n \/ i \in n + 1 .. Len(e)
    BY <1>2
  <2>7. ASSUME NEW i \in n + 1 .. Len(e)
        PROVE  e[i] \in Lineage'[h] \ Lineage'[f]
    <3>1. \A j \in 1 .. n : e[i] # e[j]
      BY <2>4, <2>5, <1>2, <1>6
    <3> QED
      BY <3>1, <2>1, <2>2, <2>3, <2>4
  <2>8. ASSUME NEW b \in Lineage'[h] \ Lineage'[f]
        PROVE  b \in {e[i] : i \in n + 1 .. Len(e)}
    <3>1. PICK i \in 1 .. Len(e) : b = e[i]
      BY <2>1, <2>2
    <3> QED
      BY <3>1, <2>2, <2>6
  <2> QED
    BY <2>7, <2>8
<1>8. Cardinality(Lineage'[best'] \ Lineage'[lastFinalized']) = Depth
  BY <1>1, <1>2, <1>3, <1>6, <1>7, BlocksAfter
<1> QED
  BY <1>1, <1>4, <1>8 DEF AdvancingStep

\* Every step reports the path, or nothing.
LEMMA NextCommits == IInv /\ [FinalizerNext]_finalizerVars => [CommittingStep]_finalizerVars
<1> SUFFICES ASSUME IInv, FinalizerNext
             PROVE  CommittingStep
  OBVIOUS
<1>1. CASE Restart
  BY <1>1 DEF Restart, CommittingStep
<1>2. ASSUME NEW h \in Header, OnBlockImported(h)
      PROVE  CommittingStep
  <2>1. CASE finality' = NoFinality
    BY <2>1 DEF CommittingStep
  <2>2. CASE finality' # NoFinality
    <3>1. h \notin pruned /\ \E p \in Surviving : \E chains : \E e \in chains : MovesFinality(h, p, chains, e)
      BY <1>2, <2>2, ImportMovesFinality
    <3> QED
      BY <3>1, MovingCommits
  <2> QED
    BY <2>1, <2>2
<1> QED
  BY <1>1, <1>2 DEF FinalizerNext

\* Every step moves finality forward, or not, or is a restart.
LEMMA NextAdvances == IInv /\ [FinalizerNext]_finalizerVars => [AdvancingStep]_finalizerVars
<1> SUFFICES ASSUME IInv, FinalizerNext
             PROVE  AdvancingStep
  OBVIOUS
<1>1. CASE Restart
  <2>1. restarts' # restarts
    BY <1>1 DEF Restart, IInv
  <2> QED
    BY <2>1 DEF AdvancingStep
<1>2. ASSUME NEW h \in Header, OnBlockImported(h)
      PROVE  AdvancingStep
  <2>1. CASE lastFinalized' = lastFinalized
    BY <2>1 DEF AdvancingStep
  <2>2. CASE lastFinalized' # lastFinalized
    <3>1. \E p \in Surviving : \E chains : \E e \in chains : MovesFinality(h, p, chains, e)
      BY <1>2, <2>2, ImportMovesFinality
    <3> QED
      BY <3>1, MovingAdvances
  <2> QED
    BY <2>1, <2>2
<1> QED
  BY <1>1, <1>2 DEF FinalizerNext

\* The blocks handed to commitFinalized are the path from the previous
\* finalized block to the new one, each reported once; and without a restart
\* finality moves to a descendant with exactly Depth blocks on top of it.
THEOREM PathCommitted == FinalizerSpec => CommitsThePath
<1>1. IInv /\ [FinalizerNext]_finalizerVars => [CommittingStep]_finalizerVars
  BY NextCommits
<1>2. IInv /\ [FinalizerNext]_finalizerVars => [AdvancingStep]_finalizerVars
  BY NextAdvances
<1> QED
  BY <1>1, <1>2, InvariantHolds, PTL DEF FinalizerSpec, CommitsThePath

(* The refinement of Finality *)

\* Both modules speak of the same ancestors.
LEMMA SameLineage ==
  /\ Abstract!Lineage(parent') = Lineage'
  /\ Abstract!Imported = Imported /\ Abstract!Surviving = Surviving
  BY DEF Abstract!Lineage, Lineage, Abstract!Block, Block,
         Abstract!Imported, Imported, Abstract!Surviving, Surviving

\* An import is a step of Finality.
LEMMA StepRefines ==
  ASSUME IInv, IInv', NEW h \in Header, OnBlockImported(h), restarts' = 0
  PROVE  Abstract!Next
<1>1. parent[h] = NotImported /\ restarts' = restarts
  BY ImportMovesFinality
<1>2. PICK p \in Surviving :
        \/ /\ parent' = [parent EXCEPT ![h] = p]
           /\ finality' = NoFinality
           /\ UNCHANGED <<lastFinalized, pruned>>
        \/ \E chains : \E e \in chains : MovesFinality(h, p, chains, e)
  BY ImportMovesFinality
<1>3. p \in Abstract!Block /\ p \in Abstract!Surviving
  BY SameLineage DEF Abstract!Block, Surviving, Imported
<1>4. CASE /\ parent' = [parent EXCEPT ![h] = p]
           /\ finality' = NoFinality
           /\ UNCHANGED <<lastFinalized, pruned>>
  BY <1>1, <1>3, <1>4 DEF Abstract!Next, Abstract!Extend, Abstract!Import
<1>5. ASSUME NEW chains, NEW e \in chains, MovesFinality(h, p, chains, e)
      PROVE  Abstract!Next
  <2> DEFINE n == Len(e) - Depth
             f == NewlyFinalized(e)
  <2>1. /\ parent' = [parent EXCEPT ![h] = p]
        /\ IsTree(parent', Lineage')
        /\ ChainsAbove(parent', Lineage', lastFinalized, chains)
        /\ e[Len(e)] = h
        /\ n \in 1 .. Len(e) - 1 /\ f = e[n] /\ f \in Blocks(chains)
        /\ lastFinalized' = f
    BY <1>5 DEF MovesFinality
  <2>2. e \in Seq(Header) /\ Len(e) \in Nat /\ DOMAIN e = 1 .. Len(e) /\ n \in 1 .. Len(e) /\ Len(e) \in DOMAIN e
    <3>1. e \in Seq(Header) /\ Len(e) \in Nat /\ DOMAIN e = 1 .. Len(e)
      BY <2>1, ChainShape
    <3> QED
      BY <3>1, <2>1
  <2> HIDE DEF n, f
  <2>3. f \in StoredIn(parent') /\ f # lastFinalized
    BY <2>1, BlocksAreStored
  <2>4. lastFinalized \in Lineage'[f]
    BY <2>1, <2>3 DEF ChainsAbove
  <2>5. f \in Lineage'[h]
    <3>1. Lineage'[h] = Lineage'[lastFinalized] \cup {e[i] : i \in 1 .. Len(e)}
      BY <2>1, <2>2 DEF ChainsAbove, IsPath
    <3> QED
      BY <3>1, <2>1, <2>2
  <2>6. Imported' = Imported \cup {h} /\ Imported' = StoredIn(parent')
    <3>1. Imported' = StoredIn(parent')
      BY DEF Imported, StoredIn
    <3> QED
      BY <3>1, <1>1, <2>1, Importing
  <2>7. pruned' = {b \in Imported \cup {h} : f \notin Lineage'[b]}
    <3>1. \A b \in Imported' : f \in Lineage'[b] <=> b \in {f} \cup Blocks(unfinalized')
      BY <2>1, <2>6 DEF IInv, ChainsAbove
    <3>2. /\ pruned' \subseteq Imported'
          /\ pruned' \cap ({f} \cup Blocks(unfinalized')) = {}
          /\ Imported' \ pruned' \subseteq {f} \cup Blocks(unfinalized')
      BY <2>1 DEF IInv, Surviving
    <3> QED
      BY <3>1, <3>2, <2>6
  <2>8. f \in Abstract!Block
    BY <2>3, <2>1 DEF Blocks, Abstract!Block
  <2>9. Abstract!Finalize(h, p, f)
    BY <1>1, <1>3, <2>1, <2>3, <2>4, <2>5, <2>7, SameLineage DEF Abstract!Finalize, Abstract!Import
  <2> QED
    BY <2>8, <2>9, <1>3 DEF Abstract!Next
<1> QED
  BY <1>2, <1>4, <1>5

\* Until a restart every step is one of Finality, or none.
LEMMA NextRefines == IInv /\ IInv' /\ [FinalizerNext]_finalizerVars => [FinalityStep]_finalizerVars
<1> SUFFICES ASSUME IInv, IInv', FinalizerNext
             PROVE  FinalityStep
  OBVIOUS
<1>1. CASE Restart
  <2>1. restarts' # 0
    BY <1>1 DEF Restart, IInv
  <2> QED
    BY <2>1 DEF FinalityStep
<1>2. ASSUME NEW h \in Header, OnBlockImported(h)
      PROVE  FinalityStep
  BY <1>2, StepRefines DEF FinalityStep
<1> QED
  BY <1>1, <1>2 DEF FinalizerNext

\* The finalizer implements Finality until a restart makes it forget which
\* block was finalized.
THEOREM RefinesFinality == FinalizerSpec => ImplementsFinality
<1>1. FinalizerInit => Abstract!Init
  BY DEF FinalizerInit, Abstract!Init
<1>2. IInv /\ IInv' /\ [FinalizerNext]_finalizerVars => [FinalityStep]_finalizerVars
  BY NextRefines
<1> QED
  BY <1>1, <1>2, InvariantHolds, PTL DEF FinalizerSpec, ImplementsFinality
=============================================================================
