---------------------------------- MODULE Trie ----------------------------------
(***************************************************************************)
(* The Merkle trie of core/trie, in the two ways the code computes its     *)
(* root: InMemoryTrie, which inserts leaves one by one and keeps the nodes *)
(* in a database by their hashes, and computeStateRoot, which hashes a     *)
(* sorted list of leaves from the last to the first with a stack.  Nodes   *)
(* and hashes are terms, so no two of them collide.  A node keeps the hash *)
(* on its left without the first bit, and the database looks at no first   *)
(* bit.                                                                    *)
(***************************************************************************)
EXTENDS Integers, SequencesExt

CONSTANTS
    Bits,       \* TRUNCATED_KEY_BITS, the length of a key
    TrieKey,    \* keys, sequences of bits
    TrieValue   \* values, as embedded in a leaf: <<length, padded content>>

VARIABLES
    root,       \* the root node, or Zero
    stored,     \* the nodes in NodesDb
    leaves      \* history: the value last set of each key

trieVars == <<root, stored, leaves>>

Zero == [kind |-> "zero"]
HashNode(node) == [kind |-> "hash", of |-> node, firstBit |-> TRUE]
Masked(hash) == IF hash = Zero THEN Zero ELSE [hash EXCEPT !.firstBit = FALSE]
LeafNode(key, value) == [kind |-> "leaf", key |-> key, value |-> value]
FromSubNodes(left, right) == [kind |-> "branch", left |-> Masked(left), right |-> right]
OnSide(bit, hash, other) == IF bit = 1 THEN FromSubNodes(other, hash) ELSE FromSubNodes(hash, other)

Init == root = Zero /\ stored = {} /\ leaves = <<>>

\* The branches passed on the way to the place of a key, and what is there:
\* Zero, or a leaf and its hash as the branch above keeps it.
RECURSIVE Descend(_, _, _)
Descend(hash, key, history) ==
    IF hash = Zero \/ hash.of.kind = "leaf" THEN [history |-> history, found |-> hash]
    ELSE LET bit == key[Len(history) + 1] IN
         Descend(IF bit = 1 THEN hash.of.right ELSE hash.of.left, key,
                 Append(history, [branch |-> hash.of, bit |-> bit]))
FindNodeToReplace(key) == Descend(HashNode(root), key, <<>>)

FirstDifference(k1, k2) == CHOOSE i \in 1..Bits : k1[i] # k2[i] /\ \A j \in 1..(i - 1) : k1[j] = k2[j]

KeptHash(path, divergingBit) == path.found
\* A masked hash that moves to the right of its new parent is made anew.
ExistingHash(path, divergingBit) ==
    LET wasLeft == path.history # <<>> /\ Last(path.history).bit = 0 IN
    IF wasLeft /\ divergingBit = 0 THEN HashNode(path.found.of) ELSE path.found

\* A result is the top node with the nodes put in the database below it.
Up(below, node) == [top |-> node, added |-> below.added \cup {node}]
CreateSubtreeForBothLeaves(path, leaf) ==
    LET existing == path.found.of
        differ == FirstDifference(leaf.key, existing.key)
        common == SubSeq(leaf.key, Len(path.history) + 1, differ - 1)
        both == OnSide(leaf.key[differ], HashNode(leaf), ExistingHash(path, leaf.key[differ]))
    IN  FoldRight(LAMBDA bit, below : Up(below, OnSide(bit, HashNode(below.top), Zero)), common,
                  [top |-> both, added |-> {leaf, both}])

\* Leaves of one key are told apart by their padded values.
RemovedLeaf(path, leaf) ==
    IF path.found # Zero /\ path.found.of.key = leaf.key /\ path.found.of.value[2] # leaf.value[2]
    THEN {path.found.of} ELSE {}
NodeToInsert(path, leaf) ==
    IF path.found = Zero \/ path.found.of.key = leaf.key THEN [top |-> leaf, added |-> {leaf}]
    ELSE CreateSubtreeForBothLeaves(path, leaf)

\* Every branch of the path is removed and its successor added, bottom up.
Rebuilt(path, start) ==
    FoldRight(LAMBDA step, below :
            LET branch == OnSide(step.bit, HashNode(below.top), IF step.bit = 1 THEN step.branch.left ELSE step.branch.right)
            IN  [top |-> branch, nodes |-> (below.nodes \ {step.branch}) \cup {branch}],
        path.history, start)

Put(key, value) ==
    LET leaf == LeafNode(key, value) IN
    /\ IF root = Zero THEN root' = leaf /\ stored' = stored \cup {leaf}
       ELSE LET path == FindNodeToReplace(key)
                inserted == NodeToInsert(path, leaf)
                rebuilt == Rebuilt(path, [top |-> inserted.top,
                                          nodes |-> (stored \ RemovedLeaf(path, leaf)) \cup inserted.added])
            IN  root' = rebuilt.top /\ stored' = rebuilt.nodes
    /\ leaves' = [k \in DOMAIN leaves \cup {key} |-> IF k = key THEN value ELSE leaves[k]]

TrieNext == \E key \in TrieKey, value \in TrieValue : Put(key, value)

GetRootHash == IF root = Zero THEN Zero ELSE HashNode(root)

\* The root the trie of these leaves has by definition.
RECURSIVE Merkle(_, _)
Merkle(keys, depth) ==
    IF keys = {} THEN Zero
    ELSE IF Cardinality(keys) = 1 THEN LET k == CHOOSE k \in keys : TRUE IN HashNode(LeafNode(k, leaves[k]))
    ELSE LET side(bit) == Merkle({k \in keys : k[depth] = bit}, depth + 1) IN
         HashNode(FromSubNodes(side(0), side(1)))

\* computeStateRoot: how far the stack is, after the leaves up to a depth.
FindSharedPrefix(k1, k2) == FirstDifference(k1, k2) - 1
PopTwo(stack) == SubSeq(stack, 1, Len(stack) - 2)
FromTop(stack, n) == IF Len(stack) < n THEN Zero ELSE stack[Len(stack) - n + 1]
Merge(stack, bit) ==
    LET full == IF bit = 1 THEN Append(stack, Zero) ELSE stack IN
    Append(PopTwo(full), HashNode(FromSubNodes(FromTop(full, 1), FromTop(full, 2))))
StackStep(sorted, state, i) ==
    LET key == sorted[i]
        isLast == i = 1 /\ Len(sorted) > 1
        shared == IF i = 1 THEN 0 ELSE FindSharedPrefix(key, sorted[i - 1])
        start == IF isLast THEN state.depth ELSE state.depth + 1
        end == IF isLast THEN shared - 1 ELSE shared
        zeros == SelectSeq([d \in 1..(shared + 1) |-> d - 1], LAMBDA d : d >= start /\ key[d + 1] = 0)
        pushed == state.stack \o [z \in DOMAIN zeros |-> Zero] \o <<HashNode(LeafNode(key, leaves[key]))>>
        ups == IF state.depth < shared THEN <<>>
               ELSE [u \in 1..(state.depth - end) |-> key[state.depth - u + 2]]
    IN  [depth |-> shared, stack |-> FoldLeft(Merge, pushed, ups)]
SmallerKey(k1, k2) == LET d == FirstDifference(k1, k2) IN k1[d] < k2[d]
ComputeStateRoot ==
    LET sorted == SortSeq(SetToSeq(DOMAIN leaves), SmallerKey)
        steps == [i \in DOMAIN sorted |-> Len(sorted) - i + 1]
        end == FoldLeft(LAMBDA state, i : StackStep(sorted, state, i), [depth |-> 0, stack |-> <<>>], steps)
    IN  FromTop(end.stack, 1)

RECURSIVE Reachable(_)
Reachable(hash) ==
    IF hash = Zero THEN {}
    ELSE {hash.of} \cup (IF hash.of.kind = "leaf" THEN {} ELSE Reachable(hash.of.left) \cup Reachable(hash.of.right))

\* The trie is the one of its leaves, whatever the order they came in, and the
\* database holds its nodes and no others.
TrieIsExact == GetRootHash = Merkle(DOMAIN leaves, 1) /\ stored = Reachable(GetRootHash)

\* "Given a collection of leaves, compute the state root": the same as the trie.
StateRootIsTrieRoot == ComputeStateRoot = GetRootHash
\* It is, unless one leaf alone has its first bit clear and others have it set.
StateRootIsUsuallyExact ==
    Cardinality({k \in DOMAIN leaves : k[1] = 0}) # 1 \/ Cardinality(DOMAIN leaves) = 1 => StateRootIsTrieRoot
=============================================================================
