------------------------------ MODULE Finality ------------------------------
(***************************************************************************)
(* What the importer expects of a `Finalizer` (workers/importer/finality.ts*)
(* lines 10-25), whatever its algorithm: one finalized block that only     *)
(* ever moves to a descendant, and, each time it moves, exactly the blocks *)
(* that do not descend from it become prunable.                            *)
(*                                                                         *)
(* DummyFinalizer.tla implements this specification.                       *)
(***************************************************************************)
EXTENDS Naturals, FiniteSets

CONSTANTS
    Header,       \* hashes of the blocks that may be imported
    Genesis,      \* the block the database starts with
    NotImported   \* value of parent[h] for a block that is not in the database

VARIABLES
    parent,       \* header -> parent header, the block tree in the database
    finalized,    \* the finalized block
    pruned        \* blocks whose states were given up

vars == <<parent, finalized, pruned>>

Block == Header \cup {Genesis}

Imported == {Genesis} \cup {h \in Header : parent[h] # NotImported}

\* The blocks whose state is still in the database.
Surviving == Imported \ pruned

\* Lineage(tree)[b]: b and all its ancestors in a block tree.
Lineage(tree) ==
    LET lineage[b \in Block \cup {NotImported}] ==
            IF b \in {Genesis, NotImported} THEN {b} ELSE {b} \cup lineage[tree[b]]
    IN  lineage

Init ==
    /\ parent = [h \in Header |-> NotImported]
    /\ finalized = Genesis
    /\ pruned = {}

\* A new block is stored on top of a block whose state is available.
Import(h, p) ==
    /\ parent[h] = NotImported
    /\ p \in Surviving
    /\ parent' = [parent EXCEPT ![h] = p]

\* The block is imported and finality does not move.
Extend(h, p) ==
    /\ Import(h, p)
    /\ UNCHANGED <<finalized, pruned>>

\* The block is imported and finality moves to f, one of its ancestors.
Finalize(h, p, f) ==
    /\ Import(h, p)
    /\ f \in Lineage(parent')[h] \ {finalized}
    /\ finalized \in Lineage(parent')[f]
    /\ finalized' = f
    /\ pruned' = {b \in Imported \cup {h} : f \notin Lineage(parent')[b]}

Next ==
    \E h \in Header, p \in Block :
        \/ Extend(h, p)
        \/ \E f \in Block : Finalize(h, p, f)

Spec == Init /\ [][Next]_vars
=============================================================================
