----------------------------- MODULE ValueRefs -----------------------------
(***************************************************************************)
(* Reference counting of the large values of serialized states             *)
(* (jam/database/value-refs.ts): how many leaves of the finalized state and*)
(* how many not yet finalized blocks use a value, and which values an      *)
(* operation leaves without a reference.                                   *)
(*                                                                         *)
(* A refs record holds what InMemoryValueRefsStore holds.  The lists of    *)
(* value hashes in a delta are bags here: functions from Value to how many *)
(* times the list has the value.                                           *)
(***************************************************************************)
EXTENDS Naturals, Sequences

CONSTANTS
    Header,    \* hashes of blocks other than the initial one
    Value,     \* hashes of values too large to be embedded in a leaf
    NoDelta    \* value of deltas[h] for a block without a delta

NoValues == [v \in Value |-> 0]

EmptyRefs == [finalized |-> NoValues, pending |-> NoValues, deltas |-> [h \in Header |-> NoDelta]]

BagSum(a, b) == [v \in Value |-> a[v] + b[v]]

\* Math.max(0, a - b) for each value.
BagMonus(a, b) == [v \in Value |-> IF a[v] > b[v] THEN a[v] - b[v] ELSE 0]

Members(bag) == {v \in Value : bag[v] > 0}

\* What an operation returns: the counts it leaves, and the values it may
\* have released.
Update(refs, candidates) == [refs |-> refs, candidates |-> candidates]

\* build(): the candidates that have no reference left.
RemoveValues(u) ==
    {v \in u.candidates : u.refs.finalized[v] = 0 /\ u.refs.pending[v] = 0}

\* The values of the initial, finalized state.
OnInitial(refs, inserted) ==
    Update([refs EXCEPT !.finalized = BagSum(@, inserted)], {})

\* A freshly imported block; a second import of the header changes nothing.
OnImport(refs, h, delta) ==
    IF refs.deltas[h] # NoDelta
    THEN Update(refs, {})
    ELSE Update([refs EXCEPT !.deltas[h] = delta, !.pending = BagSum(@, delta.inserted)], {})

\* One header of commitFinalized, on top of the update built so far.
CommitWithoutRemoved(u, h) ==
    LET delta == u.refs.deltas[h]
    IN  IF delta = NoDelta
        THEN u
        ELSE Update([finalized |-> BagSum(u.refs.finalized, delta.inserted),
                     pending |-> BagMonus(u.refs.pending, delta.inserted),
                     deltas |-> [u.refs.deltas EXCEPT ![h] = NoDelta]],
                    u.candidates \cup Members(delta.inserted))
CommitHeader(u, h) ==
    LET delta == u.refs.deltas[h]
    IN  IF delta = NoDelta
        THEN u
        ELSE Update([finalized |-> BagMonus(BagSum(u.refs.finalized, delta.inserted), delta.removed),
                     pending |-> BagMonus(u.refs.pending, delta.inserted),
                     deltas |-> [u.refs.deltas EXCEPT ![h] = NoDelta]],
                    u.candidates \cup Members(delta.inserted) \cup Members(delta.removed))

\* Newly finalized blocks, ancestor first.
CommitFinalized(refs, headers) ==
    LET done[n \in 0..Len(headers)] ==
            IF n = 0 THEN Update(refs, {}) ELSE CommitHeader(done[n - 1], headers[n])
    IN  done[Len(headers)]

\* A block that is given up: a dead fork still has its delta.
ReleaseWithoutCandidates(refs, h) ==
    IF refs.deltas[h] = NoDelta
    THEN Update(refs, {})
    ELSE Update([refs EXCEPT !.pending = BagMonus(@, refs.deltas[h].inserted), !.deltas[h] = NoDelta], {})
ReleaseUnfinalized(refs, h) ==
    IF refs.deltas[h] = NoDelta
    THEN Update(refs, {})
    ELSE Update([refs EXCEPT !.pending = BagMonus(@, refs.deltas[h].inserted), !.deltas[h] = NoDelta],
                Members(refs.deltas[h].inserted))
=============================================================================
