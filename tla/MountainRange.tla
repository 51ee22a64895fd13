----------------------------- MODULE MountainRange -----------------------------
(***************************************************************************)
(* The Merkle mountain range of core/mmr, which the recent history keeps   *)
(* of the accumulation roots.  The state holds its peaks by position, null *)
(* where there is no mountain; every block makes the range from them,      *)
(* appends one hash and puts the peaks back.  Hashes are terms.            *)
(***************************************************************************)
EXTENDS Integers, SequencesExt

CONSTANTS
    None,       \* null
    MaxHashes   \* bound: hashes appended

VARIABLES
    peaks,      \* the peaks in the state, by position
    appended    \* history: how many hashes there were

mmrVars == <<peaks, appended>>

HashConcat(left, right) == [left |-> left, right |-> right]
Leaf(n) == [leaf |-> n]

Init == peaks = <<>> /\ appended = 0

\* Mountains by descending size.
FromPeaks(slots) ==
    Reverse(SelectSeq([i \in DOMAIN slots |-> [peak |-> slots[i], size |-> 2 ^ (i - 1)]], LAMBDA m : m.peak # None))

MergeWith(last, mountain) == [peak |-> HashConcat(last.peak, mountain.peak), size |-> last.size + mountain.size]
RECURSIVE WithMountain(_, _), WithMountainOnce(_, _)
WithMountainOnce(mountains, new) ==
    IF mountains # <<>> /\ Last(mountains).size = new.size
    THEN Append(Front(mountains), MergeWith(Last(mountains), new)) ELSE Append(mountains, new)
WithMountain(mountains, new) ==
    IF mountains # <<>> /\ Last(mountains).size = new.size
    THEN WithMountain(Front(mountains), MergeWith(Last(mountains), new)) ELSE Append(mountains, new)

\* A position holds the last mountain not yet placed, if it is of its size.
RECURSIVE Placed(_, _)
Placed(mountains, size) ==
    IF mountains = <<>> THEN <<>>
    ELSE LET last == Last(mountains) IN
         IF last.size >= size /\ last.size < 2 * size THEN <<last.peak>> \o Placed(Front(mountains), 2 * size)
         ELSE <<None>> \o Placed(mountains, 2 * size)
GetPeaks(mountains) == Placed(mountains, 1)

GetSuperPeakHash(mountains) ==
    IF mountains = <<>> THEN None
    ELSE FoldLeft(LAMBDA last, m : [last |-> last, peak |-> m.peak], Last(mountains).peak, Reverse(Front(mountains)))

AppendHash ==
    /\ appended < MaxHashes
    /\ peaks' = GetPeaks(WithMountain(FromPeaks(peaks), [peak |-> Leaf(appended), size |-> 1]))
    /\ appended' = appended + 1

\* The tree over the hashes from a place on, of 2^height of them.
RECURSIVE Tree(_, _)
Tree(from, height) ==
    IF height = 0 THEN Leaf(from) ELSE HashConcat(Tree(from, height - 1), Tree(from + 2 ^ (height - 1), height - 1))
Digit(position) == (appended \div (2 ^ (position - 1))) % 2
FirstOf(position) == (appended \div (2 ^ position)) * 2 ^ position

\* A peak stands at each binary digit of the number of hashes, over the hashes
\* that digit counts, with none above; and the super peak takes them upwards.
PeaksAreDigits ==
    /\ appended < 2 ^ Len(peaks) /\ (peaks # <<>> => Last(peaks) # None)
    /\ \A i \in DOMAIN peaks : peaks[i] = IF Digit(i) = 1 THEN Tree(FirstOf(i), i - 1) ELSE None
    /\ GetPeaks(FromPeaks(peaks)) = peaks
    /\ LET standing == SelectSeq(peaks, LAMBDA p : p # None) IN
       GetSuperPeakHash(FromPeaks(peaks)) =
           IF standing = <<>> THEN None
           ELSE FoldLeft(LAMBDA last, p : [last |-> last, peak |-> p], Head(standing), Tail(standing))
=============================================================================
