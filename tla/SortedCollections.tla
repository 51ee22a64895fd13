--------------------------- MODULE SortedCollections ---------------------------
(***************************************************************************)
(* SortedArray and SortedSet of core/collections: an array kept in order,  *)
(* searched by halving.  An element is <<rank, mark>>, and the comparator  *)
(* sees the rank only: a set holds one element of each rank, an array as   *)
(* many as were inserted.                                                  *)
(***************************************************************************)
EXTENDS Integers, SequencesExt

CONSTANTS
    Element,
    MaxLength   \* bound: elements of an array

VARIABLES
    unique,     \* whether this is a SortedSet
    items,      \* its array
    held        \* history: the number of each element that should be there

sortedVars == <<unique, items, held>>

Init == unique \in BOOLEAN /\ items = <<>> /\ held = [e \in Element |-> 0]

Rank(e) == e[1]
IsGreater(e, f) == Rank(e) > Rank(f)

\* The index, counted from 1, of an equal element, or of the first greater one.
BinarySearchLow(arr, v) ==
    LET search[low \in 1..Len(arr) + 1, high \in 1..Len(arr) + 1] ==
            LET mid == (low + high) \div 2 IN
            IF low >= high THEN [idx |-> low, isEqual |-> FALSE]
            ELSE IF Rank(arr[mid]) = Rank(v) THEN [idx |-> mid, isEqual |-> TRUE]
            ELSE IF IsGreater(v, arr[mid]) THEN search[mid, high - 1] ELSE search[low, mid]
    IN  search[1, Len(arr) + 1]
BinarySearch(arr, v) ==
    LET search[low \in 1..Len(arr) + 1, high \in 1..Len(arr) + 1] ==
            LET mid == (low + high) \div 2 IN
            IF low >= high THEN [idx |-> low, isEqual |-> FALSE]
            ELSE IF Rank(arr[mid]) = Rank(v) THEN [idx |-> mid, isEqual |-> TRUE]
            ELSE IF IsGreater(v, arr[mid]) THEN search[mid + 1, high] ELSE search[low, mid]
    IN  search[1, Len(arr) + 1]
Has(v) == BinarySearch(items, v).isEqual
FindExact(v) == items[BinarySearch(items, v).idx]

Insert(v) ==
    /\ Len(items) < MaxLength
    /\ IF unique /\ Has(v) THEN UNCHANGED <<items, held>>
       ELSE /\ items' = InsertAt(items, BinarySearch(items, v).idx, v)
            /\ held' = [held EXCEPT ![v] = @ + 1]
    /\ UNCHANGED unique

\* Of a set: the element of the same rank makes room.
Replace(v) ==
    /\ unique
    /\ LET found == BinarySearch(items, v) IN
       /\ items' = IF found.isEqual THEN [items EXCEPT ![found.idx] = v] ELSE InsertAt(items, found.idx, v)
       /\ held' = [e \in Element |-> IF e = v THEN 1 ELSE IF Rank(e) = Rank(v) THEN 0 ELSE held[e]]
    /\ UNCHANGED unique

RemoveOne(v) ==
    /\ Has(v)
    /\ items' = RemoveAt(items, BinarySearch(items, v).idx)
    /\ held' = [held EXCEPT ![FindExact(v)] = @ - 1]
    /\ UNCHANGED unique
Pop ==
    /\ items # <<>>
    /\ items' = Front(items) /\ held' = [held EXCEPT ![Last(items)] = @ - 1]
    /\ UNCHANGED unique

SortedNext == (\E v \in Element : Insert(v) \/ Replace(v) \/ RemoveOne(v)) \/ Pop

Increasing(arr) == \A i \in 2..Len(arr) : ~IsGreater(arr[i - 1], arr[i])
Distinct(arr) == \A i \in 2..Len(arr) : Rank(arr[i - 1]) # Rank(arr[i])

\* Array.prototype.sort is stable.
Sorted(arr) == FoldLeft(LAMBDA sorted, e : LET after == SelectInSeq(sorted, LAMBDA f : IsGreater(f, e)) IN
                            InsertAt(sorted, IF after = 0 THEN Len(sorted) + 1 ELSE after, e), <<>>, arr)
\* The first of equal neighbours stays.
WithoutDuplicates(arr) ==
    LET keeps(i) == i = 1 \/ Rank(arr[i - 1]) # Rank(arr[i]) IN
    [i \in 1..Cardinality({i \in DOMAIN arr : keeps(i)}) |->
        arr[CHOOSE j \in DOMAIN arr : keeps(j) /\ Cardinality({k \in 1..j : keeps(k)}) = i]]
FromArray(arr) == IF unique THEN WithoutDuplicates(Sorted(arr)) ELSE Sorted(arr)

\* Of equal elements, one of each.
Interleaved(first, second) ==
    LET merge[i \in 1..Len(first) + 1, j \in 1..Len(second) + 1] ==
            IF i > Len(first) THEN SubSeq(second, j, Len(second))
            ELSE IF j > Len(second) THEN SubSeq(first, i, Len(first))
            ELSE IF IsGreater(second[j], first[i]) THEN <<first[i]>> \o merge[i + 1, j]
            ELSE IF IsGreater(first[i], second[j]) THEN <<second[j]>> \o merge[i, j + 1]
            ELSE <<first[i], second[j]>> \o merge[i + 1, j + 1]
    IN  merge[1, 1]
FromTwoSortedCollections(first, second) ==
    IF unique THEN WithoutDuplicates(Interleaved(first, second)) ELSE Interleaved(first, second)

\* What should be there is there, in order, and found; and what is made of it
\* and a few more elements, at once or by merging, is what inserting them
\* one by one makes, up to the order of equal ones.
SortedHoldsItsElements ==
    /\ Increasing(items) /\ (unique => Distinct(items))
    /\ \A e \in Element :
        /\ Cardinality({i \in DOMAIN items : items[i] = e}) = held[e]
        /\ Has(e) <=> \E f \in Element : held[f] > 0 /\ Rank(f) = Rank(e)
        /\ Has(e) => Rank(FindExact(e)) = Rank(e)
    /\ \A e, f \in Element :
        LET second == FromArray(<<e, f>>)
            all == FromArray(items \o <<e, f>>)
            merged == FromTwoSortedCollections(items, second)
            ranks(arr) == [i \in DOMAIN arr |-> Rank(arr[i])]
        IN  ranks(merged) = ranks(all) /\ (unique => merged = all)
=============================================================================
