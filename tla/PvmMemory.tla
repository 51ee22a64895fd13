------------------------------ MODULE PvmMemory ------------------------------
(***************************************************************************)
(* The memory of the PVM (core/pvm-interpreter/memory): pages that hold    *)
(* only the bytes written so far, found through ranges of addresses that   *)
(* may wrap around, and a heap that grows by whole pages.                  *)
(*                                                                         *)
(* A memory is [pages, sbrk, virtual, end], a page [writeable, data].      *)
(***************************************************************************)
EXTENDS PvmOps, SequencesExt, FiniteSetsExt

CONSTANTS
    PageSize,       \* PAGE_SIZE
    MinAllocation,  \* MIN_ALLOCATION_LENGTH
    Reserved,       \* RESERVED_NUMBER_OF_PAGES
    SegmentPages,   \* SEGMENT_SIZE, in pages
    DataPages       \* DATA_LENGTH, in pages

Zeros(n) == [i \in 1..n |-> 0]

MemorySize == 2^W32
PageCount == MemorySize \div PageSize
AlignToPage(n) == PageSize * ((n + PageSize - 1) \div PageSize)
AlignToSegment(n) ==
    LET size == SegmentPages * PageSize IN size * ((n + size - 1) \div size)

\* MemoryRange and PageRange.fromMemoryRange: the pages of
\* [start, start + length), in the order they are visited.
PagesOf(start, length) ==
    LET end == (start + length) % MemorySize
        first == start \div PageSize
        last == ((end - 1 + MemorySize) % MemorySize) \div PageSize
        next == (last + 1) % PageCount
        count == IF (first = next \/ first = last) /\ length > PageSize THEN PageCount
                 ELSE IF first < next THEN next - first
                 ELSE PageCount - first + next
    IN  IF length = 0 THEN <<>> ELSE [i \in 1..count |-> (first + i - 1) % PageCount]

\* getPages: the fault of the first page that is not accessible.
Fault(memory, page, isWrite) ==
    IF page < Reserved THEN "FAULT_ACCESS"
    ELSE IF page \notin DOMAIN memory.pages THEN "FAULT"
    ELSE IF isWrite /\ ~memory.pages[page].writeable THEN "FAULT_ACCESS"
    ELSE "none"
Inaccessible(memory, pages, isWrite) ==
    LET faults(page) == Fault(memory, page, isWrite) # "none"
        bad == SelectSeq(pages, faults)
    IN  IF bad = <<>> THEN [fault |-> "none", page |-> 0]
        ELSE [fault |-> Fault(memory, bad[1], isWrite), page |-> bad[1]]

\* The pages' own loadInto: what was never written reads as zero.
ByteOf(page, index) == IF index < Len(page.data) THEN page.data[index + 1] ELSE 0

LoadInto(memory, address, length) ==
    [i \in 1..length |->
        LET position == (address + i - 1) % MemorySize
        IN  ByteOf(memory.pages[position \div PageSize], position % PageSize)]

\* A plausible bug: the buffer grows to the smallest size only.
StorePageSmallest(page, index, bytes) ==
    LET size == Max({MinAllocation, Len(page.data)})
    IN  [page EXCEPT !.data =
            [i \in 1..size |-> IF i > index /\ i <= index + Len(bytes) THEN bytes[i - index]
                               ELSE IF i <= Len(page.data) THEN page.data[i] ELSE 0]]

\* WriteablePage.storeFrom: the buffer is resized to what is needed.
StorePage(page, index, bytes) ==
    LET end == index + Len(bytes)
        size == IF Len(page.data) < end /\ Len(page.data) < PageSize
                THEN Min({PageSize, Max({MinAllocation, end})}) ELSE Len(page.data)
    IN  [page EXCEPT !.data =
            [i \in 1..size |-> IF i > index /\ i <= end THEN bytes[i - index]
                               ELSE IF i <= Len(page.data) THEN page.data[i] ELSE 0]]

\* storeFrom, page by page, once all pages were found.
StoreFrom(memory, address, bytes) ==
    LET length == Len(bytes)
        storeIn(pages, n) ==
            LET from == IF n = address \div PageSize THEN address ELSE n * PageSize
                to == Min({address + length, (n + 1) * PageSize})
            IN  [pages EXCEPT ![n] =
                    StorePage(@, from % PageSize, SubSeq(bytes, from - address + 1, to - address))]
    IN  [memory EXCEPT !.pages = FoldLeft(storeIn, @, PagesOf(address, length))]

\* sbrk: the end of the heap is moved; whole new pages are made when it
\* passes those there are.
CanGrow(memory, length) ==
    memory.virtual + length <= MemorySize - 1 /\ memory.virtual + length <= memory.end
Sbrk(memory, length) ==
    LET virtual == memory.virtual + length
        sbrk == AlignToPage(virtual)
        new == (memory.sbrk \div PageSize)..((sbrk \div PageSize) - 1)
    IN  IF virtual <= memory.sbrk THEN [memory EXCEPT !.virtual = virtual]
        ELSE [memory EXCEPT !.virtual = virtual, !.sbrk = sbrk,
                !.pages = [n \in new |-> [writeable |-> TRUE, data |-> Zeros(MinAllocation)]] @@ @]

-----------------------------------------------------------------------------
(* The memory a program starts with.                                       *)

Segment(start, end, data, writeable) ==
    [start |-> start, end |-> end, data |-> data, writeable |-> writeable]

PagesIn(segment) == (segment.start \div PageSize)..((segment.end \div PageSize) - 1)

\* setReadablePages and setWriteablePages
InitialPage(segment, n) ==
    LET chunk == SubSeq(segment.data, n * PageSize - segment.start + 1,
                        Min({Len(segment.data), (n + 1) * PageSize - segment.start}))
    IN  [writeable |-> segment.writeable,
         data |-> IF segment.writeable /\ Len(chunk) < MinAllocation
                  THEN chunk \o Zeros(MinAllocation - Len(chunk)) ELSE chunk]

\* decodeStandardProgram: where the segments of a program go.
StandardSegments(readOnly, heap, zeroPages, stackSize, args) ==
    LET heapStart == SegmentPages * PageSize * 2 + AlignToSegment(Len(readOnly))
        heapDataEnd == heapStart + AlignToPage(Len(heap))
        stackEnd == MemorySize - (2 * SegmentPages + DataPages) * PageSize
        argsStart == MemorySize - (SegmentPages + DataPages) * PageSize
        argsEnd == argsStart + AlignToPage(Len(args))
        isNonEmpty(s) == s.start < s.end
    IN  [heapStart |-> heapDataEnd + zeroPages * PageSize,
         heapEnd |-> stackEnd - AlignToPage(stackSize),
         segments |-> SelectSeq(
            <<Segment(SegmentPages * PageSize, SegmentPages * PageSize + AlignToPage(Len(readOnly)),
                      readOnly, FALSE),
              Segment(argsStart, argsEnd, args, FALSE),
              Segment(argsEnd, argsEnd + AlignToPage(Len(args)), <<>>, FALSE),
              Segment(heapStart, heapDataEnd, heap, TRUE),
              Segment(heapDataEnd, heapDataEnd + zeroPages * PageSize, <<>>, TRUE),
              Segment(stackEnd - AlignToPage(stackSize), stackEnd, <<>>, TRUE)>>, isNonEmpty)]

\* MemoryBuilder.finalize: the heap must lie free between the segments.
IsBuildable(layout) ==
    /\ layout.heapStart <= layout.heapEnd
    /\ \A i \in DOMAIN layout.segments :
          LET s == layout.segments[i]
          IN  /\ s.start >= Reserved * PageSize /\ s.end < MemorySize
              /\ ToSet(PagesOf(layout.heapStart, layout.heapEnd - layout.heapStart))
                    \cap PagesIn(s) = {}

InitialMemory(layout) ==
    LET segments == ToSet(layout.segments)
    IN  [pages |-> [n \in UNION {PagesIn(s) : s \in segments} |->
                        InitialPage(CHOOSE s \in segments : n \in PagesIn(s), n)],
         sbrk |-> layout.heapStart, virtual |-> layout.heapStart, end |-> layout.heapEnd]
=============================================================================
