------------------------------ MODULE SubAlloc ------------------------------
(* core/suba.c: the allocator of the memory areas that core/memmgmt.c adds to    *)
(* Canon's heap.  Addresses and sizes are in words of four bytes, from the start  *)
(* of the area.  A call holds the allocator's semaphore from its first look at    *)
(* the list to its last change, so that a call is one step.                     *)
EXTENDS Integers, FiniteSets, FiniteSetsExt

CONSTANTS AreaSize, \* words of the area
          Requests  \* bytes that are asked for

Hdr     == 2                 \* sizeof(cell_hdr)
ListHead    == 4                 \* the list head in the allocator's header
First   == 14                \* sizeof(allocator)
MinCell == 4                 \* a header and the 8 bytes of chdk_heap_create
Term    == AreaSize - 3      \* the terminator
Guard   == Term - 1          \* the guard value before it
NoCell  == 0

ASSUME AreaAssumption == AreaSize \in Nat /\ First + MinCell <= Guard
ASSUME RequestAssumption == Requests \subseteq Nat

VARIABLES
    size,    \* h.size of the cells: free ones, allocated ones, head and terminator
    next,    \* the free list
    free_block_count, free_size, largest_block,
    allocated_count, allocated_size, allocated_peak,
    ptr      \* the cell whose block the last suba_alloc returned, or NoCell

freeStats  == <<free_block_count, free_size, largest_block>>
allocStats == <<allocated_count, allocated_size, allocated_peak>>
vars == <<size, next, freeStats, allocStats, ptr>>

Cells   == DOMAIN size \ {ListHead, Term}
Free    == DOMAIN next \ {ListHead}
Used    == Cells \ Free
End(c)  == c + size[c]       \* CEND

\* ALIGN and ACTUALSIZE
CellSize(bytes) ==
    LET n == (bytes + 3) \div 4 + Hdr IN IF n < MinCell THEN MinCell ELSE n

Init ==
    /\ size = [c \in {ListHead, First, Term} |->
                 IF c = ListHead THEN Hdr ELSE IF c = Term THEN 0 ELSE Guard - First]
    /\ next = [c \in {ListHead, First} |-> IF c = ListHead THEN First ELSE Term]
    /\ free_block_count = 1 /\ free_size = Guard - First - Hdr
    /\ largest_block = First
    /\ allocated_count = 0 /\ allocated_size = 0 /\ allocated_peak = 0
    /\ ptr = NoCell

-----------------------------------------------------------------------------
(* suba_alloc *)

\* slip: an exact fit is passed over
FitsOver(n) == {c \in Free : size[c] > n}

Fits(n) == {c \in Free : size[c] >= n}

\* where the walk from the head stops; it meets the free cells in the order of
\* their addresses (Linked)
FirstFit(n) == CHOOSE c \in Fits(n) : \A d \in Fits(n) : c <= d

Unlinked(c) == [p \in DOMAIN next \ {c} |-> IF next[p] = c THEN next[c] ELSE next[p]]

\* slip: what is left may be smaller than a cell
SplitsTight(c, n) == size[c] > n

\* the rest of the cell is large enough to stay in the list
Splits(c, n) == size[c] > n + MinCell

\* the end of the cell is cut off
Split(c, n) ==
    /\ Splits(c, n)
    /\ size' = [d \in DOMAIN size \cup {End(c) - n} |->
                  IF d = End(c) - n THEN n ELSE IF d = c THEN size[c] - n ELSE size[d]]
    /\ free_size' = free_size - n
    /\ ptr' = End(c) - n
    /\ UNCHANGED <<next, free_block_count>>

\* the whole cell is taken
Whole(c, n) ==
    /\ ~Splits(c, n)
    /\ next' = Unlinked(c)
    /\ free_block_count' = free_block_count - 1
    /\ free_size' = free_size - (size[c] - Hdr)
    /\ ptr' = c
    /\ UNCHANGED size

\* to be looked for again
Forget(c) == largest_block' = IF largest_block = c THEN NoCell ELSE largest_block

CountUp ==
    /\ allocated_count' = allocated_count + 1
    /\ allocated_size' = allocated_size + (size'[ptr'] - Hdr)
    /\ allocated_peak' = IF allocated_size' > allocated_peak THEN allocated_size'
                         ELSE allocated_peak

Alloc(bytes) ==
    LET n == CellSize(bytes)
        c == FirstFit(n)
    IN  /\ Fits(n) # {}
        /\ Split(c, n) \/ Whole(c, n)
        /\ Forget(c)
        /\ CountUp

Refuse(bytes) ==
    /\ Fits(CellSize(bytes)) = {}
    /\ ptr' = NoCell
    /\ UNCHANGED <<size, next, freeStats, allocStats>>

-----------------------------------------------------------------------------
(* suba_free *)

\* slip: the cell goes to the end of the list
BeforeEnd(c) == CHOOSE p \in DOMAIN next : next[p] = Term

\* where the search for the insertion point stops
Before(c) == CHOOSE p \in DOMAIN next : p < c /\ next[p] >= c

\* slip: a cell is joined with the one after it only
JoinsNever(p, c) == FALSE

JoinsPrev(p, c) == End(p) = c
JoinsNext(c, d) == End(c) = d

\* the cells that are joined to the one before them
Joined(p, c, d) == {x \in {c, d} : (x = c /\ JoinsPrev(p, c)) \/ (x = d /\ JoinsNext(c, d))}

\* the free cell that c becomes or becomes part of, and its size
Host(p, c) == IF JoinsPrev(p, c) THEN p ELSE c

\* slip: the cell before is joined without its own words
HostSizeShort(p, c, d) == size[c] + (IF JoinsNext(c, d) THEN size[d] ELSE 0)

HostSize(p, c, d) == size[c] + (IF JoinsPrev(p, c) THEN size[p] ELSE 0)
                             + (IF JoinsNext(c, d) THEN size[d] ELSE 0)

\* the list with c between p and d
LinkedIn(p, c, d) ==
    [x \in (DOMAIN next \cup {c}) \ Joined(p, c, d) |->
       IF x = Host(p, c) THEN IF JoinsNext(c, d) THEN next[d] ELSE d
       ELSE IF x = p THEN c ELSE next[x]]

\* slip: the size is compared before the cell is joined with its neighbours
LargerBefore(p, c, d) ==
    IF largest_block # NoCell /\ size[c] > size[largest_block] THEN Host(p, c) ELSE largest_block

Larger(p, c, d) ==
    IF largest_block # NoCell /\ HostSize(p, c, d) > size[largest_block] THEN Host(p, c)
    ELSE largest_block

SubaFree(c) ==
    LET p == Before(c)
        d == next[p]
    IN  /\ size' = [x \in DOMAIN size \ Joined(p, c, d) |->
                      IF x = Host(p, c) THEN HostSize(p, c, d) ELSE size[x]]
        /\ next' = LinkedIn(p, c, d)
        /\ free_block_count' = free_block_count + (IF JoinsPrev(p, c) THEN 0 ELSE 1)
                                                - (IF JoinsNext(c, d) THEN 1 ELSE 0)
        /\ free_size' = free_size + (IF JoinsPrev(p, c) THEN size[c] ELSE size[c] - Hdr)
                                  + (IF JoinsNext(c, d) THEN Hdr ELSE 0)
        /\ largest_block' = Larger(p, c, d)
        /\ allocated_size' = allocated_size - (size[c] - Hdr)
        /\ allocated_count' = allocated_count - 1
        /\ UNCHANGED <<allocated_peak, ptr>>

-----------------------------------------------------------------------------
(* suba_getmeminfo: the largest block is looked for if it is not known *)

Largest == CHOOSE c \in Free \cup {ListHead} :
              \A d \in Free \cup {ListHead} : size[d] < size[c] \/ (size[d] = size[c] /\ c <= d)

MemInfo ==
    /\ largest_block = NoCell
    /\ largest_block' = Largest
    /\ UNCHANGED <<size, next, free_block_count, free_size, allocStats, ptr>>

-----------------------------------------------------------------------------
Next == \/ \E r \in Requests : Alloc(r) \/ Refuse(r)
        \/ \E c \in Used : SubaFree(c)
        \/ MemInfo

Spec == Init /\ [][Next]_vars

-----------------------------------------------------------------------------
(* Properties *)

\* Cells lie in the area, the list leads from the head to the terminator over
\* free cells, and what is remembered of them are cells.
TypeOK ==
    /\ Cells \subseteq First .. Guard - MinCell
    /\ {ListHead, Term} \subseteq DOMAIN size /\ size[ListHead] = Hdr /\ size[Term] = 0
    /\ \A c \in Cells : size[c] \in MinCell .. Guard - c
    /\ ListHead \in DOMAIN next /\ Free \subseteq Cells
    /\ \A p \in DOMAIN next : next[p] \in Free \cup {Term}
    /\ largest_block \in Free \cup {ListHead, NoCell}

\* The cells tile the area: however it was cut and joined, each begins where the
\* one before it ends, so that no two blocks overlap and no word is lost.
Tiling ==
    /\ First \in Cells
    /\ \A c \in Cells : End(c) \in Cells \cup {Guard}
    /\ \A c, d \in Cells : c < d => End(c) <= d

\* The free list goes up through the addresses and leaves out no free cell.
Linked ==
    \A p \in DOMAIN next : p < next[p] /\ \A c \in Free : c <= p \/ next[p] <= c

\* No two free cells are neighbours: one would be too small for a request that
\* both together could serve.
Coalesced == \A c \in Free : End(c) \notin Free

\* The counters that replace a walk over the list are what the walk would give
\* (check_stats), and so is the largest block when it is known.
Total(S) == MapThenSumSet(LAMBDA c : size[c] - Hdr, S)

StatsRight ==
    /\ free_block_count = Cardinality(Free) /\ free_size = Total(Free)
    /\ allocated_count = Cardinality(Used) /\ allocated_size = Total(Used)
    /\ allocated_peak >= allocated_size
    /\ largest_block # NoCell => \A c \in Free : size[c] <= size[largest_block]

\* Seen from outside, the area is a heap: blocks large enough, disjoint, and
\* refused only when no stretch of free words would do.
Area == INSTANCE Heap WITH Lo <- First, Hi <- Guard, Need <- [r \in Requests |-> CellSize(r)],
                            Slack <- MinCell, blocks <- [c \in Used |-> size[c]], ptr <- ptr

ImplementsHeap == Area!Spec
=============================================================================
