--------------------------- MODULE SubAllocProofs ---------------------------
(* Proofs about SubAlloc, for every size of the area and all requests.        *)
EXTENDS SubAlloc, TLAPS, WellFoundedInduction, FiniteSetTheorems

Shape == TypeOK /\ Tiling /\ Linked /\ Coalesced

\* A non-empty set of naturals has a least member.
LEMMA Least ==
    ASSUME NEW S \in SUBSET Nat, S # {}
    PROVE  \E n \in S : \A m \in S : n <= m
<1>1. PICK n \in S : \A m \in S : <<m, n>> \notin OpToRel(<, Nat)
  BY NatLessThanWellFounded, WFMin
<1>2. \A m \in S : ~(m < n)
  BY <1>1 DEF OpToRel
<1> QED BY <1>2

\* A non-empty set of naturals that are at most k has a greatest member.
LEMMA Greatest ==
    ASSUME NEW k \in Nat, NEW S \in SUBSET Nat, S # {}, \A n \in S : n <= k
    PROVE  \E n \in S : \A m \in S : m <= n
<1> DEFINE T == {k - n : n \in S}
<1>1. T \in SUBSET Nat /\ T # {}
  <2>1. \A n \in S : n \in Nat /\ n <= k
    OBVIOUS
  <2>2. \A n \in Nat : n <= k => k - n \in Nat
    OBVIOUS
  <2> QED BY <2>1, <2>2
<1>2. PICK x \in T : \A y \in T : x <= y
  BY <1>1, Least
<1>3. PICK n \in S : x = k - n
  OBVIOUS
<1>4. ASSUME NEW m \in S PROVE m <= n
  <2>1. k - m \in T
    OBVIOUS
  <2>2. k - n <= k - m
    BY <2>1, <1>2, <1>3
  <2>3. m \in Nat /\ n \in Nat
    OBVIOUS
  <2> HIDE DEF T
  <2> QED BY <2>2, <2>3
<1> QED BY <1>4

\* A request takes at least the smallest cell.
LEMMA CellSizeRange == \A r \in Nat : CellSize(r) \in Nat /\ CellSize(r) >= MinCell
BY DEF CellSize, MinCell, Hdr

\* The cells are addresses of the area, and so is every place of the list.
LEMMA Addresses ==
    ASSUME TypeOK
    PROVE  /\ Term \in Nat /\ Guard \in Nat /\ Guard < Term
           /\ ListHead = 4 /\ First = 14 /\ MinCell = 4
           /\ \A c \in Cells : /\ c \in Nat /\ First <= c /\ c + MinCell <= Guard
                               /\ size[c] \in Nat /\ MinCell <= size[c]
                               /\ End(c) \in Nat /\ End(c) <= Guard /\ c < End(c)
           /\ Free \subseteq Cells /\ DOMAIN next = Free \cup {ListHead} /\ ListHead \notin Free
           /\ Term \notin Cells /\ ListHead \notin Cells
<1>1. /\ Term \in Nat /\ Guard \in Nat /\ Guard + 1 = Term
      /\ ListHead = 4 /\ First = 14 /\ MinCell = 4 /\ 18 <= Guard
  BY AreaAssumption DEF Guard, Term, First, ListHead, MinCell
<1>2. ASSUME NEW c \in Cells
      PROVE  /\ c \in Nat /\ First <= c /\ c + MinCell <= Guard
             /\ size[c] \in Nat /\ MinCell <= size[c]
             /\ End(c) \in Nat /\ End(c) <= Guard /\ c < End(c)
  <2>1. c \in First .. Guard - MinCell /\ size[c] \in MinCell .. Guard - c
    BY DEF TypeOK
  <2> QED BY <1>1, <2>1 DEF End
<1>3. Free \subseteq Cells /\ DOMAIN next = Free \cup {ListHead} /\ ListHead \notin Free
  BY DEF TypeOK, Free
<1>4. Term \notin Cells /\ ListHead \notin Cells
  BY DEF Cells
<1> QED BY <1>1, <1>2, <1>3, <1>4

\* The first fit is a free cell that is large enough.
LEMMA FirstFitFits ==
    ASSUME TypeOK, NEW n \in Nat, Fits(n) # {}
    PROVE  FirstFit(n) \in Free /\ size[FirstFit(n)] >= n
<1>1. Fits(n) \in SUBSET Nat
  BY Addresses DEF Fits
<1>2. \E c \in Fits(n) : \A d \in Fits(n) : c <= d
  BY <1>1, Least
<1>3. FirstFit(n) \in Fits(n)
  BY <1>2 DEF FirstFit
<1> QED BY <1>3 DEF Fits

\* The search of suba_free stops between two places of the list.
LEMMA BeforeFound ==
    ASSUME Shape, NEW c \in Used
    PROVE  /\ Before(c) \in DOMAIN next /\ Before(c) < c
           /\ c < next[Before(c)]
           /\ next[Before(c)] \in Free \cup {Term}
           /\ \A f \in Free : f <= Before(c) \/ next[Before(c)] <= f
<1> USE DEF Shape
<1> DEFINE S == {p \in DOMAIN next : p < c}
<1>1. c \in Nat /\ c \in Cells /\ c \notin Free /\ c < Term /\ ListHead < c
  <2>1. c \in Cells /\ c \notin Free
    BY DEF Used
  <2> QED BY <2>1, Addresses
<1>2. S \in SUBSET Nat /\ ListHead \in S /\ \A p \in S : p <= c
  <2>1. \A p \in DOMAIN next : p \in Nat
    BY Addresses
  <2>2. \A p \in S : p \in Nat /\ p < c
    BY <2>1
  <2>3. ListHead \in S
    BY <1>1, Addresses
  <2> HIDE DEF S
  <2> QED BY <1>1, <2>2, <2>3
<1>3. PICK p \in S : \A x \in S : x <= p
  BY <1>1, <1>2, Greatest
<1>4. next[p] >= c
  <2>1. next[p] \in Free \cup {Term} /\ p < next[p] /\ next[p] \in Nat
    BY Addresses DEF TypeOK, Linked
  <2>2. ~(next[p] < c)
    <3> SUFFICES ASSUME next[p] < c PROVE FALSE
      OBVIOUS
    <3>1. next[p] \in S
      BY <2>1, <1>1, Addresses
    <3>2. next[p] <= p /\ p \in Nat
      BY <3>1, <1>2, <1>3
    <3> QED BY <3>2, <2>1
  <2> QED BY <2>1, <2>2, <1>1
<1>5. Before(c) \in DOMAIN next /\ Before(c) < c /\ next[Before(c)] >= c
  BY <1>4 DEF Before
<1> HIDE DEF S
<1>6. next[Before(c)] \in Free \cup {Term} /\ next[Before(c)] # c /\ next[Before(c)] \in Nat
  BY <1>1, <1>5, Addresses DEF TypeOK
<1> QED BY <1>1, <1>5, <1>6 DEF Linked

\* Splitting a free cell keeps the shape of the area.
LEMMA SplitKeepsShape ==
    ASSUME Shape, NEW n \in Nat, n >= MinCell, NEW c \in Free, Split(c, n), Forget(c)
    PROVE  Shape'
<1>0. PICK a : a = End(c) - n
  OBVIOUS
<1>1. /\ c \in Nat /\ c \in Cells /\ size[c] \in Nat /\ n + MinCell < size[c]
      /\ a \in Nat /\ c + MinCell < a /\ a + n = End(c) /\ End(c) \in Nat /\ End(c) <= Guard
      /\ a = c + (size[c] - n) /\ size[c] - n \in Nat
  BY <1>0, Addresses DEF Shape, Split, Splits, End
<1>2. a \notin Cells
  BY <1>1, Addresses DEF Shape, Tiling
<1>3. a # ListHead /\ a # Term /\ c # ListHead /\ c # Term
  BY <1>1, Addresses DEF Shape
<1>4. /\ size' = [d \in DOMAIN size \cup {a} |->
                     IF d = a THEN n ELSE IF d = c THEN size[c] - n ELSE size[d]]
      /\ next' = next
  BY <1>0 DEF Split
<1>5. Cells' = Cells \cup {a} /\ Free' = Free
  BY <1>3, <1>4 DEF Cells, Free
<1>6. /\ size'[a] = n /\ size'[c] = size[c] - n
      /\ \A d \in Cells \ {c} : size'[d] = size[d] /\ End(d)' = End(d)
      /\ End(a)' = End(c) /\ End(c)' = a
  BY <1>1, <1>2, <1>4, Addresses DEF Cells, End, Shape
<1>7. TypeOK'
  <2>1. Cells' \subseteq First .. Guard - MinCell
    <3>1. a \in First .. Guard - MinCell
      <4>1. First <= c /\ First \in Nat /\ Guard \in Nat /\ MinCell = 4
        BY <1>1, Addresses DEF Shape
      <4> QED BY <1>1, <4>1
    <3> QED BY <3>1, <1>5 DEF Shape, TypeOK
  <2>2. {ListHead, Term} \subseteq DOMAIN size' /\ size'[ListHead] = Hdr /\ size'[Term] = 0
    BY <1>3, <1>4, Addresses DEF Shape, TypeOK
  <2>3. \A d \in Cells' : size'[d] \in MinCell .. Guard - d
    BY <1>1, <1>5, <1>6, Addresses DEF Shape, TypeOK
  <2>4. /\ ListHead \in DOMAIN next' /\ Free' \subseteq Cells'
        /\ \A p \in DOMAIN next' : next'[p] \in Free' \cup {Term}
    BY <1>4, <1>5 DEF Shape, TypeOK
  <2>5. largest_block' \in Free' \cup {ListHead, NoCell}
    BY <1>5 DEF Shape, TypeOK, Forget
  <2> QED BY <2>1, <2>2, <2>3, <2>4, <2>5 DEF TypeOK
<1>8. Tiling'
  <2>1. First \in Cells'
    BY <1>5 DEF Shape, Tiling
  <2>2. \A d \in Cells' : End(d)' \in Cells' \cup {Guard}
    BY <1>1, <1>5, <1>6 DEF Shape, Tiling
  <2>3. ASSUME NEW d \in Cells', NEW e \in Cells', d < e PROVE End(d)' <= e
    <3>1. CASE d \in Cells \ {c} /\ e \in Cells
      BY <2>3, <3>1, <1>6 DEF Shape, Tiling
    <3>2. CASE d \in Cells \ {c} /\ e = a
      <4>1. d \in Nat /\ End(d) \in Nat /\ End(d)' = End(d)
        BY <3>2, <1>6, Addresses DEF Shape
      <4>2. d < c
        BY <2>3, <3>2, <4>1, <1>1 DEF Shape, Tiling
      <4>3. End(d) <= c
        BY <3>2, <4>2, <1>1 DEF Shape, Tiling
      <4> QED BY <3>2, <4>1, <4>3, <1>1, Addresses DEF Shape
    <3>3. CASE d = c
      <4>1. e = a \/ End(c) <= e
        BY <2>3, <3>3, <1>1, <1>5 DEF Shape, Tiling
      <4>2. e \in Nat
        BY <1>1, <1>5, Addresses DEF Shape
      <4> QED BY <3>3, <4>1, <4>2, <1>1, <1>6
    <3>4. CASE d = a
      <4>0. e \in Nat
        BY <1>1, <1>5, Addresses DEF Shape
      <4>1. e \in Cells /\ c < e
        BY <2>3, <3>4, <4>0, <1>1, <1>5, Addresses DEF Shape
      <4> QED BY <3>4, <4>1, <1>1, <1>6 DEF Shape, Tiling
    <3> QED BY <1>5, <3>1, <3>2, <3>3, <3>4
  <2> QED BY <2>1, <2>2, <2>3 DEF Tiling
<1>9. Linked'
  BY <1>4, <1>5 DEF Shape, Linked
<1>10. Coalesced'
  BY <1>1, <1>2, <1>5, <1>6, Addresses DEF Shape, Coalesced
<1> QED BY <1>7, <1>8, <1>9, <1>10 DEF Shape

\* So does taking a cell out of the list.
LEMMA WholeKeepsShape ==
    ASSUME Shape, NEW n \in Nat, NEW c \in Free, Whole(c, n), Forget(c)
    PROVE  Shape'
<1>1. /\ next' = [p \in DOMAIN next \ {c} |-> IF next[p] = c THEN next[c] ELSE next[p]]
      /\ size' = size
  BY DEF Whole, Unlinked
<1>2. /\ c \in Nat /\ c \in Cells /\ c # ListHead /\ c # Term /\ c < next[c]
      /\ next[c] \in Free \cup {Term} /\ next[c] # c
  BY Addresses DEF Shape, TypeOK, Linked
<1>3. Cells' = Cells /\ Free' = Free \ {c} /\ DOMAIN next' = DOMAIN next \ {c}
  BY <1>1 DEF Cells, Free
<1>4. TypeOK'
  <2>1. /\ ListHead \in DOMAIN next' /\ Free' \subseteq Cells'
        /\ \A p \in DOMAIN next' : next'[p] \in Free' \cup {Term}
    BY <1>1, <1>2, <1>3 DEF Shape, TypeOK
  <2>2. largest_block' \in Free' \cup {ListHead, NoCell}
    BY <1>3 DEF Shape, TypeOK, Forget
  <2> QED BY <1>1, <1>3, <2>1, <2>2 DEF Shape, TypeOK
<1>5. Tiling'
  BY <1>1, <1>3 DEF Shape, Tiling, End
<1>6. Linked'
  <2> SUFFICES ASSUME NEW p \in DOMAIN next'
               PROVE  p < next'[p] /\ \A f \in Free' : f <= p \/ next'[p] <= f
    BY DEF Linked
  <2>0. p \in DOMAIN next /\ c \in DOMAIN next /\ \A f \in Free : f \in Nat
    BY <1>3, Addresses DEF Shape, Free
  <2>1. p \in Nat /\ next[p] \in Nat /\ next[c] \in Nat /\ p < next[p]
    BY <2>0, Addresses DEF Shape, TypeOK, Linked
  <2>4. \A f \in Free : f \in Nat /\ (f <= p \/ next[p] <= f) /\ (f <= c \/ next[c] <= f)
    BY <2>0 DEF Shape, Linked
  <2>2. CASE next[p] = c
    BY <1>1, <1>2, <1>3, <2>0, <2>1, <2>2, <2>4
  <2>3. CASE next[p] # c
    BY <1>1, <1>2, <1>3, <2>0, <2>1, <2>3, <2>4
  <2> QED BY <2>2, <2>3
<1>7. Coalesced'
  BY <1>1, <1>3 DEF Shape, Coalesced, End
<1> QED BY <1>4, <1>5, <1>6, <1>7 DEF Shape

\* What suba_free makes of a cell c between the places p and d of the list: the
\* cell h of hs words, for which those in gone are given up.
Freed(c, p, d, h, hs, gone) ==
    /\ size' = [x \in DOMAIN size \ gone |-> IF x = h THEN hs ELSE size[x]]
    /\ next' = [x \in (DOMAIN next \cup {c}) \ gone |->
                  IF x = h THEN IF JoinsNext(c, d) THEN next[d] ELSE d
                  ELSE IF x = p THEN c ELSE next[x]]
    /\ largest_block' \in {h, largest_block}
    /\ p \in DOMAIN next /\ p < c /\ c < d /\ d \in Free \cup {Term}
    /\ \A f \in Free : f <= p \/ d <= f
    /\ c \in Cells /\ c \in Nat /\ c \notin Free /\ c # ListHead /\ c # Term
    /\ p \in Nat /\ d \in Nat /\ p # Term
    /\ size[c] \in Nat /\ End(c) \in Nat /\ End(c) <= Guard /\ c < End(c) /\ c + MinCell <= Guard
    /\ JoinsPrev(p, c) <=> p \in Free /\ End(p) = c
    /\ JoinsNext(c, d) <=> d \in Free /\ End(c) = d
    /\ h = IF JoinsPrev(p, c) THEN p ELSE c
    /\ gone \subseteq {c, d} /\ (c \in gone <=> JoinsPrev(p, c)) /\ (d \in gone <=> JoinsNext(c, d))
    /\ DOMAIN size' = DOMAIN size \ gone
    /\ Cells' = Cells \ gone
    /\ DOMAIN next' = (DOMAIN next \cup {c}) \ gone
    /\ Free' = (Free \cup {c}) \ gone
    /\ gone \subseteq Free \cup {c} /\ h \in Free' /\ h \in Cells' /\ h \in Nat /\ h <= c
    /\ Used' = Used \ {c} /\ \A x \in Used' : size'[x] = size[x]
    /\ size'[h] = hs /\ End(h)' = h + hs
    /\ \A x \in Cells' \ {h} : size'[x] = size[x] /\ End(x)' = End(x)
    /\ hs \in Nat /\ MinCell <= hs
    /\ h + hs = IF JoinsNext(c, d) THEN End(d) ELSE End(c)

LEMMA FreedCell ==
    ASSUME Shape, NEW c \in Used, SubaFree(c),
           NEW p, NEW d, p = Before(c), d = next[p],
           NEW h, NEW hs, NEW gone,
           h = Host(p, c), hs = HostSize(p, c, d), gone = Joined(p, c, d)
    PROVE  Freed(c, p, d, h, hs, gone)
<1>1. /\ size' = [x \in DOMAIN size \ gone |-> IF x = h THEN hs ELSE size[x]]
      /\ next' = [x \in (DOMAIN next \cup {c}) \ gone |->
                    IF x = h THEN IF JoinsNext(c, d) THEN next[d] ELSE d
                    ELSE IF x = p THEN c ELSE next[x]]
      /\ largest_block' \in {h, largest_block}
  BY DEF SubaFree, LinkedIn, Larger
<1>2. /\ p \in DOMAIN next /\ p < c /\ c < d /\ d \in Free \cup {Term}
      /\ \A f \in Free : f <= p \/ d <= f
  BY BeforeFound
<1>3. /\ c \in Cells /\ c \in Nat /\ c \notin Free /\ c # ListHead /\ c # Term
      /\ p \in Nat /\ d \in Nat /\ p # Term
      /\ size[c] \in Nat /\ End(c) \in Nat /\ End(c) <= Guard /\ c < End(c) /\ c + MinCell <= Guard
  <2>1. c \in Cells /\ c \notin Free
    BY DEF Used
  <2> QED BY <2>1, <1>2, Addresses DEF Shape, Cells
<1>4. JoinsPrev(p, c) <=> p \in Free /\ End(p) = c
  <2>1. End(ListHead) = 6
    BY Addresses DEF Shape, TypeOK, End, Hdr
  <2> QED BY <2>1, <1>2, <1>3, Addresses DEF Shape, JoinsPrev
<1>5. JoinsNext(c, d) <=> d \in Free /\ End(c) = d
  BY <1>2, <1>3, Addresses DEF Shape, JoinsNext
<1>6. /\ h = IF JoinsPrev(p, c) THEN p ELSE c
      /\ gone \subseteq {c, d} /\ (c \in gone <=> JoinsPrev(p, c)) /\ (d \in gone <=> JoinsNext(c, d))
  BY <1>2, <1>3 DEF Host, Joined
<1>7. /\ DOMAIN size' = DOMAIN size \ gone
      /\ Cells' = Cells \ gone
      /\ DOMAIN next' = (DOMAIN next \cup {c}) \ gone
      /\ Free' = (Free \cup {c}) \ gone
      /\ gone \subseteq Free \cup {c} /\ h \in Free' /\ h \in Cells' /\ h \in Nat /\ h <= c
  BY <1>1, <1>2, <1>3, <1>4, <1>5, <1>6, Addresses DEF Shape, Cells, Free
<1>8. Used' = Used \ {c} /\ \A x \in Used' : size'[x] = size[x]
  BY <1>1, <1>3, <1>7 DEF Used, Cells
<1>9. /\ size'[h] = hs /\ End(h)' = h + hs
      /\ \A x \in Cells' \ {h} : size'[x] = size[x] /\ End(x)' = End(x)
  BY <1>1, <1>7 DEF End, Cells
<1>10. /\ hs \in Nat /\ MinCell <= hs
       /\ h + hs = IF JoinsNext(c, d) THEN End(d) ELSE End(c)
  <2>0. MinCell = 4 /\ End(c) = c + size[c] /\ MinCell <= size[c]
    BY <1>3, Addresses DEF Shape, End
  <2>1. JoinsPrev(p, c) => p + size[p] = c /\ size[p] \in Nat /\ h = p
    BY <1>4, <1>6, Addresses DEF Shape, End
  <2>2. JoinsNext(c, d) => c + size[c] = d /\ size[d] \in Nat /\ End(d) = d + size[d]
    BY <1>5, Addresses DEF Shape, End
  <2>3. CASE JoinsPrev(p, c) /\ JoinsNext(c, d)
    <3>1. hs = size[c] + size[p] + size[d]
      BY <2>3 DEF HostSize
    <3> QED BY <2>0, <2>1, <2>2, <2>3, <3>1, <1>3
  <2>4. CASE JoinsPrev(p, c) /\ ~JoinsNext(c, d)
    <3>1. hs = size[c] + size[p] + 0
      BY <2>4 DEF HostSize
    <3> QED BY <2>0, <2>1, <2>4, <3>1, <1>3
  <2>5. CASE ~JoinsPrev(p, c) /\ JoinsNext(c, d)
    <3>1. hs = size[c] + 0 + size[d] /\ h = c
      BY <2>5, <1>6 DEF HostSize
    <3> QED BY <2>0, <2>2, <2>5, <3>1, <1>3
  <2>6. CASE ~JoinsPrev(p, c) /\ ~JoinsNext(c, d)
    <3>1. hs = size[c] + 0 + 0 /\ h = c
      BY <2>6, <1>6 DEF HostSize
    <3> QED BY <2>0, <2>6, <3>1, <1>3
  <2> QED BY <2>3, <2>4, <2>5, <2>6
<1> QED BY <1>1, <1>2, <1>3, <1>4, <1>5, <1>6, <1>7, <1>8, <1>9, <1>10 DEF Freed

\* So does putting a cell back, joined with its neighbours.
LEMMA FreeKeepsShape ==
    ASSUME Shape, NEW c \in Used, SubaFree(c)
    PROVE  Shape' /\ Used' = Used \ {c} /\ \A x \in Used' : size'[x] = size[x]
<1>0. PICK p, d : p = Before(c) /\ d = next[p]
  OBVIOUS
<1>a. PICK h, hs, gone : h = Host(p, c) /\ hs = HostSize(p, c, d) /\ gone = Joined(p, c, d)
  OBVIOUS
<1>b. Freed(c, p, d, h, hs, gone)
  BY <1>0, <1>a, FreedCell
<1>1. /\ size' = [x \in DOMAIN size \ gone |-> IF x = h THEN hs ELSE size[x]]
      /\ next' = [x \in (DOMAIN next \cup {c}) \ gone |->
                    IF x = h THEN IF JoinsNext(c, d) THEN next[d] ELSE d
                    ELSE IF x = p THEN c ELSE next[x]]
      /\ largest_block' \in {h, largest_block}
  BY <1>b DEF Freed
<1>2. /\ p \in DOMAIN next /\ p < c /\ c < d /\ d \in Free \cup {Term}
      /\ \A f \in Free : f <= p \/ d <= f
  BY <1>b DEF Freed
<1>3. /\ c \in Cells /\ c \in Nat /\ c \notin Free /\ c # ListHead /\ c # Term
      /\ p \in Nat /\ d \in Nat /\ p # Term
      /\ size[c] \in Nat /\ End(c) \in Nat /\ End(c) <= Guard /\ c < End(c) /\ c + MinCell <= Guard
  BY <1>b DEF Freed
<1>4. JoinsPrev(p, c) <=> p \in Free /\ End(p) = c
  BY <1>b DEF Freed
<1>5. JoinsNext(c, d) <=> d \in Free /\ End(c) = d
  BY <1>b DEF Freed
<1>6. /\ h = IF JoinsPrev(p, c) THEN p ELSE c
      /\ gone \subseteq {c, d} /\ (c \in gone <=> JoinsPrev(p, c)) /\ (d \in gone <=> JoinsNext(c, d))
  BY <1>b DEF Freed
<1>7. /\ DOMAIN size' = DOMAIN size \ gone
      /\ Cells' = Cells \ gone
      /\ DOMAIN next' = (DOMAIN next \cup {c}) \ gone
      /\ Free' = (Free \cup {c}) \ gone
      /\ gone \subseteq Free \cup {c} /\ h \in Free' /\ h \in Cells' /\ h \in Nat /\ h <= c
  BY <1>b DEF Freed
<1>8. Used' = Used \ {c} /\ \A x \in Used' : size'[x] = size[x]
  BY <1>b DEF Freed
<1>9. /\ size'[h] = hs /\ End(h)' = h + hs
      /\ \A x \in Cells' \ {h} : size'[x] = size[x] /\ End(x)' = End(x)
  BY <1>b DEF Freed
<1>10. /\ hs \in Nat /\ MinCell <= hs
       /\ h + hs = IF JoinsNext(c, d) THEN End(d) ELSE End(c)
  BY <1>b DEF Freed
<1>11. /\ h + hs \in Nat /\ h + hs <= Guard /\ c < h + hs
       /\ h + hs \notin Free' /\ h + hs \in Cells' \cup {Guard}
       /\ \A x \in Cells' : h < x => h + hs <= x
  <2>1. CASE JoinsNext(c, d)
    <3>1. d \in Free /\ d \in Cells /\ End(d) \in Nat /\ End(d) <= Guard /\ d < End(d) /\ End(c) = d
      BY <2>1, <1>5, Addresses DEF Shape
    <3>2. End(d) \notin Free /\ End(d) # c
      BY <3>1, <1>2, <1>3 DEF Shape, Coalesced
    <3>3. End(d) \in Cells' \cup {Guard}
      BY <3>1, <3>2, <1>3, <1>6, <1>7 DEF Shape, Tiling
    <3>4. ASSUME NEW x \in Cells', h < x PROVE End(d) <= x
      <4>1. x \in Cells /\ x \in Nat /\ x # d /\ End(h) \in Nat
        BY <2>1, <1>6, <1>7, Addresses DEF Shape
      <4>2. c <= x
        <5>1. CASE JoinsPrev(p, c)
          <6>1. p \in Cells /\ h = p /\ End(p) = c
            BY <5>1, <1>4, <1>6, Addresses DEF Shape
          <6> QED BY <3>4, <4>1, <6>1 DEF Shape, Tiling
        <5>2. CASE ~JoinsPrev(p, c)
          BY <3>4, <4>1, <5>2, <1>3, <1>6
        <5> QED BY <5>1, <5>2
      <4>3. c # x
        BY <3>4, <4>1, <1>6, <1>7
      <4>4. d <= x
        BY <3>1, <4>1, <4>2, <4>3, <1>3 DEF Shape, Tiling
      <4> QED BY <3>1, <4>1, <4>4, <1>3 DEF Shape, Tiling
    <3> QED BY <2>1, <3>1, <3>2, <3>3, <3>4, <1>2, <1>3, <1>7, <1>10
  <2>2. CASE ~JoinsNext(c, d)
    <3>1. End(c) # d
      <4>1. d # Term => d \in Free
        BY <1>2
      <4>2. End(c) # Term
        BY <1>3, Addresses DEF Shape
      <4> QED BY <2>2, <4>1, <4>2, <1>5
    <3>2. End(c) \notin Free /\ End(c) # c
      <4> SUFFICES ASSUME End(c) \in Free PROVE FALSE
        BY <1>3
      <4>1. d <= End(c) /\ d \in Cells
        BY <1>2, <1>3, Addresses DEF Shape
      <4> QED BY <3>1, <4>1, <1>2, <1>3 DEF Shape, Tiling
    <3>3. End(c) \in Cells' \cup {Guard}
      BY <2>2, <3>2, <1>3, <1>6, <1>7 DEF Shape, Tiling
    <3>4. ASSUME NEW x \in Cells', h < x PROVE End(c) <= x
      <4>1. x \in Cells /\ x \in Nat
        BY <1>7, Addresses DEF Shape
      <4>2. c <= x
        <5>1. CASE JoinsPrev(p, c)
          <6>1. p \in Cells /\ h = p /\ End(p) = c
            BY <5>1, <1>4, <1>6, Addresses DEF Shape
          <6> QED BY <3>4, <4>1, <6>1 DEF Shape, Tiling
        <5>2. CASE ~JoinsPrev(p, c)
          BY <3>4, <4>1, <5>2, <1>3, <1>6
        <5> QED BY <5>1, <5>2
      <4>3. c # x
        BY <3>4, <4>1, <1>6, <1>7
      <4> QED BY <4>1, <4>2, <4>3, <1>3 DEF Shape, Tiling
    <3> QED BY <2>2, <3>2, <3>3, <3>4, <1>3, <1>7, <1>10
  <2> QED BY <2>1, <2>2
<1>12. TypeOK'
  <2>1. Cells' \subseteq First .. Guard - MinCell
    BY <1>7 DEF Shape, TypeOK
  <2>2. {ListHead, Term} \subseteq DOMAIN size' /\ size'[ListHead] = Hdr /\ size'[Term] = 0
    <3>1. /\ ListHead \notin gone /\ Term \notin gone /\ h # ListHead /\ h # Term
      BY <1>3, <1>7, Addresses DEF Shape
    <3> QED BY <3>1, <1>1, <1>7 DEF Shape, TypeOK
  <2>3. \A x \in Cells' : size'[x] \in MinCell .. Guard - x
    <3>1. hs \in MinCell .. Guard - h
      BY <1>7, <1>10, <1>11, Addresses DEF Shape
    <3> QED BY <3>1, <1>7, <1>9 DEF Shape, TypeOK
  <2>4. ListHead \in DOMAIN next' /\ Free' \subseteq Cells'
    BY <1>3, <1>7, Addresses DEF Shape
  <2>5. ASSUME NEW x \in DOMAIN next' PROVE next'[x] \in Free' \cup {Term}
    <3>1. CASE x = h
      <4>1. d \notin gone /\ d \in Free \cup {Term} => d \in Free' \cup {Term}
        BY <1>7
      <4>2. ASSUME JoinsNext(c, d) PROVE next[d] \in Free' \cup {Term}
        <5>1. d \in Free /\ next[d] \in Free \cup {Term} /\ d < next[d] /\ next[d] \in Nat
          BY <4>2, <1>5, Addresses DEF Shape, TypeOK, Linked
        <5> QED BY <5>1, <1>2, <1>3, <1>6, <1>7
      <4> QED BY <3>1, <4>1, <4>2, <1>1, <1>2, <1>6
    <3>2. CASE x # h /\ x = p
      BY <3>2, <1>1, <1>6, <1>7
    <3>3. CASE x # h /\ x # p
      <4>1. x \in DOMAIN next /\ next'[x] = next[x] /\ next[x] \in Free \cup {Term}
        BY <3>3, <1>1, <1>6, <1>7 DEF Shape, TypeOK
      <4>2. next[x] # c
        BY <4>1, <1>3
      <4>3. next[x] # d \/ d \notin gone
        <5> SUFFICES ASSUME next[x] = d, d \in gone PROVE FALSE
          OBVIOUS
        <5>1. x \in Nat /\ x < d /\ d \in Free
          BY <4>1, <1>5, <1>6, Addresses DEF Shape, Linked
        <5>2. CASE x = ListHead
          <6>1. p = ListHead \/ (p \in Free /\ ListHead < p)
            BY <1>2, Addresses DEF Shape
          <6>2. p \in Free => (p <= ListHead \/ d <= p)
            BY <4>1, <5>2 DEF Shape, Linked
          <6> QED BY <3>3, <5>2, <6>1, <6>2, <1>2, <1>3, Addresses DEF Shape
        <5>3. CASE x \in Free
          <6>1. x < p
            BY <3>3, <5>1, <5>3, <1>2, <1>3
          <6>2. p \in Free
            BY <6>1, <5>3, <1>2, Addresses DEF Shape
          <6>3. p <= x \/ d <= p
            BY <4>1, <6>2 DEF Shape, Linked
          <6> QED BY <5>1, <6>1, <6>3, <1>2, <1>3
        <5> QED BY <4>1, <5>2, <5>3, Addresses DEF Shape
      <4> QED BY <4>1, <4>2, <4>3, <1>6, <1>7
    <3> QED BY <3>1, <3>2, <3>3
  <2>6. largest_block' \in Free' \cup {ListHead, NoCell}
    <3>1. largest_block # c
      <4>1. c # NoCell
        BY <1>3, Addresses DEF Shape, NoCell
      <4> QED BY <4>1, <1>3 DEF Shape, TypeOK
    <3>2. ASSUME largest_block = d, d \in gone PROVE largest_block' = h
      <4>1. d \in Free /\ size[d] \in Nat /\ MinCell <= size[d] /\ d # NoCell
        BY <3>2, <1>2, <1>3, <1>5, <1>6, Addresses DEF Shape, NoCell
      <4>2. hs > size[d]
        BY <4>1, <3>2, <1>3, <1>4, <1>6, <1>a, Addresses DEF Shape, HostSize, End
      <4> QED BY <3>2, <4>1, <4>2, <1>0, <1>a DEF SubaFree, Larger
    <3> QED BY <3>1, <3>2, <1>1, <1>6, <1>7 DEF Shape, TypeOK
  <2> QED BY <2>1, <2>2, <2>3, <2>4, <2>5, <2>6 DEF TypeOK
<1>13. Tiling'
  <2>1. First \in Cells'
    BY <1>2, <1>3, <1>4, <1>6, <1>7, Addresses DEF Shape, Tiling
  <2>2. ASSUME NEW x \in Cells' PROVE End(x)' \in Cells' \cup {Guard}
    <3>1. CASE x = h
      BY <3>1, <1>9, <1>11
    <3>2. CASE x # h
      <4>1. x \in Cells /\ End(x)' = End(x) /\ End(x) \in Cells \cup {Guard}
        BY <3>2, <1>7, <1>9 DEF Shape, Tiling
      <4>2. ASSUME NEW y \in Cells, End(x) = End(y) PROVE x = y
        BY <4>1, <4>2, Addresses DEF Shape, Tiling
      <4>3. c \in gone => End(x) # c
        BY <3>2, <4>2, <1>4, <1>6, Addresses DEF Shape
      <4>4. d \in gone => End(x) # d
        BY <3>2, <4>2, <1>3, <1>5, <1>6, <1>7
      <4> QED BY <4>1, <4>3, <4>4, <1>6, <1>7
    <3> QED BY <3>1, <3>2
  <2>3. ASSUME NEW x \in Cells', NEW y \in Cells', x < y PROVE End(x)' <= y
    BY <2>3, <1>7, <1>9, <1>11 DEF Shape, Tiling
  <2> QED BY <2>1, <2>2, <2>3 DEF Tiling
<1>14. p <= h /\ p \in Free \cup {ListHead} /\ (c \in Free' => h = c)
  BY <1>2, <1>3, <1>6, <1>7, Addresses DEF Shape
<1>15. Linked'
  <2> SUFFICES ASSUME NEW x \in DOMAIN next', NEW f \in Free'
               PROVE  x < next'[x] /\ (f <= x \/ next'[x] <= f)
    <3>1. h \in Free'
      BY <1>7
    <3> QED BY <3>1 DEF Linked
  <2>0. f \in Free \cup {c} /\ f \in Nat /\ x \in Nat
    <3>1. f \in Free \cup {c} /\ x \in Free \cup {ListHead, c}
      BY <1>7, Addresses DEF Shape
    <3>2. \A y \in Free \cup {ListHead} : y \in Nat
      BY Addresses DEF Shape
    <3> QED BY <3>1, <3>2, <1>3
  <2>1. CASE x = h
    <3>1. CASE JoinsNext(c, d)
      <4>1. /\ next'[x] = next[d] /\ d \in Free /\ d < next[d] /\ next[d] \in Nat
            /\ f # d /\ (f \in Free => f <= d \/ next[d] <= f)
        BY <2>1, <3>1, <1>1, <1>5, <1>6, <1>7, Addresses DEF Shape, TypeOK, Linked
      <4> QED BY <2>0, <2>1, <4>1, <1>2, <1>3, <1>7, <1>14
    <3>2. CASE ~JoinsNext(c, d)
      <4>1. next'[x] = d
        BY <2>1, <3>2, <1>1
      <4> QED BY <2>0, <2>1, <4>1, <1>2, <1>3, <1>7, <1>14
    <3> QED BY <3>1, <3>2
  <2>2. CASE x # h /\ x = p
    <3>1. next'[x] = c
      BY <2>2, <1>1, <1>6
    <3> QED BY <2>0, <2>2, <3>1, <1>2, <1>3
  <2>3. CASE x # h /\ x # p
    <3>1. /\ x \in DOMAIN next /\ next'[x] = next[x] /\ x < next[x] /\ next[x] \in Nat
          /\ \A g \in Free : g <= x \/ next[x] <= g
      BY <2>3, <1>1, <1>6, <1>7, Addresses DEF Shape, TypeOK, Linked
    <3>2. CASE f = c
      <4>1. CASE d <= x
        BY <2>0, <3>1, <3>2, <4>1, <1>2, <1>3
      <4>2. CASE x < p
        <5>1. p \in Free
          BY <4>2, <2>0, <3>1, <1>3, <1>14, Addresses DEF Shape
        <5> QED BY <2>0, <3>1, <3>2, <4>2, <5>1, <1>2, <1>3
      <4>3. d <= x \/ x < p
        <5>1. CASE x \in Free
          BY <2>0, <2>3, <5>1, <1>2, <1>3
        <5>2. CASE x = ListHead
          BY <2>3, <5>2, <1>14, Addresses DEF Shape
        <5> QED BY <3>1, <5>1, <5>2, Addresses DEF Shape
      <4> QED BY <4>1, <4>2, <4>3
    <3>3. CASE f \in Free
      BY <3>1, <3>3
    <3> QED BY <2>0, <3>2, <3>3
  <2> QED BY <2>1, <2>2, <2>3
<1>16. Coalesced'
  <2> SUFFICES ASSUME NEW x \in Free', End(x)' \in Free' PROVE FALSE
    BY DEF Coalesced
  <2>1. x # h /\ x \in Free /\ End(x)' = End(x)
    BY <1>7, <1>9, <1>11, <1>14, <1>12 DEF TypeOK
  <2>2. End(x) = c /\ h = c /\ ~JoinsPrev(p, c)
    BY <2>1, <1>3, <1>6, <1>7, <1>14 DEF Shape, Coalesced
  <2>3. x \in Nat /\ x < c /\ x # p
    BY <2>1, <2>2, <1>3, <1>4, Addresses DEF Shape
  <2>4. x < p
    BY <2>1, <2>3, <1>2, <1>3
  <2>5. p \in Cells
    BY <2>1, <2>3, <2>4, <1>14, Addresses DEF Shape
  <2> QED BY <2>1, <2>2, <2>3, <2>4, <2>5, <1>2, <1>3, Addresses DEF Shape, Tiling
<1> QED BY <1>8, <1>12, <1>13, <1>15, <1>16 DEF Shape

\* suba_getmeminfo finds a largest cell.
LEMMA LargestListed ==
    ASSUME TypeOK
    PROVE  Largest \in Free \cup {ListHead} /\ \A d \in Free : size[d] <= size[Largest]
<1> DEFINE L == Free \cup {ListHead}
           S == {size[c] : c \in L}
<1>1. \A c \in L : c \in Nat /\ size[c] \in Nat /\ size[c] <= Guard
  <2>1. \A c \in Cells : c \in Nat /\ c <= Guard /\ size[c] \in MinCell .. Guard - c
    <3>1. \A c \in Cells : c \in Nat /\ c + MinCell <= Guard
      BY Addresses
    <3> QED BY <3>1, Addresses DEF TypeOK
  <2>2. \A c \in Cells : size[c] \in Nat /\ size[c] <= Guard
    BY <2>1, Addresses
  <2>3. ListHead = 4 /\ size[ListHead] = 2 /\ 14 + 4 <= Guard
    BY Addresses, AreaAssumption DEF TypeOK, Hdr, First, MinCell
  <2> QED BY <2>1, <2>2, <2>3, Addresses
<1>2. S \in SUBSET Nat /\ S # {} /\ \A n \in S : n <= Guard
  BY <1>1
<1>3. PICK s \in S : \A n \in S : n <= s
  <2>1. Guard \in Nat
    BY Addresses
  <2> HIDE DEF S
  <2> QED BY <1>2, <2>1, Greatest
<1> DEFINE M == {c \in L : size[c] = s}
<1>4. M \in SUBSET Nat /\ M # {}
  BY <1>1, <1>3
<1>5. PICK m \in M : \A c \in M : m <= c
  <2> HIDE DEF M
  <2> QED BY <1>4, Least
<1>6. \A d \in L : size[d] < size[m] \/ (size[d] = size[m] /\ m <= d)
  <2> SUFFICES ASSUME NEW d \in L PROVE size[d] < size[m] \/ (size[d] = size[m] /\ m <= d)
    OBVIOUS
  <2>1. size[d] <= s /\ size[m] = s /\ size[d] \in Nat /\ s \in Nat
    BY <1>1, <1>3, <1>5
  <2>2. size[d] = s => m <= d
    BY <1>5
  <2> HIDE DEF L, M, S
  <2> QED BY <2>1, <2>2
<1>7. Largest \in L /\ \A d \in L : size[d] < size[Largest] \/ (size[d] = size[Largest] /\ Largest <= d)
  BY <1>5, <1>6 DEF Largest
<1> QED BY <1>1, <1>7

LEMMA AreaInit == Init => Shape
<1> SUFFICES ASSUME Init PROVE Shape
  OBVIOUS
<1>1. Term \in Nat /\ Guard \in Nat /\ Guard < Term /\ 18 <= Guard
  BY AreaAssumption DEF Term, Guard, First, MinCell
<1>2. Cells = {First} /\ Free = {First} /\ DOMAIN next = {ListHead, First}
  BY <1>1 DEF Init, Cells, Free, First, ListHead
<1>3. /\ size[First] = Guard - First /\ size[ListHead] = Hdr /\ size[Term] = 0
      /\ next[ListHead] = First /\ next[First] = Term
      /\ End(First) = Guard
  BY <1>1 DEF Init, First, ListHead, End
<1>4. TypeOK
  BY <1>1, <1>2, <1>3 DEF TypeOK, Init, First, ListHead, MinCell
<1>5. Tiling /\ Linked /\ Coalesced
  BY <1>1, <1>2, <1>3 DEF Tiling, Linked, Coalesced, First, ListHead
<1> QED BY <1>4, <1>5 DEF Shape

LEMMA AreaStep == Shape /\ [Next]_vars => Shape'
<1> SUFFICES ASSUME Shape, [Next]_vars PROVE Shape'
  OBVIOUS
<1>1. ASSUME NEW r \in Requests, Alloc(r) PROVE Shape'
  <2>1. PICK n : n = CellSize(r)
    OBVIOUS
  <2>2. n \in Nat /\ n >= MinCell
    BY <2>1, CellSizeRange, RequestAssumption
  <2>3. PICK c : c = FirstFit(n)
    OBVIOUS
  <2>4. c \in Free /\ (Split(c, n) \/ Whole(c, n)) /\ Forget(c)
    BY <1>1, <2>1, <2>2, <2>3, FirstFitFits DEF Alloc, Shape
  <2> QED BY <2>2, <2>4, SplitKeepsShape, WholeKeepsShape
<1>2. ASSUME NEW r \in Requests, Refuse(r) PROVE Shape'
  BY <1>2 DEF Refuse, freeStats, Shape, TypeOK, Tiling, Linked, Coalesced, Cells, Free, End
<1>3. ASSUME NEW c \in Used, SubaFree(c) PROVE Shape'
  BY <1>3, FreeKeepsShape
<1>4. CASE MemInfo
  <2>1. Largest \in Free \cup {ListHead}
    BY LargestListed DEF Shape
  <2> QED BY <1>4, <2>1 DEF MemInfo, Shape, TypeOK, Tiling, Linked, Coalesced, Cells, Free, End
<1>5. CASE UNCHANGED vars
  BY <1>5 DEF vars, freeStats, Shape, TypeOK, Tiling, Linked, Coalesced, Cells, Free, End
<1> QED BY <1>1, <1>2, <1>3, <1>4, <1>5 DEF Next

LEMMA ShapeInvariant == Spec => []Shape
BY AreaInit, AreaStep, PTL DEF Spec

\* The allocator never writes to an address that is not a cell's.
THEOREM AllocatorTypeCorrect == Spec => []TypeOK
<1>1. Shape => TypeOK
  BY DEF Shape
<1> QED BY ShapeInvariant, <1>1, PTL

\* However large the area and whatever is asked for and given back in whatever
\* order, the cells tile the area: no two blocks overlap, no word is lost.
THEOREM BlocksTile == Spec => []Tiling
<1>1. Shape => Tiling
  BY DEF Shape
<1> QED BY ShapeInvariant, <1>1, PTL

\* The free list always leads through all free cells in the order of addresses.
THEOREM ListComplete == Spec => []Linked
<1>1. Shape => Linked
  BY DEF Shape
<1> QED BY ShapeInvariant, <1>1, PTL

\* suba_free leaves no two free neighbours.
THEOREM NeighboursJoined == Spec => []Coalesced
<1>1. Shape => Coalesced
  BY DEF Shape
<1> QED BY ShapeInvariant, <1>1, PTL

-----------------------------------------------------------------------------
(* The area is a heap.                                                        *)

Blocks == [c \in Used |-> size[c]]

\* Where no free cell is large enough, no stretch of free words is: a stretch
\* begins in a free cell, which ends at a used one.
LEMMA NoRoom ==
    ASSUME Shape, NEW n \in Nat, n > 0, Fits(n) = {}, NEW a \in First .. Guard - 1
    PROVE  ~Area!FreeStretch(a, n)
<1> SUFFICES ASSUME a + n <= Guard, \A b \in Used : a + n <= b \/ b + size[b] <= a
             PROVE  FALSE
  BY DEF Area!FreeStretch
<1>0. a \in Nat /\ First <= a /\ a < Guard /\ First \in Nat /\ Guard \in Nat
  BY Addresses DEF Shape
<1> DEFINE S == {c \in Cells : c <= a}
<1>1. S \in SUBSET Nat /\ First \in S /\ \A c \in S : c <= a
  BY <1>0, Addresses DEF Shape, Tiling
<1>2. PICK c \in S : \A d \in S : d <= c
  <2> HIDE DEF S
  <2> QED BY <1>0, <1>1, Greatest
<1>3. c \in Cells /\ c <= a /\ c \in Nat /\ End(c) \in Nat /\ size[c] \in Nat /\ End(c) = c + size[c]
  BY Addresses DEF Shape, End
<1>4. a < End(c)
  <2>1. CASE End(c) = Guard
    BY <2>1, <1>0
  <2>2. CASE End(c) \in Cells
    <3>1. End(c) \in S => End(c) <= c
      BY <1>2
    <3> QED BY <2>2, <3>1, <1>0, <1>3, Addresses DEF Shape
  <2> QED BY <2>1, <2>2, <1>3 DEF Shape, Tiling
<1>5. c \in Free
  <2>1. c \in Used => a + n <= c \/ c + size[c] <= a
    OBVIOUS
  <2> QED BY <2>1, <1>0, <1>3, <1>4 DEF Used
<1>6. size[c] < n
  BY <1>3, <1>5 DEF Fits
<1>7. End(c) < a + n /\ End(c) \in Used
  <2>1. End(c) < a + n
    BY <1>0, <1>3, <1>6
  <2> QED BY <2>1, <1>0, <1>3, <1>5 DEF Shape, Tiling, Coalesced, Used
<1>8. a + n <= End(c) \/ End(c) + size[End(c)] <= a
  BY <1>7
<1>9. size[End(c)] \in Nat
  BY <1>7, Addresses DEF Shape, Used
<1> QED BY <1>0, <1>3, <1>4, <1>7, <1>8, <1>9

LEMMA AreaStepsMap ==
    ASSUME Shape, [Next]_vars
    PROVE  [Area!Next]_<<Blocks, ptr>>
<1>1. ASSUME NEW r \in Requests, Alloc(r) PROVE Area!Next
  <2>0. PICK n, c : n = CellSize(r) /\ c = FirstFit(n)
    OBVIOUS
  <2>1. n \in Nat /\ n >= MinCell
    BY <2>0, CellSizeRange, RequestAssumption
  <2>2. c \in Free /\ size[c] >= n /\ (Split(c, n) \/ Whole(c, n)) /\ Forget(c)
    BY <1>1, <2>0, <2>1, FirstFitFits DEF Alloc, Shape
  <2>3. /\ c \in Cells /\ c \in Nat /\ First <= c /\ size[c] \in Nat /\ End(c) = c + size[c]
        /\ End(c) <= Guard /\ c + MinCell <= Guard /\ MinCell = 4 /\ First = 14 /\ Guard \in Nat
        /\ c # ListHead /\ c # Term
    BY <2>2, Addresses DEF Shape, End
  <2>4. ASSUME NEW b \in Used PROVE End(b) <= c \/ End(c) <= b
    <3>1. b \in Cells /\ b \in Nat /\ b # c
      BY <2>2, Addresses DEF Shape, Used
    <3> QED BY <2>3, <3>1 DEF Shape, Tiling
  <2>5. \A b \in Used : b \in Nat /\ End(b) = b + size[b] /\ size[b] \in Nat
    BY Addresses DEF Shape, Used, End
  <2>6. ASSUME NEW a, NEW m \in n .. n + MinCell, a \in c .. Guard, a + m = End(c), ptr' = a,
               Used' = Used \cup {a}, size'[a] = m, \A b \in Used : b # a => size'[b] = size[b],
               a \notin Used
        PROVE  Area!Next
    <3>1. a \in First .. Guard /\ a + m <= Guard /\ m \in Nat
      BY <2>1, <2>3, <2>6
    <3>2. ASSUME NEW b \in Used PROVE a + m <= b \/ b + size[b] <= a
      BY <2>3, <2>4, <2>5, <2>6, <3>1
    <3>3. Area!FreeStretch(a, m)
      BY <3>1, <3>2 DEF Area!FreeStretch
    <3>4. Blocks' = [b \in DOMAIN Blocks \cup {a} |-> IF b = a THEN m ELSE Blocks[b]]
      BY <2>6 DEF Blocks
    <3>5. Area!Alloc(a, m)
      BY <2>6, <3>3, <3>4 DEF Area!Alloc, Blocks
    <3>6. m \in [q \in Requests |-> CellSize(q)][r] .. [q \in Requests |-> CellSize(q)][r] + MinCell
      BY <2>0, <2>6
    <3> QED BY <3>1, <3>5, <3>6 DEF Area!Next
  <2>7. CASE Split(c, n)
    <3>0. PICK a : a = End(c) - n
      OBVIOUS
    <3>1. /\ size' = [d \in DOMAIN size \cup {a} |->
                       IF d = a THEN n ELSE IF d = c THEN size[c] - n ELSE size[d]]
          /\ next' = next /\ ptr' = a /\ n + MinCell < size[c]
      BY <2>7, <3>0 DEF Split, Splits
    <3>2. a \in Nat /\ c < a /\ a < End(c) /\ a + n = End(c) /\ a # ListHead /\ a # Term /\ a \in c .. Guard
      BY <2>1, <2>3, <3>0, <3>1, Addresses DEF Shape
    <3>3. a \notin Cells
      BY <2>3, <3>2, Addresses DEF Shape, Tiling
    <3>4. Used' = Used \cup {a} /\ a \notin Used
      <4>1. Free' = Free /\ Cells' = Cells \cup {a}
        BY <3>1, <3>2 DEF Free, Cells
      <4> QED BY <3>3, <4>1, Addresses DEF Shape, Used
    <3>5. size'[a] = n /\ \A b \in Used : size'[b] = size[b]
      BY <2>2, <3>1, <3>4 DEF Used, Cells
    <3>6. n \in n .. n + MinCell
      BY <2>1, <2>3
    <3> QED BY <2>6, <3>1, <3>2, <3>4, <3>5, <3>6
  <2>8. CASE Whole(c, n)
    <3>1. size' = size /\ ptr' = c /\ size[c] <= n + MinCell /\ Free' = Free \ {c} /\ Cells' = Cells
      BY <2>1, <2>3, <2>8 DEF Whole, Splits, Unlinked, Free, Cells
    <3>2. Used' = Used \cup {c} /\ c \notin Used
      BY <2>2, <2>3, <3>1 DEF Used
    <3>3. size[c] \in n .. n + MinCell /\ c \in c .. Guard
      BY <2>1, <2>2, <2>3, <3>1
    <3> QED BY <2>3, <2>6, <3>1, <3>2, <3>3
  <2> QED BY <2>2, <2>7, <2>8
<1>2. ASSUME NEW r \in Requests, Refuse(r) PROVE Area!Next
  <2>0. PICK n : n = CellSize(r)
    OBVIOUS
  <2>1. n \in Nat /\ n > 0
    BY <2>0, CellSizeRange, RequestAssumption DEF MinCell
  <2>2. Fits(n) = {} /\ ptr' = NoCell /\ UNCHANGED <<size, next>>
    BY <1>2, <2>0 DEF Refuse
  <2>3. Blocks' = Blocks
    BY <2>2 DEF Blocks, Used, Cells, Free
  <2>4. \A a \in First .. Guard - 1 : ~Area!FreeStretch(a, n)
    BY <2>1, <2>2, NoRoom
  <2>5. [q \in Requests |-> CellSize(q)][r] = n
    BY <2>0
  <2>6. Area!Refuse(r)
    BY <2>2, <2>3, <2>4, <2>5 DEF Area!Refuse, Blocks, NoCell
  <2> QED BY <2>6 DEF Area!Next
<1>3. ASSUME NEW c \in Used, SubaFree(c) PROVE Area!Next
  <2>1. Used' = Used \ {c} /\ \A x \in Used' : size'[x] = size[x]
    BY <1>3, FreeKeepsShape
  <2>2. Blocks' = [b \in DOMAIN Blocks \ {c} |-> Blocks[b]] /\ ptr' = ptr
    BY <1>3, <2>1 DEF Blocks, SubaFree
  <2>3. Area!Release(c)
    BY <2>2 DEF Area!Release, Blocks
  <2>4. c \in DOMAIN Blocks
    BY DEF Blocks
  <2> QED BY <2>3, <2>4 DEF Area!Next, Blocks
<1>4. CASE MemInfo
  BY <1>4 DEF MemInfo, Blocks, Used, Cells, Free
<1>5. CASE UNCHANGED vars
  BY <1>5 DEF vars, Blocks, Used, Cells, Free
<1> QED BY <1>1, <1>2, <1>3, <1>4, <1>5 DEF Next

\* core/suba.c is a heap: every block is large enough and overlaps no other, and a
\* request is refused only when no stretch of free words would do.
THEOREM AreaIsHeap == Spec => ImplementsHeap
<1>1. Init => Area!Init
  <2> SUFFICES ASSUME Init PROVE Area!Init
    OBVIOUS
  <2>1. Shape
    BY AreaInit
  <2>2. Cells = {First} /\ Free = {First}
    BY AreaAssumption DEF Init, Cells, Free, First, ListHead, Term, Guard, MinCell
  <2>3. Used = {}
    BY <2>2 DEF Used
  <2> QED BY <2>3 DEF Init, Area!Init, NoCell
<1>2. Shape /\ [Next]_vars => [Area!Next]_<<[c \in Used |-> size[c]], ptr>>
  BY AreaStepsMap DEF Blocks
<1> QED BY <1>1, <1>2, ShapeInvariant, PTL DEF Spec, Area!Spec, ImplementsHeap

-----------------------------------------------------------------------------
(* Sums over sets of cells.  Total is a fold, whose recursive function is there *)
(* for every finite set; what it returns does not depend on the order of the   *)
(* cells.                                                                     *)

\* the words of the blocks in S, if the cells have the sizes sz
Weight(sz, S) == MapThenSumSet(LAMBDA c : sz[c] - Hdr, S)

Pick(S) == CHOOSE c \in S : TRUE

\* f is the recursive function of the fold over the subsets of U
IsFold(f, sz, U) ==
    f = [S \in SUBSET U |-> IF S = {} THEN 0 ELSE sz[Pick(S)] - Hdr + f[S \ {Pick(S)}]]

LEMMA WeightIsFold ==
    ASSUME NEW sz, NEW S
    PROVE  Weight(sz, S) = (CHOOSE f : IsFold(f, sz, S))[S]
BY DEF Weight, IsFold, Pick, MapThenSumSet, MapThenFoldSet

LEMMA Picked == ASSUME NEW S, S # {} PROVE Pick(S) \in S
BY DEF Pick

\* The recursive function is built from the smaller subsets to the larger ones.
LEMMA FoldExists ==
    ASSUME NEW sz, NEW U, IsFiniteSet(U), \A c \in U : sz[c] \in Int
    PROVE  \E f : IsFold(f, sz, U) /\ \A S \in SUBSET U : f[S] \in Int
<1> DEFINE Small(n) == {S \in SUBSET U : Cardinality(S) <= n}
           Upto(n, g) ==
               /\ g = [S \in Small(n) |->
                         IF S = {} THEN 0 ELSE sz[Pick(S)] - Hdr + g[S \ {Pick(S)}]]
               /\ \A S \in Small(n) : g[S] \in Int
           Bad == {n \in Nat : ~ \E g : Upto(n, g)}
<1>0. \A S \in SUBSET U : IsFiniteSet(S) /\ Cardinality(S) \in Nat
  BY FS_Subset, FS_CardinalityType
<1>1. ASSUME NEW n \in Nat, NEW S \in Small(n + 1), S # {}
      PROVE  S \ {Pick(S)} \in Small(n) /\ Pick(S) \in U
  <2>1. Pick(S) \in S /\ S \in SUBSET U
    BY <1>1, Picked
  <2>2. Cardinality(S \ {Pick(S)}) = Cardinality(S) - 1
    BY <1>0, <2>1, FS_RemoveElement
  <2> QED BY <1>0, <1>1, <2>1, <2>2
<1>2. \E g : Upto(0, g)
  <2>1. \A S \in Small(0) : S = {}
    BY <1>0, FS_EmptySet
  <2> DEFINE g == [S \in Small(0) |-> 0]
  <2>2. Upto(0, g)
    BY <2>1
  <2> QED BY <2>2
<1>3. ASSUME NEW n \in Nat, NEW g, Upto(n, g) PROVE \E h : Upto(n + 1, h)
  <2> DEFINE h == [S \in Small(n + 1) |->
                     IF S = {} THEN 0 ELSE sz[Pick(S)] - Hdr + g[S \ {Pick(S)}]]
  <2>1. ASSUME NEW S \in Small(n) PROVE S \in Small(n + 1) /\ h[S] = g[S]
    <3>1. S \in Small(n + 1)
      BY <1>0
    <3> QED BY <3>1, <1>3
  <2>2. ASSUME NEW S \in Small(n + 1), S # {}
        PROVE  h[S] = sz[Pick(S)] - Hdr + h[S \ {Pick(S)}] /\ h[S] \in Int
    <3>1. S \ {Pick(S)} \in Small(n) /\ Pick(S) \in U
      BY <1>1, <2>2
    <3>2. h[S \ {Pick(S)}] = g[S \ {Pick(S)}] /\ g[S \ {Pick(S)}] \in Int
      BY <2>1, <3>1, <1>3
    <3>3. h[S] = sz[Pick(S)] - Hdr + g[S \ {Pick(S)}]
      BY <2>2
    <3> HIDE DEF h
    <3> QED BY <3>1, <3>2, <3>3 DEF Hdr
  <2>3. \A S \in Small(n + 1) : S = {} => h[S] = 0
    OBVIOUS
  <2>4. Upto(n + 1, h)
    <3>1. h = [S \in Small(n + 1) |->
                 IF S = {} THEN 0 ELSE sz[Pick(S)] - Hdr + h[S \ {Pick(S)}]]
      BY <2>2, <2>3
    <3> HIDE DEF h, Small
    <3>2. ASSUME NEW S \in Small(n + 1) PROVE h[S] \in Int
      <4>1. CASE S = {}
        BY <2>3, <4>1
      <4>2. CASE S # {}
        BY <2>2, <4>2
      <4> QED BY <4>1, <4>2
    <3> QED BY <3>1, <3>2
  <2> HIDE DEF h, Upto
  <2> QED BY <2>4
<1>4. Bad = {}
  <2> SUFFICES ASSUME Bad # {} PROVE FALSE
    OBVIOUS
  <2>1. PICK n \in Bad : \A m \in Bad : n <= m
    <3>1. Bad \in SUBSET Nat
      OBVIOUS
    <3> HIDE DEF Bad
    <3> QED BY <3>1, Least
  <2> HIDE DEF Upto
  <2>2. n # 0
    BY <1>2
  <2>3. n - 1 \in Nat /\ n - 1 \notin Bad /\ (n - 1) + 1 = n
    BY <2>1, <2>2
  <2> QED BY <2>1, <2>3, <1>3
<1>5. Cardinality(U) \in Nat /\ Small(Cardinality(U)) = SUBSET U
  BY FS_Subset, FS_CardinalityType
<1>6. PICK f : Upto(Cardinality(U), f)
  <2> HIDE DEF Upto
  <2> QED BY <1>4, <1>5
<1> QED BY <1>5, <1>6 DEF IsFold

\* There is no other, whatever set it was built over.
LEMMA FoldUnique ==
    ASSUME NEW sz, NEW U, IsFiniteSet(U), NEW V \in SUBSET U,
           NEW f, IsFold(f, sz, U), NEW g, IsFold(g, sz, V), NEW S \in SUBSET V
    PROVE  f[S] = g[S]
<1> DEFINE Bad == {T \in SUBSET V : f[T] # g[T]}
           Sizes == {Cardinality(T) : T \in Bad}
<1>0. \A T \in SUBSET V : IsFiniteSet(T) /\ Cardinality(T) \in Nat
  BY FS_Subset, FS_CardinalityType
<1> SUFFICES ASSUME Bad # {} PROVE FALSE
  OBVIOUS
<1>1. PICK n \in Sizes : \A m \in Sizes : n <= m
  <2>1. Sizes \in SUBSET Nat /\ Sizes # {}
    BY <1>0
  <2> HIDE DEF Sizes
  <2> QED BY <2>1, Least
<1>2. PICK T \in Bad : Cardinality(T) = n
  OBVIOUS
<1>3. /\ f[T] = IF T = {} THEN 0 ELSE sz[Pick(T)] - Hdr + f[T \ {Pick(T)}]
      /\ g[T] = IF T = {} THEN 0 ELSE sz[Pick(T)] - Hdr + g[T \ {Pick(T)}]
  BY DEF IsFold
<1>4. T # {}
  BY <1>2, <1>3
<1>5. Pick(T) \in T /\ T \ {Pick(T)} \in SUBSET V
  BY <1>2, <1>4, Picked
<1>6. Cardinality(T \ {Pick(T)}) = n - 1 /\ n \in Nat
  BY <1>0, <1>2, <1>5, FS_RemoveElement
<1>7. f[T \ {Pick(T)}] = g[T \ {Pick(T)}]
  <2>1. n - 1 \notin Sizes
    BY <1>0, <1>1, <1>6
  <2> QED BY <2>1, <1>5, <1>6
<1> QED BY <1>2, <1>3, <1>4, <1>7

\* So one function gives the sums over all parts of a set.
LEMMA WeightOfPart ==
    ASSUME NEW sz, NEW U, IsFiniteSet(U), \A c \in U : sz[c] \in Int,
           NEW f, IsFold(f, sz, U), NEW S \in SUBSET U
    PROVE  f[S] = Weight(sz, S)
<1> DEFINE g == CHOOSE h : IsFold(h, sz, S)
<1>1. IsFiniteSet(S) /\ \A c \in S : sz[c] \in Int
  BY FS_Subset
<1>2. IsFold(g, sz, S)
  BY <1>1, FoldExists
<1> HIDE DEF g
<1>3. f[S] = g[S]
  BY <1>2, FoldUnique
<1> QED BY <1>3, WeightIsFold DEF g

\* The sum over no cells.
LEMMA WeightEmpty == ASSUME NEW sz PROVE Weight(sz, {}) = 0
<1>1. IsFiniteSet({})
  BY FS_EmptySet
<1>2. PICK f : IsFold(f, sz, {})
  BY <1>1, FoldExists
<1>3. f[{}] = 0
  BY <1>2 DEF IsFold
<1>4. f[{}] = Weight(sz, {})
  BY <1>1, <1>2, WeightOfPart
<1> QED BY <1>3, <1>4

\* Whichever cell is taken from a set, the sum is its words and those of the rest.
LEMMA WeightSplit ==
    ASSUME NEW sz, NEW U, IsFiniteSet(U), \A c \in U : sz[c] \in Int, NEW b \in U
    PROVE  /\ Weight(sz, U) \in Int /\ Weight(sz, U \ {b}) \in Int
           /\ Weight(sz, U) = sz[b] - Hdr + Weight(sz, U \ {b})
<1>1. PICK f : IsFold(f, sz, U) /\ \A S \in SUBSET U : f[S] \in Int
  BY FoldExists
<1>2. \A S \in SUBSET U : f[S] = Weight(sz, S)
  BY <1>1, WeightOfPart
<1> DEFINE Bad == {S \in SUBSET U : \E c \in S : f[S] # sz[c] - Hdr + f[S \ {c}]}
           Sizes == {Cardinality(S) : S \in Bad}
<1>0. \A S \in SUBSET U : IsFiniteSet(S) /\ Cardinality(S) \in Nat
  BY FS_Subset, FS_CardinalityType
<1>3. Bad = {}
  <2> SUFFICES ASSUME Bad # {} PROVE FALSE
    OBVIOUS
  <2>1. PICK n \in Sizes : \A m \in Sizes : n <= m
    <3>1. Sizes \in SUBSET Nat /\ Sizes # {}
      BY <1>0
    <3> HIDE DEF Sizes
    <3> QED BY <3>1, Least
  <2>2. PICK S \in Bad : Cardinality(S) = n
    OBVIOUS
  <2>3. PICK c \in S : f[S] # sz[c] - Hdr + f[S \ {c}]
    BY <2>2
  <2>4. S \in SUBSET U /\ n \in Nat
    BY <1>0, <2>2
  <2>5. PICK p : p = Pick(S)
    OBVIOUS
  <2>6. p \in S /\ f[S] = sz[p] - Hdr + f[S \ {p}]
    BY <2>3, <2>4, <2>5, <1>1, Picked DEF IsFold
  <2>7. p # c
    BY <2>3, <2>6
  <2>8. ASSUME NEW x \in S, NEW y \in S, x # y
        PROVE  f[S \ {x}] = sz[y] - Hdr + f[(S \ {x}) \ {y}]
    <3>1. S \ {x} \in SUBSET U /\ Cardinality(S \ {x}) = n - 1
      BY <1>0, <2>2, <2>4, FS_RemoveElement
    <3>2. n - 1 \notin Sizes
      BY <2>1, <2>4, <1>0
    <3>3. S \ {x} \notin Bad
      BY <3>1, <3>2
    <3> QED BY <2>8, <3>1, <3>3
  <2>9. f[S \ {p}] = sz[c] - Hdr + f[(S \ {p}) \ {c}] /\ f[S \ {c}] = sz[p] - Hdr + f[(S \ {c}) \ {p}]
    BY <2>6, <2>7, <2>8
  <2>10. (S \ {p}) \ {c} = (S \ {c}) \ {p} /\ (S \ {p}) \ {c} \in SUBSET U
    BY <2>4
  <2>11. f[(S \ {p}) \ {c}] \in Int /\ sz[p] \in Int /\ sz[c] \in Int
    BY <2>4, <2>6, <2>10, <1>1
  <2> HIDE DEF Bad, Sizes
  <2> QED BY <2>3, <2>6, <2>9, <2>10, <2>11 DEF Hdr
<1>4. U \in SUBSET U /\ U \ {b} \in SUBSET U
  OBVIOUS
<1>5. f[U] = sz[b] - Hdr + f[U \ {b}]
  BY <1>3, <1>4
<1> QED BY <1>1, <1>2, <1>4, <1>5

\* Only the sizes of the cells in the set matter.
LEMMA WeightSame ==
    ASSUME NEW sz, NEW tz, NEW U, IsFiniteSet(U),
           \A c \in U : sz[c] \in Int /\ tz[c] = sz[c]
    PROVE  Weight(tz, U) = Weight(sz, U)
<1>1. PICK f : IsFold(f, sz, U)
  BY FoldExists
<1>2. IsFold(f, tz, U)
  <2>1. ASSUME NEW S \in SUBSET U, S # {} PROVE tz[Pick(S)] = sz[Pick(S)]
    BY <2>1, Picked
  <2>2. /\ f = [S \in SUBSET U |-> f[S]]
        /\ \A S \in SUBSET U : f[S] = IF S = {} THEN 0 ELSE sz[Pick(S)] - Hdr + f[S \ {Pick(S)}]
    BY <1>1 DEF IsFold
  <2>3. \A S \in SUBSET U : f[S] = IF S = {} THEN 0 ELSE tz[Pick(S)] - Hdr + f[S \ {Pick(S)}]
    BY <2>1, <2>2
  <2> QED BY <2>2, <2>3 DEF IsFold
<1>3. f[U] = Weight(sz, U) /\ f[U] = Weight(tz, U)
  BY <1>1, <1>2, WeightOfPart
<1> QED BY <1>3

\* A cell more.
LEMMA WeightAdd ==
    ASSUME NEW sz, NEW S, IsFiniteSet(S), NEW b, b \notin S, \A c \in S \cup {b} : sz[c] \in Int
    PROVE  Weight(sz, S) \in Int /\ Weight(sz, S \cup {b}) = sz[b] - Hdr + Weight(sz, S)
<1>0. PICK U : U = S \cup {b}
  OBVIOUS
<1>1. IsFiniteSet(U) /\ U \ {b} = S /\ b \in U /\ \A c \in U : sz[c] \in Int
  BY <1>0, FS_AddElement
<1> QED BY <1>0, <1>1, WeightSplit

-----------------------------------------------------------------------------
(* The counters agree with the list.                                          *)

\* check_stats, and that the peak is a number of words.
StatsInv == Shape /\ StatsRight /\ allocated_peak \in Int

\* There are finitely many cells, and what a set of them has room for is a number.
LEMMA CellSums ==
    ASSUME TypeOK
    PROVE  /\ \A S \in SUBSET Cells : /\ IsFiniteSet(S) /\ Cardinality(S) \in Nat
                                      /\ \A c \in S : size[c] \in Int
           /\ Free \in SUBSET Cells /\ Used \in SUBSET Cells
           /\ Total(Free) = Weight(size, Free) /\ Total(Free)' = Weight(size', Free')
           /\ Total(Used) = Weight(size, Used) /\ Total(Used)' = Weight(size', Used')
<1>1. Cells \in SUBSET Nat /\ (\A c \in Cells : c <= Guard) /\ Guard \in Nat
  BY Addresses
<1>2. IsFiniteSet(Cells)
  BY <1>1, FS_BoundedSetOfNaturals
<1>3. \A S \in SUBSET Cells : IsFiniteSet(S) /\ Cardinality(S) \in Nat
  BY <1>2, FS_Subset, FS_CardinalityType
<1>4. \A c \in Cells : size[c] \in Int
  BY Addresses
<1>5. Total(Free) = Weight(size, Free) /\ Total(Used) = Weight(size, Used)
  BY DEF Total, Weight
<1>6. Total(Free)' = Weight(size', Free') /\ Total(Used)' = Weight(size', Used')
  BY DEF Total, Weight, MapThenSumSet, MapThenFoldSet
<1> QED BY <1>3, <1>4, <1>5, <1>6, Addresses DEF Used

\* Counting a block that was cut from a free cell or is one.
LEMMA CountedUp ==
    ASSUME StatsInv, CountUp, NEW a, a = ptr', a \notin Used, Used' = Used \cup {a},
           size'[a] \in Int, size'[a] > Hdr, \A b \in Used : size'[b] = size[b]
    PROVE  /\ allocated_count' = Cardinality(Used') /\ allocated_size' = Total(Used)'
           /\ allocated_peak' >= allocated_size' /\ allocated_peak' \in Int
<1> USE DEF StatsInv, StatsRight, Shape
<1>1. /\ IsFiniteSet(Used) /\ Cardinality(Used) \in Nat /\ \A b \in Used : size[b] \in Int
      /\ Total(Used) = Weight(size, Used) /\ Total(Used)' = Weight(size', Used')
  BY CellSums
<1>2. Cardinality(Used') = Cardinality(Used) + 1
  BY <1>1, FS_AddElement
<1>3. Weight(size', Used) = Weight(size, Used)
  BY <1>1, WeightSame
<1>4. Weight(size', Used) \in Int /\ Weight(size', Used') = size'[a] - Hdr + Weight(size', Used)
  <2>1. \A b \in Used \cup {a} : size'[b] \in Int
    BY <1>1
  <2> QED BY <1>1, <2>1, WeightAdd
<1>5. allocated_size' = allocated_size + (size'[a] - Hdr) /\ Hdr = 2
  BY DEF CountUp, Hdr
<1> QED BY <1>1, <1>2, <1>3, <1>4, <1>5 DEF CountUp

\* Splitting a cell keeps the counters right.
LEMMA SplitCounts ==
    ASSUME StatsInv, NEW n \in Nat, n >= MinCell, NEW c \in Free, Split(c, n), Forget(c), CountUp
    PROVE  StatsInv'
<1> USE DEF StatsInv, StatsRight
<1>0. PICK a : a = End(c) - n
  OBVIOUS
<1>1. /\ c \in Nat /\ c \in Cells /\ size[c] \in Nat /\ n + MinCell < size[c] /\ MinCell = 4
      /\ a \in Nat /\ c + MinCell < a /\ a + n = End(c) /\ End(c) \in Nat /\ End(c) <= Guard
      /\ c # ListHead /\ c # Term
  BY <1>0, Addresses DEF Shape, Split, Splits, End
<1>2. a \notin Cells
  BY <1>1, Addresses DEF Shape, Tiling
<1>3. a # ListHead /\ a # Term
  BY <1>1, Addresses DEF Shape
<1>4. /\ size' = [d \in DOMAIN size \cup {a} |->
                     IF d = a THEN n ELSE IF d = c THEN size[c] - n ELSE size[d]]
      /\ next' = next /\ ptr' = a
      /\ free_size' = free_size - n /\ free_block_count' = free_block_count
  BY <1>0 DEF Split
<1>5. Free' = Free /\ Used' = Used \cup {a} /\ a \notin Used /\ a \notin Free
  <2>1. Cells' = Cells \cup {a} /\ Free' = Free
    BY <1>3, <1>4 DEF Cells, Free
  <2> QED BY <1>2, <2>1, Addresses DEF Shape, Used
<1>6. /\ size'[a] = n /\ size'[c] = size[c] - n /\ size'[ListHead] = size[ListHead]
      /\ \A d \in Cells \ {c} : size'[d] = size[d]
  BY <1>1, <1>2, <1>3, <1>4 DEF Cells, Shape, TypeOK
<1>7. Shape'
  BY SplitKeepsShape DEF Forget
<1>8. /\ allocated_count' = Cardinality(Used') /\ allocated_size' = Total(Used)'
      /\ allocated_peak' >= allocated_size' /\ allocated_peak' \in Int
  <2>1. size'[a] \in Int /\ size'[a] > Hdr
    BY <1>1, <1>6 DEF Hdr
  <2>2. \A b \in Used : size'[b] = size[b]
    BY <1>6 DEF Used
  <2> QED BY <1>4, <1>5, <2>1, <2>2, CountedUp
<1>9. free_block_count' = Cardinality(Free') /\ free_size' = Total(Free)'
  <2>1. /\ IsFiniteSet(Free) /\ IsFiniteSet(Free \ {c}) /\ \A b \in Free : size[b] \in Int
        /\ Total(Free) = Weight(size, Free) /\ Total(Free)' = Weight(size', Free')
    BY CellSums, FS_Subset DEF Shape
  <2>2. \A b \in Free \ {c} : size'[b] = size[b]
    BY <1>6, Addresses DEF Shape
  <2>3. \A b \in Free : size'[b] \in Int
    BY <1>1, <1>6, <2>1, <2>2
  <2>4. Weight(size', Free \ {c}) = Weight(size, Free \ {c})
    BY <2>1, <2>2, WeightSame
  <2>5. /\ Weight(size, Free) = size[c] - Hdr + Weight(size, Free \ {c})
        /\ Weight(size, Free \ {c}) \in Int
    BY <2>1, WeightSplit
  <2>6. Weight(size', Free) = size'[c] - Hdr + Weight(size', Free \ {c})
    BY <2>1, <2>3, WeightSplit
  <2> QED BY <1>1, <1>4, <1>5, <1>6, <2>1, <2>4, <2>5, <2>6 DEF Hdr
<1>10. largest_block' # NoCell => \A d \in Free' : size'[d] <= size'[largest_block']
  <2> SUFFICES ASSUME largest_block' # NoCell, NEW d \in Free PROVE size'[d] <= size'[largest_block']
    BY <1>5
  <2>1. largest_block' = largest_block /\ largest_block # c
    BY DEF Forget
  <2>2. size'[largest_block] = size[largest_block]
    BY <1>6, <2>1, Addresses DEF Shape, TypeOK
  <2>3. size[d] <= size[largest_block] /\ size[d] \in Nat /\ size[largest_block] \in Nat
    BY <2>1, Addresses DEF Shape, TypeOK, Hdr
  <2>4. size'[d] <= size[d]
    BY <1>1, <1>6, <2>3, Addresses DEF Shape
  <2>5. size'[d] \in Int
    BY <1>1, <1>6, <2>3, Addresses DEF Shape
  <2> QED BY <2>1, <2>2, <2>3, <2>4, <2>5
<1> QED BY <1>7, <1>8, <1>9, <1>10

\* So does taking a cell whole.
LEMMA WholeCounts ==
    ASSUME StatsInv, NEW n \in Nat, NEW c \in Free, Whole(c, n), Forget(c), CountUp
    PROVE  StatsInv'
<1> USE DEF StatsInv, StatsRight
<1>1. /\ size' = size /\ ptr' = c /\ DOMAIN next' = DOMAIN next \ {c}
      /\ free_block_count' = free_block_count - 1 /\ free_size' = free_size - (size[c] - Hdr)
  BY DEF Whole, Unlinked
<1>2. c \in Cells /\ size[c] \in Nat /\ MinCell <= size[c] /\ MinCell = 4
  BY Addresses DEF Shape
<1>3. Free' = Free \ {c} /\ Used' = Used \cup {c} /\ c \notin Used
  <2>1. Cells' = Cells /\ Free' = Free \ {c}
    BY <1>1 DEF Cells, Free
  <2> QED BY <1>2, <2>1 DEF Used
<1>4. Shape'
  BY WholeKeepsShape DEF Forget
<1>5. /\ allocated_count' = Cardinality(Used') /\ allocated_size' = Total(Used)'
      /\ allocated_peak' >= allocated_size' /\ allocated_peak' \in Int
  <2>1. size'[c] \in Int /\ size'[c] > Hdr
    BY <1>1, <1>2 DEF Hdr
  <2> QED BY <1>1, <1>3, <2>1, CountedUp
<1>6. free_block_count' = Cardinality(Free') /\ free_size' = Total(Free)'
  <2>1. /\ IsFiniteSet(Free) /\ Cardinality(Free) \in Nat /\ \A b \in Free : size[b] \in Int
        /\ Total(Free) = Weight(size, Free) /\ Total(Free)' = Weight(size', Free')
    BY CellSums DEF Shape
  <2>2. Cardinality(Free \ {c}) = Cardinality(Free) - 1
    BY <2>1, FS_RemoveElement
  <2>3. /\ Weight(size, Free) = size[c] - Hdr + Weight(size, Free \ {c})
        /\ Weight(size, Free \ {c}) \in Int
    BY <2>1, WeightSplit
  <2> QED BY <1>1, <1>2, <1>3, <2>1, <2>2, <2>3 DEF Hdr
<1>7. largest_block' # NoCell => \A d \in Free' : size'[d] <= size'[largest_block']
  BY <1>1, <1>3 DEF Forget
<1> QED BY <1>4, <1>5, <1>6, <1>7

\* So does putting a cell back: the words of a header come and go with it.
LEMMA FreeCounts ==
    ASSUME StatsInv, NEW c \in Used, SubaFree(c)
    PROVE  StatsInv'
<1> USE DEF StatsInv, StatsRight
<1>0. PICK p, d : p = Before(c) /\ d = next[p]
  OBVIOUS
<1>a. PICK h, hs, gone : h = Host(p, c) /\ hs = HostSize(p, c, d) /\ gone = Joined(p, c, d)
  OBVIOUS
<1>1. Freed(c, p, d, h, hs, gone)
  BY <1>0, <1>a, FreedCell
<1>2. /\ free_block_count' = free_block_count + (IF JoinsPrev(p, c) THEN 0 ELSE 1)
                                              - (IF JoinsNext(c, d) THEN 1 ELSE 0)
      /\ free_size' = free_size + (IF JoinsPrev(p, c) THEN size[c] ELSE size[c] - Hdr)
                                + (IF JoinsNext(c, d) THEN Hdr ELSE 0)
      /\ largest_block' = IF largest_block # NoCell /\ hs > size[largest_block] THEN h
                          ELSE largest_block
      /\ allocated_size' = allocated_size - (size[c] - Hdr)
      /\ allocated_count' = allocated_count - 1 /\ allocated_peak' = allocated_peak
  BY <1>0, <1>a DEF SubaFree, Larger
<1>3. Shape' /\ Used' = Used \ {c} /\ \A b \in Used' : size'[b] = size[b]
  BY FreeKeepsShape
<1>4. /\ c \in Cells /\ c \notin Free /\ size[c] \in Nat /\ MinCell <= size[c] /\ MinCell = 4
      /\ \A b \in Free : size[b] \in Nat /\ MinCell <= size[b]
  BY Addresses DEF Shape, Used
<1>5. /\ IsFiniteSet(Used) /\ Cardinality(Used) \in Nat /\ \A b \in Used : size[b] \in Int
      /\ Total(Used) = Weight(size, Used) /\ Total(Used)' = Weight(size', Used')
      /\ IsFiniteSet(Free) /\ Cardinality(Free) \in Nat /\ \A b \in Free : size[b] \in Int
      /\ Total(Free) = Weight(size, Free) /\ Total(Free)' = Weight(size', Free')
  BY CellSums DEF Shape
<1>6. /\ allocated_count' = Cardinality(Used') /\ allocated_size' = Total(Used)'
      /\ allocated_peak' >= allocated_size' /\ allocated_peak' \in Int
  <2>1. Cardinality(Used \ {c}) = Cardinality(Used) - 1 /\ IsFiniteSet(Used \ {c})
    BY <1>5, FS_RemoveElement
  <2>2. /\ Weight(size, Used) = size[c] - Hdr + Weight(size, Used \ {c})
        /\ Weight(size, Used) \in Int /\ Weight(size, Used \ {c}) \in Int
    BY <1>5, WeightSplit
  <2>3. Weight(size', Used \ {c}) = Weight(size, Used \ {c})
    BY <1>3, <1>5, <2>1, WeightSame
  <2> QED BY <1>2, <1>3, <1>4, <1>5, <2>1, <2>2, <2>3 DEF Hdr
\* what is left of the free list when c and what it is joined to are taken out
<1>7. PICK R : R = Free' \ {h}
  OBVIOUS
<1>8. /\ IsFiniteSet(R) /\ Cardinality(R) \in Nat /\ Weight(size, R) \in Int
      /\ Cardinality(Free') = Cardinality(R) + 1
      /\ Weight(size', Free') = hs - Hdr + Weight(size, R)
      /\ R \subseteq Free /\ h \in Free' /\ h \notin R
  <2>1. R \subseteq Free /\ h \in Free' /\ Free' = R \cup {h} /\ h \notin R
    BY <1>1, <1>7 DEF Freed
  <2>2. IsFiniteSet(R) /\ Cardinality(R) \in Nat /\ \A b \in R : size[b] \in Int
    BY <1>5, <2>1, FS_Subset, FS_CardinalityType
  <2>3. Cardinality(Free') = Cardinality(R) + 1
    BY <2>1, <2>2, FS_AddElement
  <2>4. size'[h] = hs /\ hs \in Int /\ \A b \in R : size'[b] = size[b]
    <3>1. \A b \in Free' : b \in Cells'
      BY <1>3, Addresses DEF Shape, TypeOK
    <3> QED BY <1>1, <1>7, <3>1 DEF Freed
  <2>5. Weight(size', R) = Weight(size, R)
    BY <2>2, <2>4, WeightSame
  <2>6. Weight(size', R) \in Int /\ Weight(size', R \cup {h}) = size'[h] - Hdr + Weight(size', R)
    <3>1. \A b \in R \cup {h} : size'[b] \in Int
      BY <2>2, <2>4
    <3> QED BY <2>1, <2>2, <3>1, WeightAdd
  <2> QED BY <2>1, <2>2, <2>3, <2>4, <2>5, <2>6
<1>b. /\ gone \subseteq {c, d} /\ Free' = (Free \cup {c}) \ gone
      /\ IF JoinsPrev(p, c) THEN h = p /\ p \in Free /\ c \in gone ELSE h = c /\ c \notin gone
      /\ IF JoinsNext(c, d) THEN d \in Free /\ d \in gone ELSE d \notin gone
      /\ p < d /\ p \in Nat /\ d \in Nat
  <2>1. p < c /\ c < d /\ p \in Nat /\ c \in Nat /\ d \in Nat
    BY <1>1 DEF Freed
  <2>2. /\ gone \subseteq {c, d} /\ Free' = (Free \cup {c}) \ gone
        /\ h = IF JoinsPrev(p, c) THEN p ELSE c
    BY <1>1 DEF Freed
  <2>3. /\ JoinsPrev(p, c) => p \in Free
        /\ JoinsNext(c, d) => d \in Free
        /\ (c \in gone <=> JoinsPrev(p, c)) /\ (d \in gone <=> JoinsNext(c, d))
    BY <1>1 DEF Freed
  <2> QED BY <2>1, <2>2, <2>3
<1>c. /\ free_block_count' = Cardinality(Free) + (IF JoinsPrev(p, c) THEN 0 ELSE 1)
                                                - (IF JoinsNext(c, d) THEN 1 ELSE 0)
      /\ free_size' = Weight(size, Free) + (IF JoinsPrev(p, c) THEN size[c] ELSE size[c] - 2)
                                        + (IF JoinsNext(c, d) THEN 2 ELSE 0)
  BY <1>2, <1>5 DEF Hdr
<1>d. /\ Cardinality(Free') = Cardinality(R) + 1 /\ Total(Free)' = hs - 2 + Weight(size, R)
      /\ Cardinality(R) \in Nat /\ Weight(size, R) \in Int /\ size[c] \in Nat
  BY <1>4, <1>5, <1>8 DEF Hdr
<1>9. free_block_count' = Cardinality(Free') /\ free_size' = Total(Free)'
  <2> HIDE DEF StatsInv, StatsRight
  <2>0. ASSUME NEW S \in SUBSET Free, NEW b \in Free \ S
        PROVE  /\ Cardinality(S \cup {b}) = Cardinality(S) + 1 /\ Cardinality(S) \in Nat
               /\ Weight(size, S \cup {b}) = size[b] - Hdr + Weight(size, S)
               /\ Weight(size, S) \in Int
    <3>1. IsFiniteSet(S) /\ Cardinality(S) \in Nat /\ \A x \in S \cup {b} : size[x] \in Int
      BY <1>5, FS_Subset, FS_CardinalityType
    <3> QED BY <3>1, FS_AddElement, WeightAdd
  <2>1. CASE JoinsPrev(p, c) /\ JoinsNext(c, d)
    <3>1. hs = size[c] + size[p] + size[d]
      BY <2>1, <1>a DEF HostSize
    <3>2. p \in Free /\ d \in Free /\ p # d /\ h = p /\ gone = {c, d}
      BY <2>1, <1>4, <1>b
    <3>4. R = Free \ {p, d}
      BY <3>2, <1>4, <1>7, <1>b
    <3>5. d \notin R /\ p \in Free \ (R \cup {d}) /\ Free = (R \cup {d}) \cup {p}
      BY <3>2, <3>4
    <3>6. /\ Cardinality(R \cup {d}) = Cardinality(R) + 1
          /\ Weight(size, R \cup {d}) = size[d] - Hdr + Weight(size, R)
      BY <3>2, <3>5, <2>0, <1>8
    <3>7. R \cup {d} \in SUBSET Free
      BY <3>2, <1>8
    <3>3. /\ Cardinality(Free) = Cardinality(R) + 2
          /\ Weight(size, Free) = size[p] - Hdr + (size[d] - Hdr + Weight(size, R))
      BY <3>5, <3>6, <3>7, <2>0, <1>8
    <3>8. size[p] \in Nat /\ size[d] \in Nat
      BY <3>2, <1>4
    <3>9. /\ free_block_count' = Cardinality(Free) + 0 - 1
          /\ free_size' = Weight(size, Free) + size[c] + 2
      BY <2>1, <1>c
    <3> QED BY <3>1, <3>3, <3>8, <3>9, <1>d DEF Hdr
  <2>2. CASE JoinsPrev(p, c) /\ ~JoinsNext(c, d)
    <3>1. hs = size[c] + size[p] + 0
      BY <2>2, <1>a DEF HostSize
    <3>4. p \in Free /\ h = p /\ gone = {c} /\ Free' = (Free \cup {c}) \ {c}
      BY <2>2, <1>4, <1>b
    <3>2. p \in Free /\ p \notin R /\ Free = R \cup {p}
      BY <3>4, <1>4, <1>7
    <3>3. Cardinality(Free) = Cardinality(R) + 1 /\ Weight(size, Free) = size[p] - Hdr + Weight(size, R)
      BY <3>2, <2>0, <1>8
    <3>5. size[p] \in Nat /\ hs = size[c] + size[p]
      BY <3>1, <3>2, <1>4
    <3>6. /\ free_block_count' = Cardinality(Free) + 0 - 0
          /\ free_size' = Weight(size, Free) + size[c] + 0
      BY <2>2, <1>c
    <3> QED BY <3>3, <3>5, <3>6, <1>d DEF Hdr
  <2>3. CASE ~JoinsPrev(p, c) /\ JoinsNext(c, d)
    <3>1. hs = size[c] + 0 + size[d]
      BY <2>3, <1>a DEF HostSize
    <3>4. d \in Free /\ h = c /\ gone = {d} /\ Free' = (Free \cup {c}) \ {d}
      BY <2>3, <1>4, <1>b
    <3>2. d \in Free /\ d \notin R /\ Free = R \cup {d}
      BY <3>4, <1>4, <1>7
    <3>3. Cardinality(Free) = Cardinality(R) + 1 /\ Weight(size, Free) = size[d] - Hdr + Weight(size, R)
      BY <3>2, <2>0, <1>8
    <3>5. size[d] \in Nat /\ hs = size[c] + size[d]
      BY <3>1, <3>2, <1>4
    <3>6. /\ free_block_count' = Cardinality(Free) + 1 - 1
          /\ free_size' = Weight(size, Free) + (size[c] - 2) + 2
      BY <2>3, <1>c
    <3> QED BY <3>3, <3>5, <3>6, <1>d DEF Hdr
  <2>4. CASE ~JoinsPrev(p, c) /\ ~JoinsNext(c, d)
    <3>1. hs = size[c] + 0 + 0
      BY <2>4, <1>a DEF HostSize
    <3>2. Free = R
      BY <2>4, <1>4, <1>7, <1>b
    <3>3. /\ free_block_count' = Cardinality(Free) + 1 - 0
          /\ free_size' = Weight(size, Free) + (size[c] - 2) + 0
      BY <2>4, <1>c
    <3> QED BY <3>1, <3>2, <3>3, <1>d DEF Hdr
  <2> QED BY <2>1, <2>2, <2>3, <2>4
<1>10. largest_block' # NoCell => \A b \in Free' : size'[b] <= size'[largest_block']
  <2> SUFFICES ASSUME largest_block' # NoCell, NEW b \in Free'
               PROVE  size'[b] <= size'[largest_block']
    OBVIOUS
  <2>0. h # NoCell /\ largest_block # NoCell
    <3>1. h \in Cells'
      BY <1>1 DEF Freed
    <3> QED BY <1>2, <3>1, <1>3, Addresses DEF Shape, TypeOK, NoCell, First
  <2>1. \/ b = h /\ size'[b] = hs
        \/ b \in Free /\ size'[b] = size[b] /\ size[b] <= size[largest_block]
    <3>1. b \in Cells'
      BY <1>3 DEF Shape, TypeOK
    <3> QED BY <2>0, <3>1, <1>1, <1>8, <1>7 DEF Freed
  <2>2. size[largest_block] \in Nat /\ hs \in Nat /\ (b \in Free => size[b] \in Nat)
    BY <2>0, <1>1, Addresses DEF Freed, Shape, TypeOK, Hdr
  <2>3. CASE hs > size[largest_block]
    <3>1. largest_block' = h /\ size'[h] = hs
      BY <2>0, <2>3, <1>1, <1>2 DEF Freed
    <3> QED BY <2>1, <2>2, <2>3, <3>1
  <2>4. CASE ~(hs > size[largest_block])
    <3>1. largest_block' = largest_block
      BY <2>0, <2>4, <1>2
    <3>2. size'[largest_block] = size[largest_block] \/ (largest_block = h /\ size'[h] = hs)
      <4>1. largest_block \in (Free' \cup {ListHead})
        BY <2>0, <3>1, <1>3 DEF Shape, TypeOK
      <4>2. CASE largest_block = ListHead
        <5>1. size'[ListHead] = Hdr /\ size[ListHead] = Hdr
          BY <1>3 DEF Shape, TypeOK
        <5> QED BY <4>2, <5>1
      <4>3. CASE largest_block \in Free'
        <5>1. largest_block \in Cells'
          BY <4>3, <1>3 DEF Shape, TypeOK
        <5> QED BY <5>1, <1>1 DEF Freed
      <4> QED BY <4>1, <4>2, <4>3
    <3>3. largest_block = h => hs > size[h]
      <4> SUFFICES ASSUME largest_block = h PROVE hs > size[h]
        OBVIOUS
      <4>1. h # c
        BY <2>0, <1>4, Addresses DEF Shape, TypeOK
      <4>2. JoinsPrev(p, c) /\ h = p /\ p \in Free
        BY <4>1, <1>1 DEF Freed
      <4>3. hs = size[c] + size[p] + (IF JoinsNext(c, d) THEN size[d] ELSE 0)
        BY <4>2, <1>a DEF HostSize
      <4>4. JoinsNext(c, d) => d \in Free
        BY <1>1 DEF Freed
      <4> QED BY <4>2, <4>3, <4>4, <1>4
    <3> QED BY <2>1, <2>2, <2>4, <3>1, <3>2, <3>3
  <2> QED BY <2>3, <2>4
<1> QED BY <1>3, <1>6, <1>9, <1>10

LEMMA StatsInit == Init => StatsInv
<1> SUFFICES ASSUME Init PROVE StatsInv
  OBVIOUS
<1>1. Shape /\ First # ListHead /\ First # Term /\ Guard \in Nat
  <2>1. 18 <= Guard /\ Guard + 1 = Term /\ Guard \in Nat
    BY AreaAssumption DEF Term, Guard, First, MinCell
  <2> QED BY <2>1, AreaInit DEF First, ListHead
<1>2. Cells = {First} /\ Free = {First} /\ Used = {}
  <2>1. Cells = {First} /\ Free = {First}
    BY <1>1 DEF Init, Cells, Free
  <2> QED BY <2>1 DEF Used
<1>3. size[First] = Guard - First /\ First \in Nat
  BY <1>1 DEF Init, First
<1>4. Cardinality({First}) = 1 /\ Cardinality({}) = 0
  BY FS_Singleton, FS_EmptySet
<1>5. Total(Used) = 0
  BY <1>1, <1>2, CellSums, WeightEmpty DEF Shape
<1>6. Total(Free) = Guard - First - Hdr
  <2>0. IsFiniteSet({First}) /\ First \in {First}
    BY FS_Singleton
  <2>1. /\ \A c \in {First} : size[c] \in Int
        /\ {First} \ {First} = {} /\ IsFiniteSet({First}) /\ First \in {First}
    BY <1>1, <1>3, <2>0
  <2>2. Weight(size, {First}) = size[First] - Hdr + Weight(size, {First} \ {First})
    BY <2>1, WeightSplit
  <2>3. Weight(size, {First}) = size[First] - Hdr
    BY <1>1, <1>3, <2>1, <2>2, WeightEmpty DEF Hdr
  <2> QED BY <1>1, <1>2, <1>3, <2>3, CellSums DEF Shape
<1>7. \A c \in Free : size[c] <= size[First]
  BY <1>1, <1>2, <1>3
<1> QED BY <1>1, <1>2, <1>4, <1>5, <1>6, <1>7 DEF Init, StatsInv, StatsRight

LEMMA StatsStep == StatsInv /\ [Next]_vars => StatsInv'
<1> SUFFICES ASSUME StatsInv, [Next]_vars PROVE StatsInv'
  OBVIOUS
<1>0. ASSUME UNCHANGED <<size, next>>
      PROVE  /\ Free' = Free /\ Used' = Used
             /\ Total(Free)' = Total(Free) /\ Total(Used)' = Total(Used)
  <2>1. Free' = Free /\ Used' = Used
    BY <1>0 DEF Cells, Free, Used
  <2> QED BY <1>0, <2>1, CellSums DEF StatsInv, Shape
<1>1. ASSUME NEW r \in Requests, Alloc(r) PROVE StatsInv'
  <2>1. PICK n, c : n = CellSize(r) /\ c = FirstFit(n)
    OBVIOUS
  <2>2. n \in Nat /\ n >= MinCell
    BY <2>1, CellSizeRange, RequestAssumption
  <2>3. c \in Free /\ (Split(c, n) \/ Whole(c, n)) /\ Forget(c) /\ CountUp
    BY <1>1, <2>1, <2>2, FirstFitFits DEF Alloc, StatsInv, Shape
  <2> QED BY <2>2, <2>3, SplitCounts, WholeCounts
<1>2. ASSUME NEW c \in Used, SubaFree(c) PROVE StatsInv'
  BY <1>2, FreeCounts
<1>3. CASE MemInfo
  <2>1. Shape'
    BY AreaStep, <1>3 DEF StatsInv, Next
  <2>2. \A d \in Free : size[d] <= size[Largest]
    BY LargestListed DEF StatsInv, Shape
  <2> QED BY <1>0, <1>3, <2>1, <2>2 DEF MemInfo, allocStats, StatsInv, StatsRight
<1>4. CASE (\E r \in Requests : Refuse(r)) \/ UNCHANGED vars
  <2>1. Shape'
    BY AreaStep DEF StatsInv
  <2>2. UNCHANGED <<size, next, freeStats, allocStats>>
    BY <1>4 DEF Refuse, vars
  <2> QED BY <1>0, <2>1, <2>2 DEF freeStats, allocStats, StatsInv, StatsRight
<1> QED BY <1>1, <1>2, <1>3, <1>4 DEF Next

\* The counters of the allocator never drift from the list, however cells are cut and
\* joined, and a largest block that is remembered is a largest one.
THEOREM CountersRight == Spec => []StatsRight
<1>1. StatsInv => StatsRight
  BY DEF StatsInv
<1> QED BY StatsInit, StatsStep, <1>1, PTL DEF Spec
=============================================================================
