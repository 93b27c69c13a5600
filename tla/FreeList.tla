------------------------------- MODULE FreeList -------------------------------
(***************************************************************************)
(* The list of free pages of a database file (allocatePage and freePage of *)
(* btree.c).  From page 1 on it links trunk pages, each of which names     *)
(* further free pages, its leaves.  All changes are made to the first      *)
(* trunk.  A space is [free, nPage]: the trunks [page, leaves] in their    *)
(* order, and the pages of the file.  balance_nonroot takes pages from the *)
(* list and returns others to it (SiblingPages).                           *)
(***************************************************************************)
EXTENDS Integers, Sequences, FiniteSets

CONSTANT TrunkMax   \* usableSize/4 - 8: pages one trunk may name

ASSUME FreeListAssumption == TrunkMax \in Nat \ {0}

NoPage == 0

\* The leaf of a trunk that allocatePage takes: the first one of those closest to
\* the page `nearby`, if there is such a wish.
Closest(leaves, nearby) ==
  LET dist(i) == IF leaves[i] < nearby THEN nearby - leaves[i] ELSE leaves[i] - nearby
  IN  IF nearby = NoPage THEN 1
      ELSE CHOOSE i \in DOMAIN leaves :
             \A j \in DOMAIN leaves : dist(i) < dist(j) \/ (dist(i) = dist(j) /\ i <= j)

\* A leaf of the first trunk, the trunk itself if it has none, or a new page.  The last
\* leaf takes the place of the one that is taken.
Allocate(s, nearby) ==
  IF s.free = <<>> THEN [page |-> s.nPage + 1, space |-> [free |-> <<>>, nPage |-> s.nPage + 1]]
  ELSE LET trunk == Head(s.free)  k == Len(trunk.leaves) IN
    IF k = 0 THEN [page |-> trunk.page, space |-> [s EXCEPT !.free = Tail(@)]]
    ELSE LET i == Closest(trunk.leaves, nearby)
             rest == SubSeq([trunk.leaves EXCEPT ![i] = trunk.leaves[k]], 1, k - 1)
         IN  [page |-> trunk.leaves[i], space |-> [s EXCEPT !.free[1].leaves = rest]]

\* n pages, each near the one before it.
AllocateMany(s, n, nearby) ==
  LET after[k \in 0..n] ==
        IF k = 0 THEN [pages |-> <<>>, space |-> s]
        ELSE LET before == after[k - 1]
                 a == Allocate(before.space, IF k = 1 THEN nearby ELSE before.pages[k - 1])
             IN  [pages |-> Append(before.pages, a.page), space |-> a.space]
  IN  after[n]

\* A leaf of the first trunk, or a new first trunk when that is full.
FreePage(s, p) ==
  IF s.free # <<>> /\ Len(Head(s.free).leaves) < TrunkMax
  THEN [s EXCEPT !.free[1].leaves = Append(@, p)]
  ELSE [s EXCEPT !.free = <<[page |-> p, leaves |-> <<>>]>> \o @]

FreeAll(s, ps) ==
  LET after[k \in 0..Len(ps)] == IF k = 0 THEN s ELSE FreePage(after[k - 1], ps[k])
  IN  after[Len(ps)]

\* The numbers of a set in ascending order.
Ascending(S) ==
  [k \in 1..Cardinality(S) |-> CHOOSE x \in S : Cardinality({y \in S : y <= x}) = k]

\* The pages the k new siblings use, in ascending order: the old ones, more if needed
\* near the last one, and the ones not needed freed.
SiblingPages(s, old, k) ==
  LET kept == SubSeq(old, 1, IF k < Len(old) THEN k ELSE Len(old))
      new == AllocateMany(s, k - Len(kept), kept[Len(kept)])
      all == kept \o new.pages
  IN  [pages |-> Ascending({all[i] : i \in 1..Len(all)}),
       space |-> FreeAll(new.space, SubSeq(old, k + 1, Len(old)))]
===============================================================================
