-------------------------------- MODULE BTree --------------------------------
(***************************************************************************)
(* btree.c: one table of a database file as a balanced tree of pages, the  *)
(* list of free pages, and cursors.  A tree is either a table (LEAFDATA:   *)
(* rows on the leaves, interior pages repeat keys to guide the search) or  *)
(* an index (rows on all pages).  Rows that do not fit on a page go on in  *)
(* a chain of overflow pages.                                              *)
(*                                                                         *)
(* Sizes are in bytes, with the lengths of headers, pointers and cells of  *)
(* the code, so that pages overflow and are merged where the code does it. *)
(* Where a page keeps a cell, and its parent and index cached in memory,   *)
(* are left out.  All steps are those of one write transaction.            *)
(***************************************************************************)
EXTENDS FreeList, Distribution, FiniteSets, SequencesExt, FiniteSetsExt

CONSTANTS
  Usable,        \* pBt->usableSize: bytes of a page
  FileHeader,    \* bytes at the start of page 1 that are no part of its tree
  KeySize,       \* bytes of the key of a table in a cell of an interior page
  Key,           \* the keys used
  Cursor,        \* the cursors the callers may open
  Trees          \* the trees looked at: [root, leafData, rows], where rows are
                 \* the [size, chain] of the cells of the rows: the bytes on the
                 \* page and the number of overflow pages

NN == 1                    \* neighbours on either side that take part in balancing
NB == 2 * NN + 1
Header(leaf) == IF leaf THEN 8 ELSE 12
Pointer(leaf) == IF leaf THEN 2 ELSE 6     \* of a cell in the header, and to a child

\* Four cells of an index, or keys of a table, fit on a page (maxEmbedFrac), also
\* on page 1, and any row of a table fits on a leaf (maxLeaf).
ASSUME BTreeAssumption ==
  /\ {Usable, FileHeader, KeySize} \subseteq Nat \ {0} /\ Key \subseteq Nat \ {0}
  /\ 4 * (KeySize + Pointer(FALSE)) + Header(FALSE) + FileHeader <= Usable
  /\ \A t \in Trees :
       /\ t.root \in {1, 2} /\ t.leafData \in BOOLEAN
       /\ \A r \in t.rows :
            /\ r.size >= 4 /\ r.chain \in Nat
            /\ IF t.leafData THEN r.size + Pointer(TRUE) + Header(TRUE) <= Usable
               ELSE /\ t.root # 1
                    /\ 4 * (r.size + Pointer(FALSE)) + Header(FALSE) <= Usable

NoCall == [cur |-> "none", key |-> 0]

VARIABLES
  tree,     \* which tree
  pages,    \* the pages of the tree: [leaf, cells, right], where right is the last
            \* child and a cell is [key, row, child, ovfl]
  free,     \* the free list, from page 1 on: trunks [page, leaves]
  nPage,    \* pages of the file
  todo,     \* what the call still has to do
  call,     \* the cursor and the key of a call in progress
  cursor    \* the open cursors: [wr, page, idx, valid]

vars == <<tree, pages, free, nPage, todo, call, cursor>>
fileVars == <<pages, free, nPage>>

Row == UNION {t.rows : t \in Trees}
Divider == [size |-> KeySize, chain |-> 0]   \* an interior cell of a table has no data

-------------------------------------------------------------------------------
(* The free list.                                                            *)

Space == [free |-> free, nPage |-> nPage]

\* Mutant of ClearCell: only the first page of a chain is freed.
ClearFirst(s, cell) == IF cell.ovfl = <<>> THEN s ELSE FreePage(s, Head(cell.ovfl))

ClearCell(s, cell) == FreeAll(s, cell.ovfl)
-------------------------------------------------------------------------------
(* Pages.                                                                     *)

Child(pg, i) == IF i < Len(pg.cells) THEN pg.cells[i + 1].child ELSE pg.right

Children(pg) == IF pg.leaf THEN {} ELSE {Child(pg, i) : i \in 0..Len(pg.cells)}

ParentOf(ps, p) == CHOOSE q \in DOMAIN ps : p \in Children(ps[q])

CellBytes(leaf, cell) == cell.row.size + Pointer(leaf)

Used(pg) == FoldLeft(LAMBDA n, cell : n + CellBytes(pg.leaf, cell), 0, pg.cells)

Capacity(p, leaf) == Usable - Header(leaf) - (IF p = 1 THEN FileHeader ELSE 0)

\* nOverflow > 0: there are cells that had to be kept beside the page.
Overfull(ps, p) == Used(ps[p]) > Capacity(p, ps[p].leaf)

NFree(ps, p) == IF Overfull(ps, p) THEN 0 ELSE Capacity(p, ps[p].leaf) - Used(ps[p])

EmptyLeaf == [leaf |-> TRUE, cells |-> <<>>, right |-> NoPage]

DropCell(pg, i) == [pg EXCEPT !.cells = RemoveAt(@, i + 1)]

InsertCell(pg, i, cell) == [pg EXCEPT !.cells = InsertAt(@, i + 1, cell)]

\* The root of a table on page 1 may be empty but for its last child, the virtual root.
IsRootPage(ps, p) ==
  \/ p = tree.root
  \/ tree.root = 1 /\ ps[1].cells = <<>> /\ ps[1].right = p
-------------------------------------------------------------------------------
(* Moving in the tree.  Cells are numbered from 0, as in the code.            *)

Position(p, i, valid) == [page |-> p, idx |-> i, valid |-> valid]

MoveToRoot(ps) ==
  LET p == IF ps[tree.root].cells = <<>> /\ ~ps[tree.root].leaf
           THEN ps[tree.root].right ELSE tree.root
  IN  Position(p, 0, ps[p].cells # <<>>)

RECURSIVE Leftmost(_, _, _)
Leftmost(ps, p, i) ==
  IF ps[p].leaf THEN Position(p, i, TRUE) ELSE Leftmost(ps, ps[p].cells[i + 1].child, 0)

RECURSIVE Rightmost(_, _)
Rightmost(ps, p) ==
  IF ps[p].leaf THEN Position(p, Len(ps[p].cells) - 1, TRUE) ELSE Rightmost(ps, ps[p].right)

\* The binary search of a page: where it ends, and the cell it looked at last.
RECURSIVE Bisect(_, _, _, _, _)
Bisect(pg, k, lwr, upr, last) ==
  IF lwr > upr THEN [lwr |-> lwr, idx |-> last.idx, c |-> last.c]
  ELSE LET i == (lwr + upr) \div 2  key == pg.cells[i + 1].key
       IN  CASE key = k -> [lwr |-> i, idx |-> i, c |-> 0]
             [] key < k -> Bisect(pg, k, i + 1, upr, [idx |-> i, c |-> -1])
             [] key > k -> Bisect(pg, k, lwr, i - 1, [idx |-> i, c |-> 1])

RECURSIVE Descend(_, _, _)
\* Mutant of Descend: it ends at the place of the key, not where it last compared.
DescendToPlace(ps, p, k) ==
  LET pg == ps[p]
      end == Bisect(pg, k, 0, Len(pg.cells) - 1, [idx |-> 0, c |-> -1])
  IN  IF pg.leaf \/ (end.c = 0 /\ ~tree.leafData)
      THEN [at |-> Position(p, IF end.lwr < Len(pg.cells) THEN end.lwr ELSE end.idx, TRUE),
            c |-> end.c]
      ELSE Descend(ps, Child(pg, end.lwr), k)

Descend(ps, p, k) ==
  LET pg == ps[p]
      end == Bisect(pg, k, 0, Len(pg.cells) - 1, [idx |-> 0, c |-> -1])
  IN  IF pg.leaf \/ (end.c = 0 /\ ~tree.leafData)
      THEN [at |-> Position(p, end.idx, TRUE), c |-> end.c]
      ELSE Descend(ps, Child(pg, end.lwr), k)

\* sqlite3BtreeMoveto: the entry with the key (c = 0), or one beside its place.
Seek(ps, k) ==
  LET start == MoveToRoot(ps)
  IN  IF ~start.valid THEN [at |-> start, c |-> -1] ELSE Descend(ps, start.page, k)

\* From the end of page p to the first entry above that comes after it.
RECURSIVE NextOf(_, _, _), NextAbove(_, _)
NextAbove(ps, p) ==
  IF IsRootPage(ps, p) THEN Position(p, Len(ps[p].cells), FALSE)
  ELSE LET q == ParentOf(ps, p)
           i == CHOOSE j \in 0..Len(ps[q].cells) : Child(ps[q], j) = p
       IN  IF i >= Len(ps[q].cells) THEN NextAbove(ps, q)
           ELSE IF tree.leafData THEN NextOf(ps, q, i) ELSE Position(q, i, TRUE)

\* Mutant of NextOf: after an entry of an interior page comes the next one of that page.
NextSkips(ps, p, idx) ==
  LET pg == ps[p]  i == idx + 1
  IN  IF i >= Len(pg.cells)
      THEN IF pg.leaf THEN NextAbove(ps, p) ELSE Leftmost(ps, pg.right, 0)
      ELSE Position(p, i, TRUE)

NextOf(ps, p, idx) ==
  LET pg == ps[p]  i == idx + 1
  IN  CASE i >= Len(pg.cells) /\ pg.leaf  -> NextAbove(ps, p)
        [] i >= Len(pg.cells) /\ ~pg.leaf -> Leftmost(ps, pg.right, 0)
        [] i < Len(pg.cells)              -> Leftmost(ps, p, i)

RECURSIVE PreviousOf(_, _, _), PreviousAbove(_, _)
PreviousAbove(ps, p) ==
  IF IsRootPage(ps, p) THEN Position(p, 0, FALSE)
  ELSE LET q == ParentOf(ps, p)
           i == CHOOSE j \in 0..Len(ps[q].cells) : Child(ps[q], j) = p
       IN  CASE i = 0 -> PreviousAbove(ps, q)
             [] i > 0 /\ tree.leafData  -> PreviousOf(ps, q, i - 1)
             [] i > 0 /\ ~tree.leafData -> Position(q, i - 1, TRUE)

PreviousOf(ps, p, idx) ==
  CASE ~ps[p].leaf            -> Rightmost(ps, ps[p].cells[idx + 1].child)
    [] ps[p].leaf /\ idx > 0  -> Position(p, idx - 1, TRUE)
    [] ps[p].leaf /\ idx = 0  -> PreviousAbove(ps, p)
-------------------------------------------------------------------------------
(* balance_nonroot.                                                          *)

\* The siblings that take part when page p is balanced: their parent, the number of
\* the first divider between them, and their pages.
Siblings(ps, p) ==
  LET q == ParentOf(ps, p)
      n == Len(ps[q].cells)
      idx == CHOOSE j \in 0..n : Child(ps[q], j) = p
      near == IF idx - NN + NB > n THEN n - NB + 1 ELSE idx - NN
      from == IF near < 0 THEN 0 ELSE near
      last == IF from + NB - 1 < n THEN from + NB - 1 ELSE n
  IN  [parent |-> q, from |-> from, leaf |-> ps[p].leaf,
       old |-> [i \in 1..(last - from + 1) |-> Child(ps[q], from + i - 1)]]

Keep(leaf) == IF leaf /\ tree.leafData THEN 1 ELSE 0

\* The cells of the siblings in order, with the dividers between them, except that
\* dividers of leaves of a table only repeat keys.
Gather(ps, g) ==
  LET divider(i) == [ps[g.parent].cells[g.from + i] EXCEPT
                       !.child = IF g.leaf THEN NoPage ELSE ps[g.old[i]].right]
  IN  FlattenSeq([i \in DOMAIN g.old |->
        ps[g.old[i]].cells \o (IF i < Len(g.old) /\ ~(g.leaf /\ tree.leafData)
                               THEN <<divider(i)>> ELSE <<>>)])

\* Mutant of Room: interior pages are taken to have the short header of a leaf.
RoomOfLeaf(leaf) == Usable - Header(TRUE)

Room(leaf) == Usable - Header(leaf)

\* How many cells lie before the end of each of the new siblings.
Plan(leaf, cells) ==
  LET sz == [i \in DOMAIN cells |-> CellBytes(leaf, cells[i])]
  IN  Evened(sz, Keep(leaf), Packed(sz, Keep(leaf), Room(leaf)))

\* Mutant of StartAfter: a cell is taken for the divider in a table too.
StartLater(leaf, n) == n + 2

\* The first cell of the page after one that ends with cell n.
StartAfter(leaf, n) == n + 2 - Keep(leaf)

\* The i-th new sibling, and the divider after it.
NewSibling(g, cells, cnt, i, lastRight) ==
  [leaf |-> g.leaf,
   cells |-> SubSeq(cells, IF i = 1 THEN 1 ELSE StartAfter(g.leaf, cnt[i - 1]), cnt[i]),
   right |-> CASE g.leaf -> NoPage
               [] ~g.leaf /\ i < Len(cnt) -> cells[cnt[i] + 1].child
               [] ~g.leaf /\ i = Len(cnt) -> lastRight]

NewDivider(g, cells, cnt, i, child) ==
  IF Keep(g.leaf) = 1
  THEN [key |-> cells[cnt[i]].key, row |-> Divider, child |-> child, ovfl |-> <<>>]
  ELSE [cells[cnt[i] + 1] EXCEPT !.child = child]

\* The parent, with new dividers in place of the old ones.
NewParent(pg, g, dividers, last) ==
  LET after == SubSeq(pg.cells, g.from + Len(g.old), Len(pg.cells))
  IN  [pg EXCEPT
        !.cells = SubSeq(@, 1, g.from) \o dividers
                    \o (IF after = <<>> THEN <<>>
                        ELSE <<[after[1] EXCEPT !.child = last]>> \o Tail(after)),
        !.right = IF after = <<>> THEN last ELSE @]

\* The tree once the cells are on the pages `got`.
Distribute(ps, g, cells, cnt, got) ==
  [x \in (DOMAIN ps \ ToSet(g.old)) \union ToSet(got) |->
     CASE x = g.parent ->
            NewParent(ps[x], g,
                      [i \in 1..(Len(cnt) - 1) |-> NewDivider(g, cells, cnt, i, got[i])],
                      got[Len(cnt)])
       [] x \in ToSet(got) ->
            NewSibling(g, cells, cnt, CHOOSE i \in DOMAIN cnt : got[i] = x,
                       ps[Last(g.old)].right)
       [] OTHER -> ps[x]]

\* balance_nonroot, up to the parent's turn: the tree, the space and the siblings.
Redistribute(ps, s, p) ==
  LET g == Siblings(ps, p)
      cells == Gather(ps, g)
      cnt == Plan(g.leaf, cells)
      got == SiblingPages(s, g.old, Len(cnt))
  IN  [pages |-> Distribute(ps, g, cells, cnt, got.pages), space |-> got.space,
       new |-> got.pages]
-------------------------------------------------------------------------------
(* The calls.  Each step of a call is one function of the code; todo is what   *)
(* remains: "inserted" and "balance" stand for balance(page, 1) and (page, 0), *)
(* "split" for balance_nonroot, "drop" for the last part of a deletion.        *)

Do(what, p) == [do |-> what, page |-> p, idx |-> 0]
DropLater(at) == [do |-> "drop", page |-> at.page, idx |-> at.idx]

Idle == call = NoCall

SetSpace(s) == free' = s.free /\ nPage' = s.nPage

Points(c) ==
  /\ cursor[c].page \in DOMAIN pages
  /\ cursor[c].idx < Len(pages[cursor[c].page].cells)

MoveCursor(c, at) == [wr |-> cursor[c].wr, page |-> at.page, idx |-> at.idx, valid |-> at.valid]

\* Mutant of CheckReadLocks: a cursor that reads does not keep others from writing.
CheckNothing(mine) == TRUE

\* The table is locked for writing while a cursor that is not among `mine` reads it.
CheckReadLocks(mine) == \A d \in DOMAIN cursor \ mine : cursor[d].wr

\* checkReadLocks moves the other cursors to the root, unless they are there.  As a
\* cursor for writing is not opened while one reads, those that read come first in
\* the list, and a call that is refused has moved none.
Reset(mine) ==
  [d \in DOMAIN cursor |->
     IF d \in mine \/ cursor[d].page = tree.root THEN cursor[d]
     ELSE MoveCursor(d, MoveToRoot(pages))]

\* sqlite3BtreeInsert up to balance().
Insert(c, k, row) ==
  LET found == Seek(pages, k)
      at == found.at
      pg == pages[at.page]
      got == AllocateMany(Space, row.chain, NoPage)
      cell(child) == [key |-> k, row |-> row, child |-> child, ovfl |-> got.pages]
      old == pg.cells[at.idx + 1]
  IN  /\ Idle /\ cursor[c].wr /\ CheckReadLocks({c})
      /\ IF found.c = 0
         THEN /\ pages' = [pages EXCEPT ![at.page] =
                             InsertCell(DropCell(pg, at.idx), at.idx, cell(old.child))]
              /\ SetSpace(ClearCell(got.space, old))
         ELSE /\ pages' = [pages EXCEPT ![at.page] =
                             InsertCell(pg, IF found.c < 0 /\ pg.cells # <<>> THEN at.idx + 1 ELSE at.idx,
                                        cell(NoPage))]
              /\ SetSpace(got.space)
      /\ todo' = <<Do("inserted", at.page)>>
      /\ call' = [cur |-> c, key |-> k]
      /\ cursor' = [Reset({c}) EXCEPT ![c] = MoveCursor(c, at)]
      /\ UNCHANGED tree

\* sqlite3BtreeDelete up to balance(), on a leaf.  It does not ask if the cursor is valid.
DeleteFromLeaf(c) ==
  LET p == cursor[c].page  cell == pages[p].cells[cursor[c].idx + 1]
  IN  /\ Idle /\ Points(c) /\ cursor[c].wr /\ CheckReadLocks({c})
      /\ pages[p].leaf
      /\ pages' = [pages EXCEPT ![p] = DropCell(@, cursor[c].idx)]
      /\ SetSpace(ClearCell(Space, cell))
      /\ todo' = <<Do("balance", p)>>
      /\ call' = [cur |-> c, key |-> cell.key]
      /\ cursor' = Reset({c})
      /\ UNCHANGED tree

\* On an interior page of an index: the next entry, which is on a leaf, takes the
\* place, and is dropped from the leaf once the interior page is balanced.  (On one of
\* a table, and with a cursor that is not valid, the assertions of the code fail.)
DeleteFromInterior(c) ==
  LET p == cursor[c].page  i == cursor[c].idx
      cell == pages[p].cells[i + 1]
      leaf == NextOf(pages, p, i)
      next == pages[leaf.page].cells[leaf.idx + 1]
  IN  /\ Idle /\ Points(c) /\ cursor[c].wr /\ CheckReadLocks({c})
      /\ ~pages[p].leaf /\ ~tree.leafData /\ cursor[c].valid
      /\ pages' = [pages EXCEPT ![p] =
                     InsertCell(DropCell(@, i), i, [next EXCEPT !.child = cell.child])]
      /\ SetSpace(ClearCell(Space, cell))
      /\ todo' = <<Do("balance", p), DropLater(leaf)>>
      /\ call' = [cur |-> c, key |-> cell.key]
      /\ cursor' = Reset({c})
      /\ UNCHANGED tree

DropFromLeaf ==
  /\ todo # <<>> /\ Head(todo).do = "drop"
  /\ pages' = [pages EXCEPT ![Head(todo).page] = DropCell(@, Head(todo).idx)]
  /\ todo' = <<Do("balance", Head(todo).page)>> \o Tail(todo)
  /\ UNCHANGED <<tree, free, nPage, call, cursor>>

\* The call is done: its cursor moves to the root.
Finish ==
  /\ ~Idle /\ todo = <<>>
  /\ cursor' = [cursor EXCEPT ![call.cur] = MoveCursor(call.cur, MoveToRoot(pages))]
  /\ call' = NoCall
  /\ UNCHANGED <<tree, pages, free, nPage, todo>>
-------------------------------------------------------------------------------
(* Balancing.                                                                 *)

Balancing == todo # <<>> /\ Head(todo).do # "drop"
AtRoot == Head(todo).page = tree.root

\* Mutant of Due: pages that have become nearly empty are left alone.
DueOverfull ==
  /\ Balancing /\ ~AtRoot
  /\ Head(todo).do = "split" \/ Overfull(pages, Head(todo).page)

\* balance_nonroot is due for the page at the head of todo.
Due ==
  LET p == Head(todo).page
  IN  /\ Balancing /\ ~AtRoot
      /\ \/ Head(todo).do = "split"
         \/ Overfull(pages, p)
         \/ Head(todo).do = "balance" /\ NFree(pages, p) > (Usable * 2) \div 3

\* The new row is the last one of the table, and the page cannot hold it.
Quick ==
  LET p == Head(todo).page
  IN  /\ tree.leafData /\ pages[p].leaf
      /\ Overfull(pages, p) /\ Last(pages[p].cells).key = call.key
      /\ ParentOf(pages, p) # 1 /\ pages[ParentOf(pages, p)].right = p

BalanceQuick ==
  /\ Due /\ Quick
  /\ LET p == Head(todo).page
         q == ParentOf(pages, p)
         a == Allocate(Space, NoPage)
         rest == Front(pages[p].cells)
         divider == [key |-> Last(rest).key, row |-> Divider, child |-> p, ovfl |-> <<>>]
     IN  /\ pages' = [x \in DOMAIN pages \union {a.page} |->
                        CASE x = p -> [pages[p] EXCEPT !.cells = rest]
                          [] x = q -> [pages[q] EXCEPT !.cells = Append(@, divider), !.right = a.page]
                          [] x = a.page -> [EmptyLeaf EXCEPT !.cells = <<Last(pages[p].cells)>>]
                          [] OTHER -> pages[x]]
         /\ SetSpace(a.space)
         /\ todo' = <<Do("balance", q)>> \o Tail(todo)
  /\ UNCHANGED <<tree, call, cursor>>

BalanceNonroot ==
  /\ Due /\ ~Quick
  /\ LET p == Head(todo).page
         r == Redistribute(pages, Space, p)
     IN  /\ pages' = r.pages
         /\ SetSpace(r.space)
         /\ todo' = <<Do("balance", ParentOf(pages, p))>> \o Tail(todo)
  /\ UNCHANGED <<tree, call, cursor>>

\* The root is overfull: its cells go to a new child, which is split; the root, if
\* it still has no cells then, becomes shallower again.
BalanceDeeper ==
  /\ Balancing /\ AtRoot /\ Overfull(pages, tree.root)
  /\ LET a == Allocate(Space, tree.root)
     IN  /\ pages' = [x \in DOMAIN pages \union {a.page} |->
                        CASE x = tree.root -> [leaf |-> FALSE, cells |-> <<>>, right |-> a.page]
                          [] x = a.page -> pages[tree.root]
                          [] OTHER -> pages[x]]
         /\ SetSpace(a.space)
         /\ todo' = <<Do("split", a.page), Do("balance", tree.root)>> \o Tail(todo)
  /\ UNCHANGED <<tree, call, cursor>>

\* Mutant of FitsRoot: the file header of page 1 is forgotten.
FitsAny(p) == TRUE

\* What page 1 has less room than its child is left in the child.
FitsRoot(p) == tree.root = 1 => NFree(pages, p) >= FileHeader

CanBeShallower ==
  LET root == pages[tree.root]
  IN  root.cells = <<>> /\ ~root.leaf /\ FitsRoot(root.right)

\* The root has no cells and one child: the child moves into it.
BalanceShallower ==
  /\ Balancing /\ AtRoot /\ CanBeShallower
  /\ LET child == pages[tree.root].right
     IN  /\ pages' = [x \in DOMAIN pages \ {child} |->
                        IF x = tree.root THEN pages[child] ELSE pages[x]]
         /\ SetSpace(FreePage(Space, child))
  /\ todo' = Tail(todo)
  /\ UNCHANGED <<tree, call, cursor>>

BalanceNothing ==
  /\ Balancing /\ ~Due
  /\ AtRoot => ~Overfull(pages, tree.root) /\ ~CanBeShallower
  /\ todo' = Tail(todo)
  /\ UNCHANGED <<tree, pages, free, nPage, call, cursor>>
-------------------------------------------------------------------------------
(* Emptying a table, and the cursors.                                         *)

\* The pages below page p, in the order in which clearDatabasePage frees them.
RECURSIVE Below(_, _)
Below(ps, p) ==
  LET pg == ps[p]
      under(q) == IF pg.leaf THEN <<>> ELSE Below(ps, q) \o <<q>>
  IN  FlattenSeq([i \in DOMAIN pg.cells |-> under(pg.cells[i].child) \o pg.cells[i].ovfl])
        \o under(pg.right)

\* sqlite3BtreeClearTable: it moves the cursors first.  (Page 1 is never emptied.)
ClearTable ==
  /\ Idle /\ tree.root # 1 /\ CheckReadLocks({})
  /\ cursor' = [d \in DOMAIN cursor |-> MoveCursor(d, MoveToRoot(pages))]
  /\ pages' = [x \in {tree.root} |-> EmptyLeaf]
  /\ SetSpace(FreeAll(Space, Below(pages, tree.root)))
  /\ UNCHANGED <<tree, todo, call>>

Open(c, wr) ==
  /\ Idle /\ c \notin DOMAIN cursor
  /\ wr => CheckReadLocks({})
  /\ cursor' = [d \in DOMAIN cursor \union {c} |->
                  CASE d = c -> [wr |-> wr, page |-> tree.root, idx |-> 0, valid |-> FALSE]
                    [] d # c /\ wr -> Reset({})[d]
                    [] d # c /\ ~wr -> cursor[d]]
  /\ UNCHANGED <<tree, fileVars, todo, call>>

Close(c) ==
  /\ Idle
  /\ cursor' = [d \in DOMAIN cursor \ {c} |-> cursor[d]]
  /\ UNCHANGED <<tree, fileVars, todo, call>>

Go(c, at) ==
  /\ Idle
  /\ cursor' = [cursor EXCEPT ![c] = MoveCursor(c, at)]
  /\ UNCHANGED <<tree, fileVars, todo, call>>

FirstOf(ps) ==
  LET top == MoveToRoot(ps) IN IF top.valid THEN Leftmost(ps, top.page, 0) ELSE top

LastOf(ps) ==
  LET top == MoveToRoot(ps) IN IF top.valid THEN Rightmost(ps, top.page) ELSE top

First(c) == Go(c, FirstOf(pages))

GoLast(c) == Go(c, LastOf(pages))

Moveto(c, k) == Go(c, Seek(pages, k).at)

Advance(c) ==
  /\ cursor[c].valid /\ Points(c)
  /\ Go(c, NextOf(pages, cursor[c].page, cursor[c].idx))

Previous(c) ==
  /\ cursor[c].valid /\ Points(c)
  /\ Go(c, PreviousOf(pages, cursor[c].page, cursor[c].idx))
-------------------------------------------------------------------------------
Init ==
  /\ tree \in Trees
  /\ pages = [x \in {tree.root} |-> EmptyLeaf]
  /\ free = <<>> /\ nPage = tree.root
  /\ todo = <<>> /\ call = NoCall
  /\ cursor = <<>>

\* What a call goes on with by itself.
Internal ==
  \/ BalanceQuick \/ BalanceNonroot \/ BalanceDeeper \/ BalanceShallower
  \/ BalanceNothing \/ DropFromLeaf \/ Finish

Delete(c) == DeleteFromLeaf(c) \/ DeleteFromInterior(c)

Move(c) ==
  \/ First(c) \/ GoLast(c) \/ Advance(c) \/ Previous(c)
  \/ \E k \in Key : Moveto(c, k)

Next ==
  \/ Internal
  \/ ClearTable
  \/ \E c \in Cursor, wr \in BOOLEAN : Open(c, wr)
  \/ \E c \in DOMAIN cursor :
       \/ Delete(c) \/ Move(c) \/ Close(c)
       \/ \E k \in Key, row \in tree.rows : Insert(c, k, row)

Spec == Init /\ [][Next]_vars
-------------------------------------------------------------------------------
(* Properties.                                                                *)

Rows ==
  {<<cell.key, cell.row>> : cell \in
     UNION {ToSet(pages[p].cells) : p \in {x \in DOMAIN pages : pages[x].leaf \/ ~tree.leafData}}}

\* However pages are split, merged and freed, and however an entry of an interior
\* page is replaced, the tree holds the rows that were inserted and not deleted, one
\* per key, at every step of every call.
Abstract == INSTANCE Table WITH table <- Rows, busy <- call.key
ImplementsTable == Abstract!Spec

ChildSeq(pg) == IF pg.leaf THEN <<>> ELSE [i \in 1..(Len(pg.cells) + 1) |-> Child(pg, i - 1)]

\* All references to pages there are.
References ==
  (IF tree.root = 1 THEN <<1>> ELSE <<1, tree.root>>)
  \o FlattenSeq([i \in DOMAIN free |-> <<free[i].page>> \o free[i].leaves])
  \o FlattenSeq([p \in 1..nPage |->
       IF p \in DOMAIN pages
       THEN ChildSeq(pages[p])
            \o FlattenSeq([i \in DOMAIN pages[p].cells |-> pages[p].cells[i].ovfl])
       ELSE <<>>])

\* Between calls every page of the file is in use once: by the tree, in an overflow
\* chain or on the free list.  None is lost, none is used twice
\* (sqlite3BtreeIntegrityCheck looks for the same), and no chain is cut short.
EachPageOnce ==
  Idle => /\ Len(References) = nPage /\ ToSet(References) = 1..nPage
          /\ \A p \in DOMAIN pages : \A i \in DOMAIN pages[p].cells :
               Len(pages[p].cells[i].ovfl) = pages[p].cells[i].row.chain

RECURSIVE Depths(_, _)
Depths(p, d) ==
  IF pages[p].leaf THEN {d} ELSE UNION {Depths(q, d + 1) : q \in Children(pages[p])}

\* Between calls the tree is balanced: all leaves are equally deep, the cells of each
\* page fit on it, and only the root may have none, as a leaf or, on page 1, because
\* its only child did not fit there when the tree was last rebalanced.
Balanced ==
  Idle => /\ Cardinality(Depths(tree.root, 0)) = 1
          /\ \A p \in DOMAIN pages :
               /\ ~Overfull(pages, p)
               /\ \/ pages[p].cells # <<>>
                  \/ p = tree.root /\ pages[p].leaf
                  \/ p = tree.root /\ p = 1

KeyAt(at) == pages[at.page].cells[at.idx + 1].key

\* The contract of sqlite3BtreeMoveto, between calls: it finds every row.  For a key
\* that has none it ends on a leaf, at the next smaller row (c < 0) or the next larger
\* one (c > 0), so that a row for the key belongs right after or before it; in an empty
\* tree it ends nowhere (c < 0).
Searchable ==
  Idle =>
    LET keys == {e[1] : e \in Rows}
    IN  \A k \in Key :
          LET found == Seek(pages, k)  key == KeyAt(found.at)
          IN  CASE keys = {}                    -> found.c = -1 /\ ~found.at.valid
                [] k \in keys                   -> found.c = 0 /\ found.at.valid /\ key = k
                [] keys # {} /\ k \notin keys ->
                     /\ found.at.valid /\ pages[found.at.page].leaf /\ key \in keys
                     /\ \/ found.c = -1 /\ key < k /\ \A l \in keys : l <= key \/ l > k
                        \/ found.c = 1 /\ key > k /\ \A l \in keys : l >= key \/ l < k

RECURSIVE Forward(_, _), Backward(_, _)
Forward(at, seen) ==
  IF ~at.valid \/ Len(seen) > Cardinality(Key) THEN seen
  ELSE Forward(NextOf(pages, at.page, at.idx), Append(seen, KeyAt(at)))
Backward(at, seen) ==
  IF ~at.valid \/ Len(seen) > Cardinality(Key) THEN seen
  ELSE Backward(PreviousOf(pages, at.page, at.idx), <<KeyAt(at)>> \o seen)

\* Between calls a scan by sqlite3BtreeFirst and Next comes to every row once, in the
\* order of the keys, and one by Last and Previous in the reverse order.
ScanComplete ==
  Idle => LET sorted == Ascending({e[1] : e \in Rows})
          IN  /\ Forward(FirstOf(pages), <<>>) = sorted
              /\ Backward(LastOf(pages), <<>>) = sorted

\* balance_nonroot never needs more pages than its arrays have room for (NB + 2), and
\* the cells it gives each of them fit there; none is empty, but for the only child
\* of an empty root on page 1 (the assertions before and after assemblePage).
SiblingsFit ==
  Due /\ ~Quick =>
    LET r == Redistribute(pages, Space, Head(todo).page)
        q == ParentOf(pages, Head(todo).page)
    IN  /\ Len(r.new) <= NB + 2
        /\ \A i \in DOMAIN r.new :
             /\ ~Overfull(r.pages, r.new[i])
             /\ \/ r.pages[r.new[i]].cells # <<>>
                \/ Len(r.new) = 1 /\ q = 1 /\ pages[q].cells = <<>>

\* A cursor opened for reading stays on its entry while others work: only a call of its
\* own moves it, which changes nothing else; calls that would move it, or move its entry
\* to another page or change it, are refused.
ReadersStay ==
  [][\A c \in DOMAIN cursor \intersect DOMAIN cursor' :
       ~cursor[c].wr =>
         IF cursor'[c] # cursor[c]
         THEN cursor' = [cursor EXCEPT ![c] = cursor'[c]] /\ UNCHANGED <<fileVars, todo, call>>
         ELSE cursor[c].valid =>
                /\ Points(c)'
                /\ pages'[cursor[c].page].cells[cursor[c].idx + 1]
                     = pages[cursor[c].page].cells[cursor[c].idx + 1]]_vars
===============================================================================
