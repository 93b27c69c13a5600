----------------------------- MODULE Distribution -----------------------------
(***************************************************************************)
(* How balance_nonroot of btree.c distributes the cells of up to NB        *)
(* siblings over new ones.  sz is the bytes of the cells in their order,   *)
(* their pointers included, room what a page has for them.  keep is 1 for  *)
(* the leaves of a table; otherwise the cell between two pages goes to     *)
(* their parent.  A distribution says of each page how many cells lie      *)
(* before its end (cntNew).                                                *)
(***************************************************************************)
EXTENDS Integers, Sequences

\* The bytes of the first n cells.
Before(sz) ==
  LET t[n \in 0..Len(sz)] == IF n = 0 THEN 0 ELSE t[n - 1] + sz[n]
  IN  t

\* The number of the first cell of page i.
Start(cnt, i, keep) == IF i = 1 THEN 1 ELSE cnt[i - 1] + 2 - keep

\* The last cell of a page that starts with cell a and takes as many as it can.
Filled(sz, room, a) ==
  LET t == Before(sz)
  IN  CHOOSE j \in (a - 1)..Len(sz) :
        /\ t[j] - t[a - 1] <= room
        /\ j < Len(sz) => t[j + 1] - t[a - 1] > room

\* Fill pages from the left.
Packed(sz, keep, room) ==
  LET n == Len(sz)
      ends[i \in 1..(n + 1)] ==
        IF i = 1 THEN Filled(sz, room, 1)
        ELSE IF ends[i - 1] = n THEN n ELSE Filled(sz, room, ends[i - 1] + 2 - keep)
      last == CHOOSE i \in 1..(n + 1) : ends[i] = n /\ \A j \in 1..(i - 1) : ends[j] < n
  IN  [i \in 1..last |-> ends[i]]

\* With r the last cell of a page that starts with cell a, and e the last cell of the
\* next one: whether a cell moves to the next page, because that is empty or because
\* it makes the two more alike.  The packing counts two bytes too many (extra) for
\* every page but the last one.
MovesOn(sz, keep, a, r, e, extra) ==
  LET t == Before(sz)
      d == r + 1 - keep            \* the cell that comes to the next page
      right == t[e] - t[d] + extra
      left == t[r] - t[a - 1] + 2
  IN  right = 0 \/ right + sz[d] <= left - sz[r]

\* Where the page that ended with cell `from` ends once no more cells move on.
Settled(sz, keep, a, from, e, extra) ==
  CHOOSE r \in (a - 1)..from :
    /\ \A x \in (r + 1)..from : MovesOn(sz, keep, a, x, e, extra)
    /\ ~MovesOn(sz, keep, a, r, e, extra)

\* Move cells from each page to the next one, from the last two pages to the first.
Evened(sz, keep, cnt) ==
  LET k == Len(cnt)
      ends[i \in 1..k] ==
        IF i = k THEN cnt[k]
        ELSE Settled(sz, keep, Start(cnt, i, keep), cnt[i], ends[i + 1],
                     IF i + 1 = k THEN 0 ELSE 2)
  IN  ends
===============================================================================
