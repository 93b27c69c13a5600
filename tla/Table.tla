-------------------------------- MODULE Table --------------------------------
(***************************************************************************)
(* What the B-trees of btree.c promise their callers: a table with one row *)
(* under a key, of which a call inserts or overwrites one, deletes one or  *)
(* deletes all.  It changes once in a call, and nothing else changes it:   *)
(* pages, overflow chains and balancing are not visible.                   *)
(***************************************************************************)
EXTENDS Integers

CONSTANTS Key, Row

VARIABLES
  table,   \* set of <<key, row>>
  busy     \* the key whose row a call is working on, or 0

vars == <<table, busy>>

Init == table = {} /\ busy = 0

Others(k) == {e \in table : e[1] # k}

Put(k, row) ==
  /\ busy = 0 /\ busy' = k
  /\ table' = Others(k) \union {<<k, row>>}

Remove(k) ==
  /\ busy = 0 /\ busy' = k
  /\ \E e \in table : e[1] = k
  /\ table' = Others(k)

Clear == busy = 0 /\ table' = {} /\ UNCHANGED busy

Done == busy # 0 /\ busy' = 0 /\ UNCHANGED table

Next ==
  \/ \E k \in Key : Remove(k) \/ \E row \in Row : Put(k, row)
  \/ Clear \/ Done

Spec == Init /\ [][Next]_vars
===============================================================================
