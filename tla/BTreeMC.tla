------------------------------- MODULE BTreeMC -------------------------------
(* An instance of BTree for TLC with deep trees.  A cursor makes the calls of  *)
(* a script: it inserts rows in some order, so that the tree becomes deep, and *)
(* deletes them in some order.  At any point one other call may come instead   *)
(* of the rest of the script.  Page 1 roots a table, page 2 a table or index.  *)
(* Besides, on trees of a few rows: every order of calls through two cursors.  *)
EXTENDS BTree

CONSTANTS Writer, Patterns

\* steps: how many steps the call that runs has made.
VARIABLES script, done, strayed, steps

mcVars == <<vars, script, done, strayed, steps>>
unscripted == <<script, done, strayed>>

MCKey == 1..30

Sizes(large, little) == {[size |-> large, chain |-> 2], [size |-> little, chain |-> 0]}

Index == [root |-> 2, leafData |-> FALSE, rows |-> Sizes(20, 9)]
DeepTrees == {Index,
              [root |-> 1, leafData |-> TRUE, rows |-> Sizes(100, 30)],
              [root |-> 2, leafData |-> TRUE, rows |-> Sizes(100, 30)]}

SmallTrees == {[root |-> 2, leafData |-> FALSE, rows |-> {[size |-> 20, chain |-> 0]}],
               [root |-> 1, leafData |-> TRUE, rows |-> {[size |-> 30, chain |-> 0]}]}
MCTrees == DeepTrees \union SmallTrees

FewKeys == 1..5

\* Two rows of a table fill a leaf at most, of an index four to nine.
N == IF tree.leafData THEN 18 ELSE 30

KeyOf(order, i) ==
  CASE order = "up" -> i
    [] order = "down" -> N + 1 - i
    [] order = "mixed" -> (i * 7) % (N + 1)

Large == CHOOSE r \in tree.rows : \A s \in tree.rows : r.size >= s.size
Little == CHOOSE r \in tree.rows : \A s \in tree.rows : r.size <= s.size

RowOf(pattern, k) ==
  IF pattern = "large" \/ (pattern = "both" /\ k % 3 # 0) THEN Large ELSE Little

Scripts == {[put |-> o[1], delete |-> o[2], row |-> p] :
              o \in {<<"up", "up">>, <<"mixed", "down">>, <<"down", "mixed">>},
              p \in Patterns}

Free == [put |-> "any", delete |-> "any", row |-> "any"]

MCInit ==
  /\ Init
  /\ IF tree \in DeepTrees THEN script \in Scripts ELSE script = Free
  /\ done = 0 /\ strayed = FALSE /\ steps = 0

At(c, k) == /\ cursor[c].valid /\ Points(c)
            /\ KeyAt(cursor[c]) = k /\ (tree.leafData => pages[cursor[c].page].leaf)

OpenWriter == script # Free /\ Open(Writer, TRUE) /\ UNCHANGED unscripted

Scripted ==
  /\ script # Free /\ Writer \in DOMAIN cursor /\ ~strayed
  /\ IF done < N
     THEN LET k == KeyOf(script.put, done + 1)
          IN  Insert(Writer, k, RowOf(script.row, k)) /\ done' = done + 1
     ELSE /\ done < 2 * N
          /\ LET k == KeyOf(script.delete, done + 1 - N)
             IN  IF At(Writer, k) THEN Delete(Writer) /\ done' = done + 1
                 ELSE Moveto(Writer, k) /\ UNCHANGED done
  /\ UNCHANGED <<script, strayed>>

\* The first and a middle key, and those of interior pages of an index.
StrayKeys ==
  {1, N \div 2} \union
  {e[1] : e \in UNION {{<<cell.key, p>> : cell \in ToSet(pages[p].cells)} :
                         p \in {x \in DOMAIN pages : ~tree.leafData /\ ~pages[x].leaf}}}

Stray ==
  /\ script # Free /\ Writer \in DOMAIN cursor /\ Idle /\ ~strayed /\ strayed' = TRUE
  /\ \E k \in StrayKeys :
       \/ \E row \in tree.rows : Insert(Writer, k, row)
       \/ At(Writer, k) /\ Delete(Writer)
       \/ tree.root # 1 /\ k = 1 /\ ClearTable
  /\ UNCHANGED <<script, done>>

\* The cursor goes where a row may be deleted next, and reads when all is done.
Look ==
  /\ script # Free /\ Writer \in DOMAIN cursor
  /\ IF strayed \/ done = 2 * N THEN First(Writer)
     ELSE \E k \in StrayKeys : Moveto(Writer, k)
  /\ UNCHANGED unscripted

\* Any call on a small tree.
OpenAny == \E c \in Cursor, wr \in BOOLEAN : Open(c, wr)
DeleteAny == \E c \in DOMAIN cursor : Delete(c)
CloseAny == \E c \in DOMAIN cursor : Close(c)
InsertAny == \E c \in DOMAIN cursor, k \in FewKeys, row \in tree.rows : Insert(c, k, row)
MoveAny ==
  \E c \in DOMAIN cursor :
    \/ First(c) \/ GoLast(c) \/ Advance(c) \/ Previous(c)
    \/ \E k \in FewKeys : Moveto(c, k)

AnyCall ==
  /\ script = Free
  /\ OpenAny \/ DeleteAny \/ CloseAny \/ InsertAny \/ MoveAny \/ ClearTable
  /\ UNCHANGED unscripted

Step ==
  \/ AnyCall
  \/ OpenWriter
  \/ Scripted
  \/ Stray
  \/ Look
  \/ BalanceQuick /\ UNCHANGED unscripted
  \/ BalanceNonroot /\ UNCHANGED unscripted
  \/ BalanceDeeper /\ UNCHANGED unscripted
  \/ BalanceShallower /\ UNCHANGED unscripted
  \/ BalanceNothing /\ UNCHANGED unscripted
  \/ DropFromLeaf /\ UNCHANGED unscripted
  \/ Finish /\ UNCHANGED unscripted

MCNext == Step /\ steps' = IF Idle' THEN 0 ELSE steps + 1

MCSpec == MCInit /\ [][MCNext]_mcVars
-------------------------------------------------------------------------------
Depth == CHOOSE d \in Depths(tree.root, 0) : \A e \in Depths(tree.root, 0) : d >= e

\* Every call ends, and soon: balancing goes up the tree and makes the root deeper
\* or shallower once, for each of the two cells a deletion may take away.  It never
\* makes page 1 shallower and deeper in turn for a child that does not fit there.
CallsEnd == steps <= 2 * (Depth + 1) + 3
===============================================================================
