------------------------------ MODULE AtomicFile ------------------------------
(***************************************************************************)
(* What pager.c promises of a database file (its first lines): commits and *)
(* rollbacks are atomic, nobody reads while another process changes the    *)
(* file, and one process writes at a time.  Detached from locks, journals  *)
(* and caches: the file has one content, a process that reads is attached  *)
(* to it, and one of them may prepare the next content.                    *)
(***************************************************************************)
EXTENDS Integers

CONSTANTS Proc,        \* the processes that have the file open
          Page,        \* the numbers of its pages, from 1
          Val,         \* what a page may hold
          NoTxn        \* a process that prepares nothing

VARIABLES
  content,   \* the file as committed: how many pages, and what is in them
  before,    \* the content a power failure may fall back to
  attached,  \* the processes that read the file
  next       \* what each process would commit

vars == <<content, before, attached, next>>

Init ==
  /\ content \in [size : Nat, page : [Page -> Val]]
  /\ before = content
  /\ attached = {}
  /\ next = [p \in Proc |-> NoTxn]

Attach(p) ==
  /\ p \notin attached
  /\ attached' = attached \union {p}
  /\ UNCHANGED <<content, before, next>>

Detach(p) ==
  /\ p \in attached
  /\ attached' = attached \ {p}
  /\ next[p] = NoTxn
  /\ UNCHANGED <<content, before, next>>

Begin(p) ==
  /\ p \in attached /\ attached' = attached
  /\ \A q \in Proc : next[q] = NoTxn
  /\ next' = [next EXCEPT ![p] = content]
  /\ UNCHANGED <<content, before>>

\* One page changes or is added at the end.
Update(p) ==
  LET old == next[p]  new == next'[p]
  IN  /\ p \in attached /\ attached' = attached
      /\ old # NoTxn /\ new # NoTxn
      /\ new.size \in {old.size, old.size + 1}
      /\ \E i \in Page : i <= new.size /\ \A k \in Page : k # i => new.page[k] = old.page[k]
      /\ \A q \in Proc : q # p => next'[q] = next[q]
      /\ UNCHANGED <<content, before>>

\* What was prepared becomes the content, while nobody else reads it.
Commit(p) ==
  /\ attached = {p} /\ attached' = {p}
  /\ next[p] # NoTxn
  /\ content' = next[p]
  /\ before' = content
  /\ next' = [next EXCEPT ![p] = NoTxn]

\* Nothing of what a process prepared remains, also when it crashes.
Abort(p) ==
  /\ p \in attached
  /\ attached' \in {attached, attached \ {p}}
  /\ next[p] # NoTxn
  /\ next' = [next EXCEPT ![p] = NoTxn]
  /\ UNCHANGED <<content, before>>

\* Everybody ends, and the last commit may be undone as a whole.
PowerFailure ==
  /\ content' \in {content, before}
  /\ before' = content'
  /\ attached' = {}
  /\ next' = [p \in Proc |-> NoTxn]

Next ==
  \/ \E p \in Proc : Attach(p) \/ Detach(p) \/ Begin(p) \/ Update(p)
                       \/ Commit(p) \/ Abort(p)
  \/ PowerFailure

Spec == Init /\ [][Next]_vars
===============================================================================
