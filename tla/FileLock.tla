------------------------------- MODULE FileLock -------------------------------
(***************************************************************************)
(* What os.h promises of the five locking levels, and what the pager       *)
(* relies on (the guards of module Pager): any number of handles read, one *)
(* may be RESERVED beside them, a PENDING one lets no other process in, and *)
(* an EXCLUSIVE one is alone.  No system calls.                            *)
(***************************************************************************)
EXTENDS Integers

CONSTANTS Proc, Slot     \* the processes, and the handles of each of them

OsFile == Proc \X Slot

VARIABLES lock,          \* the level of each handle
          reserved       \* the handles that hold the RESERVED lock, or held it
                         \* on their way up

vars == <<lock, reserved>>

NO_LOCK == 0
SHARED_LOCK == 1
RESERVED_LOCK == 2
PENDING_LOCK == 3
EXCLUSIVE_LOCK == 4

Others(f) == OsFile \ {f}

Init ==
  /\ lock = [f \in OsFile |-> NO_LOCK]
  /\ reserved = {}

\* A process that reads already may always read through another handle, too.
Share(f) ==
  /\ lock[f] = NO_LOCK
  /\ \/ \A g \in Others(f) : lock[g] < PENDING_LOCK
     \/ \E g \in Others(f) : g[1] = f[1] /\ lock[g] \in {SHARED_LOCK, RESERVED_LOCK}
  /\ lock' = [lock EXCEPT ![f] = SHARED_LOCK]
  /\ UNCHANGED reserved

Reserve(f) ==
  /\ lock[f] = SHARED_LOCK
  /\ reserved = {} /\ reserved' = {f}
  /\ lock' = [lock EXCEPT ![f] = RESERVED_LOCK]

Pend(f) ==
  /\ lock[f] \in {SHARED_LOCK, RESERVED_LOCK}
  /\ \A g \in Others(f) : lock[g] < PENDING_LOCK
  /\ lock' = [lock EXCEPT ![f] = PENDING_LOCK]
  /\ UNCHANGED reserved

Exclude(f) ==
  /\ lock[f] \in SHARED_LOCK..PENDING_LOCK
  /\ \A g \in Others(f) : lock[g] = NO_LOCK
  /\ lock' = [lock EXCEPT ![f] = EXCLUSIVE_LOCK]
  /\ UNCHANGED reserved

Lower(f, to) ==
  /\ lock[f] > to
  /\ lock' = [lock EXCEPT ![f] = to]
  /\ reserved' = reserved \ {f}

\* The handles of a process that dies lose their locks together.
Crash(gone) ==
  /\ lock' = [f \in OsFile |-> IF f \in gone THEN NO_LOCK ELSE lock[f]]
  /\ reserved' = reserved \ gone

Next ==
  \/ \E f \in OsFile :
       \/ Share(f) \/ Reserve(f) \/ Pend(f) \/ Exclude(f)
       \/ \E to \in {NO_LOCK, SHARED_LOCK} : Lower(f, to)
  \/ \E gone \in SUBSET OsFile : Crash(gone)

Spec == Init /\ [][Next]_vars
===============================================================================
