---------------------------- MODULE UnixLockProofs ----------------------------
(***************************************************************************)
(* Theorems about UnixLock for any number of processes and handles: what a *)
(* handle believes to hold its process holds, no living writer is          *)
(* overlooked, and the locks implement FileLock.                           *)
(***************************************************************************)
EXTENDS UnixLock, FiniteSetTheorems, TLAPS

Calls ==
  {Idle} \cup [op : {"shared", "exclusive", "lower", "close"}, slot : Slot]
         \cup [op : {"drop"}, slot : Slot, ok : BOOLEAN]
         \cup [op : {"unlock"}, slot : Slot, close : BOOLEAN]

Ranges == {"pending", "reserved", "shared"}

\* The handles of p that have a lock.
Held(p) == {s \in Slot : locktype[<<p, s>>] > NO_LOCK}

Lv(p, s) == Level(<<p, s>>)

\* The counts of lockInfo and openCnt.
Counted(p) ==
  /\ info[p].cnt = Cardinality(Held(p)) /\ info[p].nLock = info[p].cnt
  /\ info[p].nPending > 0 => info[p].nLock > 0
  /\ info[p].locktype = NO_LOCK <=> Held(p) = {}

\* The levels of the handles of a process, of which one at most is above SHARED.
Levelled(p) ==
  \A s \in Slot :
    Lv(p, s) <= info[p].locktype /\ (Lv(p, s) > NO_LOCK => isOpen[<<p, s>>])

OneWriter(p) ==
  \A s, t \in Slot : Lv(p, s) > SHARED_LOCK /\ Lv(p, t) > SHARED_LOCK => s = t

\* What the process holds for them.
Holds(p) ==
  /\ info[p].locktype > NO_LOCK => os[p].shared # F_UNLCK
  /\ os[p].reserved = F_WRLCK => info[p].locktype > SHARED_LOCK
  /\ \A s \in Slot :
       /\ Lv(p, s) = RESERVED_LOCK => os[p].reserved = F_WRLCK
       /\ Lv(p, s) >= PENDING_LOCK => os[p].pending = F_WRLCK
       /\ Lv(p, s) = EXCLUSIVE_LOCK => os[p].shared = F_WRLCK \/ call[p].op = "lower"

\* What is known in the middle of a call.
During(p) ==
  /\ call[p] # Idle => isOpen[<<p, call[p].slot>>]
  /\ call[p].op \in {"shared", "drop"} =>
       info[p].locktype = NO_LOCK /\ os[p].pending = F_RDLCK
  /\ call[p].op = "drop" /\ call[p].ok => os[p].shared # F_UNLCK
  /\ call[p].op = "exclusive" =>
       /\ locktype[<<p, call[p].slot>>] = info[p].locktype
       /\ info[p].locktype \in SHARED_LOCK..PENDING_LOCK
       /\ os[p].pending = F_WRLCK
  /\ call[p].op = "lower" => locktype[<<p, call[p].slot>>] > SHARED_LOCK
  /\ call[p].op = "unlock" => call[p].close \/ locktype[<<p, call[p].slot>>] > NO_LOCK
  /\ call[p].op = "close" => locktype[<<p, call[p].slot>>] = NO_LOCK

\* Two processes never hold locks on a range that exclude each other.
Compatible ==
  \A p, q \in Proc : \A r \in Ranges : p # q /\ os[p][r] = F_WRLCK => os[q][r] = F_UNLCK

Local(p) == Counted(p) /\ Levelled(p) /\ OneWriter(p) /\ Holds(p) /\ During(p)

Typed == TypeOK /\ call \in [Proc -> Calls]

IInv ==
  /\ Typed
  /\ \A p \in Proc : Local(p)
  /\ Compatible

USE DEF NO_LOCK, SHARED_LOCK, RESERVED_LOCK, PENDING_LOCK, EXCLUSIVE_LOCK,
        F_UNLCK, F_RDLCK, F_WRLCK

LEMMA LvIs ==
  ASSUME NEW p, NEW s
  PROVE  Lv(p, s) = IF call[p].op = "unlock" /\ call[p].slot = s /\ locktype[<<p, s>>] > SHARED_LOCK
                    THEN SHARED_LOCK ELSE locktype[<<p, s>>]
BY DEF Lv, Level

LEMMA LvNext ==
  ASSUME NEW p, NEW s
  PROVE  Lv(p, s)' = IF call'[p].op = "unlock" /\ call'[p].slot = s /\ locktype'[<<p, s>>] > SHARED_LOCK
                     THEN SHARED_LOCK ELSE locktype'[<<p, s>>]
BY DEF Lv, Level

\* The levels as numbers, and the counts.
Numeric(p) ==
  /\ \A s \in Slot : /\ locktype[<<p, s>>] \in 0..4 /\ Lv(p, s) \in 0..4
                     /\ Lv(p, s) <= locktype[<<p, s>>]
                     /\ Lv(p, s) > 0 <=> locktype[<<p, s>>] > 0
                     /\ isOpen[<<p, s>>] \in BOOLEAN
  /\ info[p].cnt \in Nat /\ info[p].nLock \in Nat /\ info[p].nPending \in Nat
  /\ info[p].locktype \in 0..4
  /\ os[p].pending \in 0..2 /\ os[p].reserved \in {0, 2} /\ os[p].shared \in 0..2
  /\ call[p] \in Calls

LEMMA Numbers == ASSUME Typed, NEW p \in Proc PROVE Numeric(p)
<1>1. \A s \in Slot : <<p, s>> \in OsFile
  BY DEF OsFile
<1>2. \A s \in Slot : locktype[<<p, s>>] \in 0..4 /\ isOpen[<<p, s>>] \in BOOLEAN
  BY <1>1 DEF Typed, TypeOK
<1>3. \A s \in Slot : /\ Lv(p, s) \in 0..4 /\ Lv(p, s) <= locktype[<<p, s>>]
                      /\ Lv(p, s) > 0 <=> locktype[<<p, s>>] > 0
  BY <1>2, LvIs
<1>4. /\ info[p].cnt \in Nat /\ info[p].nLock \in Nat /\ info[p].nPending \in Nat
      /\ info[p].locktype \in 0..4
      /\ os[p].pending \in 0..2 /\ os[p].reserved \in {0, 2} /\ os[p].shared \in 0..2
      /\ call[p] \in Calls
  BY DEF Typed, TypeOK
<1> QED
  BY <1>2, <1>3, <1>4 DEF Numeric

LEMMA CallTypes ==
  ASSUME NEW c \in Calls
  PROVE  /\ c = Idle <=> c.op = "none"
         /\ c # Idle => c.slot \in Slot
         /\ c.op = "unlock" => c.close \in BOOLEAN
         /\ c.op = "drop" => c.ok \in BOOLEAN
         /\ c.op \in {"none", "shared", "drop", "exclusive", "lower", "unlock", "close"}
BY DEF Calls, Idle

LEMMA HeldFinite == ASSUME NEW p PROVE IsFiniteSet(Held(p)) /\ Cardinality(Held(p)) \in Nat
BY UnixLockAssumption, FS_Subset, FS_CardinalityType DEF Held

\* What is not about process p stays as it is.
Only(p) ==
  \A q \in Proc \ {p} :
    /\ info'[q] = info[q] /\ os'[q] = os[q] /\ call'[q] = call[q]
    /\ \A s \in Slot : locktype'[<<q, s>>] = locktype[<<q, s>>] /\ isOpen'[<<q, s>>] = isOpen[<<q, s>>]

\* A handle that is RESERVED, or was on its way up.
Rv(p, s) == Lv(p, s) >= RESERVED_LOCK /\ os[p].reserved = F_WRLCK

\* Seen from above a step of process p moves one handle, or nothing.
Moves(p, s, level, reserved) ==
  /\ Only(p)
  /\ \A t \in Slot : /\ Lv(p, t)' = IF t = s THEN level ELSE Lv(p, t)
                     /\ Rv(p, t)' <=> IF t = s THEN reserved ELSE Rv(p, t)

Stays(p) ==
  Only(p) /\ \A t \in Slot : Lv(p, t)' = Lv(p, t) /\ (Rv(p, t)' <=> Rv(p, t))

LEMMA OthersKeep ==
  ASSUME NEW p \in Proc, Only(p), NEW q \in Proc \ {p}, Local(q),
         call[q] \in Calls
  PROVE  Local(q)'
<1>1. /\ info'[q] = info[q] /\ os'[q] = os[q] /\ call'[q] = call[q]
      /\ \A s \in Slot : /\ locktype'[<<q, s>>] = locktype[<<q, s>>]
                         /\ isOpen'[<<q, s>>] = isOpen[<<q, s>>]
  BY DEF Only
<1>2. Held(q)' = Held(q)
  BY <1>1 DEF Held
<1>3. \A s \in Slot : Lv(q, s)' = Lv(q, s)
  BY <1>1, LvIs, LvNext
<1>4. Counted(q)'
  BY <1>1, <1>2 DEF Local, Counted
<1>5. Levelled(q)' /\ OneWriter(q)'
  BY <1>1, <1>3 DEF Local, Levelled, OneWriter
<1>6. Holds(q)'
  BY <1>1, <1>3 DEF Local, Holds
<1>7. During(q)'
  <2>1. /\ call[q] # Idle <=> call[q].op # "none"
        /\ call[q].op # "none" => call[q].slot \in Slot
    BY CallTypes
  <2>2. call[q].op # "none" =>
          /\ isOpen'[<<q, call[q].slot>>] = isOpen[<<q, call[q].slot>>]
          /\ locktype'[<<q, call[q].slot>>] = locktype[<<q, call[q].slot>>]
    BY <1>1, <2>1
  <2> QED
    BY <1>1, <2>1, <2>2 DEF Local, During
<1> QED
  BY <1>4, <1>5, <1>6, <1>7 DEF Local

LEMMA CompatibleStep ==
  ASSUME Typed, Compatible, NEW p \in Proc, Only(p),
         \A r \in Ranges : /\ os'[p][r] \in 0..2
                           /\ os'[p][r] <= os[p][r] \/ Grantable(p, r, os'[p][r])
  PROVE  Compatible'
<1> SUFFICES ASSUME NEW a \in Proc, NEW b \in Proc, NEW r \in Ranges, a # b, os'[a][r] = 2
             PROVE  os'[b][r] = 0
  BY DEF Compatible
<1>1. \A q \in Proc : os[q][r] \in 0..2
  BY DEF Typed, TypeOK, Ranges
<1>2. CASE a = p
  <2>1. os'[b][r] = os[b][r]
    BY <1>2 DEF Only
  <2>2. os[a][r] = 2 \/ Grantable(p, r, 2)
    BY <1>1, <1>2
  <2> QED
    BY <1>1, <1>2, <2>1, <2>2 DEF Grantable, Others, Compatible
<1>3. CASE a # p
  <2>1. os[a][r] = 2
    BY <1>3 DEF Only
  <2>2. os[b][r] = 0
    BY <2>1 DEF Compatible
  <2>3. CASE b = p
    <3>1. ~Grantable(p, r, os'[p][r])
      BY <1>3, <2>1 DEF Grantable, Others
    <3> QED
      BY <1>1, <2>2, <2>3, <3>1
  <2>4. CASE b # p
    BY <2>2, <2>4 DEF Only
  <2> QED
    BY <2>3, <2>4
<1> QED
  BY <1>2, <1>3

\* A step of process p keeps IInv if it keeps what IInv says of p, and raises what p
\* holds only as far as the operating system grants it.
LEMMA Assemble ==
  ASSUME IInv, NEW p \in Proc, Only(p), Typed',
         Counted(p)', Levelled(p)', OneWriter(p)', Holds(p)', During(p)',
         \A r \in Ranges : os'[p][r] <= os[p][r] \/ Grantable(p, r, os'[p][r])
  PROVE  IInv'
<1>1. Compatible'
  <2>1. \A r \in Ranges : os'[p][r] \in 0..2
    BY DEF Typed, TypeOK, Ranges
  <2> QED
    BY <2>1, CompatibleStep DEF IInv
<1>2. \A q \in Proc \ {p} : Local(q)'
  BY OthersKeep DEF IInv, Typed
<1> QED
  BY <1>1, <1>2 DEF IInv, Local

-----------------------------------------------------------------------------
\* The actions, each with what it changes.
LEMMA LockSharedTooIInv ==
  ASSUME IInv, NEW p \in Proc, NEW s \in Slot, LockSharedToo(p, s)
  PROVE  IInv' /\ Moves(p, s, 1, FALSE)
<1>1. Typed /\ Local(p) /\ Numeric(p) /\ <<p, s>> \in OsFile
  BY Numbers DEF IInv, OsFile
<1>2. /\ locktype[<<p, s>>] = 0 /\ info[p].locktype \in {1, 2} /\ call[p] = Idle
      /\ isOpen[<<p, s>>]
      /\ locktype' = [locktype EXCEPT ![<<p, s>>] = 1]
      /\ info' = [info EXCEPT ![p].cnt = @ + 1, ![p].nLock = @ + 1]
      /\ UNCHANGED <<isOpen, os, call>>
  BY DEF LockSharedToo, Ready
<1>3. Typed'
  <2>1. locktype' \in [OsFile -> 0..4]
    BY <1>1, <1>2 DEF Typed, TypeOK
  <2>2. info' \in [Proc -> [cnt : Nat, locktype : 0..4, nLock : Nat, nPending : Nat]]
    BY <1>1, <1>2 DEF Typed, TypeOK
  <2>3. os' \in [Proc -> [pending : {0, 1, 2}, reserved : {0, 2}, shared : {0, 1, 2}]]
    BY <1>1, <1>2 DEF Typed, TypeOK
  <2> QED
    BY <1>1, <1>2, <2>1, <2>2, <2>3 DEF Typed, TypeOK
<1>4. Only(p)
  BY <1>1, <1>2 DEF Only, Typed, TypeOK, OsFile
<1>5. /\ \A t \in Slot : locktype'[<<p, t>>] = IF t = s THEN 1 ELSE locktype[<<p, t>>]
      /\ info'[p].cnt = info[p].cnt + 1 /\ info'[p].nLock = info[p].nLock + 1
      /\ info'[p].locktype = info[p].locktype /\ info'[p].nPending = info[p].nPending
      /\ call'[p].op = "none" /\ os'[p] = os[p] /\ isOpen' = isOpen
  BY <1>1, <1>2 DEF Typed, TypeOK, OsFile, Idle
<1>6. Counted(p)'
  <2>1. Held(p)' = Held(p) \cup {s} /\ s \notin Held(p)
    BY <1>2, <1>5 DEF Held
  <2>2. Cardinality(Held(p)') = Cardinality(Held(p)) + 1
    BY <2>1, HeldFinite, FS_AddElement
  <2> QED
    BY <1>1, <1>2, <1>5, <2>1, <2>2 DEF Counted, Local, Numeric
<1>7. \A t \in Slot : Lv(p, t)' = IF t = s THEN 1 ELSE Lv(p, t)
  BY <1>2, <1>5, LvIs, LvNext DEF Idle
<1>8. Levelled(p)' /\ OneWriter(p)'
  BY <1>1, <1>2, <1>5, <1>7 DEF Levelled, OneWriter, Local
<1>9. Holds(p)'
  BY <1>1, <1>2, <1>5, <1>7 DEF Holds, Local
<1>10. During(p)'
  BY <1>2, <1>5 DEF During, Idle
<1>11. Moves(p, s, 1, FALSE)
  BY <1>4, <1>5, <1>7 DEF Moves, Rv
<1>12. IInv'
  BY <1>1, <1>3, <1>4, <1>5, <1>6, <1>8, <1>9, <1>10, Assemble DEF Ranges, Numeric
<1> QED
  BY <1>11, <1>12

LEMMA LvKept ==
  ASSUME NEW p, call[p].op # "unlock", call'[p].op # "unlock",
         \A t \in Slot : locktype'[<<p, t>>] = locktype[<<p, t>>]
  PROVE  \A t \in Slot : Lv(p, t)' = Lv(p, t) /\ Lv(p, t) = locktype[<<p, t>>]
BY LvIs, LvNext

LEMMA HeldShared ==
  ASSUME NEW p, Local(p), Numeric(p), NEW s \in Slot, Lv(p, s) > 0
  PROVE  info[p].locktype > 0 /\ os[p].shared >= 1 /\ isOpen[<<p, s>>]
<1>1. Lv(p, s) <= info[p].locktype /\ isOpen[<<p, s>>]
  BY DEF Local, Levelled
<1>2. Lv(p, s) \in 0..4 /\ info[p].locktype \in 0..4 /\ os[p].shared \in 0..2
  BY DEF Numeric
<1>3. info[p].locktype > 0 => os[p].shared # 0
  BY DEF Local, Holds
<1> QED
  BY <1>1, <1>2, <1>3

\* The actions that begin a call, which leave the counts and the levels alone.
LEMMA BeginIInv ==
  ASSUME IInv, NEW p \in Proc, NEW s \in Slot, Ready(p, s),
         UNCHANGED <<isOpen, locktype, info>>,
         NEW c \in Calls, c # Idle, c.slot = s, c.op # "unlock",
         call' = [call EXCEPT ![p] = c],
         os' \in [Proc -> [pending : 0..2, reserved : {0, 2}, shared : 0..2]],
         \A q \in Proc \ {p} : os'[q] = os[q],
         \A r \in Ranges : os'[p][r] <= os[p][r] \/ Grantable(p, r, os'[p][r]),
         os'[p].reserved = os[p].reserved, Holds(p)', During(p)'
  PROVE  IInv' /\ Stays(p)
<1>1. Typed /\ Local(p) /\ call[p] = Idle
  BY DEF IInv, Ready
<1>2. Typed'
  BY <1>1 DEF Typed, TypeOK, Calls, Idle
<1>3. Only(p)
  BY <1>1 DEF Only, Typed
<1>4. \A t \in Slot : Lv(p, t)' = Lv(p, t)
  <2>1. call[p].op = "none" /\ call'[p] = c
    BY <1>1 DEF Idle, Typed
  <2> QED
    BY <2>1, LvKept
<1>5. Counted(p)'
  BY <1>1 DEF Counted, Held, Local
<1>6. Levelled(p)' /\ OneWriter(p)'
  BY <1>1, <1>4 DEF Levelled, OneWriter, Local
<1>7. Stays(p)
  BY <1>3, <1>4 DEF Stays, Rv
<1> QED
  BY <1>7, <1>2, <1>3, <1>5, <1>6, Assemble

LEMMA LockSharedIInv ==
  ASSUME IInv, NEW p \in Proc, NEW s \in Slot, LockShared(p, s)
  PROVE  IInv' /\ Stays(p)
<1>1. Typed /\ Local(p) /\ Numeric(p)
  BY Numbers DEF IInv
<1> DEFINE c == [op |-> "shared", slot |-> s]
<1>2. /\ locktype[<<p, s>>] = 0 /\ info[p].locktype = 0 /\ Ready(p, s)
      /\ Grantable(p, "pending", 1)
      /\ os' = [os EXCEPT ![p].pending = 1]
      /\ call' = [call EXCEPT ![p] = c]
      /\ UNCHANGED <<isOpen, locktype, info>>
  BY DEF LockShared
<1>3. c \in Calls /\ c # Idle /\ c.slot = s /\ c.op = "shared"
  BY DEF Calls, Idle
<1> HIDE DEF c
<1>4. /\ os' \in [Proc -> [pending : 0..2, reserved : {0, 2}, shared : 0..2]]
      /\ \A q \in Proc \ {p} : os'[q] = os[q]
      /\ os'[p].pending = 1 /\ os'[p].reserved = os[p].reserved /\ os'[p].shared = os[p].shared
      /\ call'[p] = c
  BY <1>1, <1>2 DEF Typed, TypeOK
<1>5. \A t \in Slot : Lv(p, t)' = 0
  <2>1. call[p].op = "none"
    BY <1>2 DEF Ready, Idle
  <2>2. ASSUME NEW t \in Slot PROVE Lv(p, t) = 0
    <3>1. Lv(p, t) \in 0..4
      BY <1>1 DEF Numeric
    <3>2. Lv(p, t) > 0 => info[p].locktype > 0
      BY <1>1, HeldShared
    <3> QED
      BY <1>2, <3>1, <3>2
  <2>3. call'[p].op # "unlock" /\ \A t \in Slot : locktype'[<<p, t>>] = locktype[<<p, t>>]
    BY <1>2, <1>3, <1>4
  <2> QED
    BY <2>1, <2>2, <2>3, LvKept
<1>6. Holds(p)'
  BY <1>1, <1>2, <1>4, <1>5 DEF Holds, Local
<1>7. During(p)'
  BY <1>2, <1>3, <1>4 DEF During, Ready
<1>8. \A r \in Ranges : os'[p][r] <= os[p][r] \/ Grantable(p, r, os'[p][r])
  BY <1>1, <1>2, <1>4 DEF Ranges, Numeric
<1> QED
  BY <1>2, <1>3, <1>4, <1>6, <1>7, <1>8, BeginIInv

LEMMA LockExclusiveIInv ==
  ASSUME IInv, NEW p \in Proc, NEW s \in Slot, LockExclusive(p, s) \/ Retry(p, s)
  PROVE  IInv' /\ Stays(p)
<1>1. Typed /\ Local(p) /\ Numeric(p)
  BY Numbers DEF IInv
<1> DEFINE c == [op |-> "exclusive", slot |-> s]
<1>2. /\ Ready(p, s) /\ locktype[<<p, s>>] \in 1..3
      /\ locktype[<<p, s>>] = info[p].locktype
      /\ \/ os' = [os EXCEPT ![p].pending = 2] /\ Grantable(p, "pending", 2)
         \/ os' = os /\ locktype[<<p, s>>] = 3
      /\ call' = [call EXCEPT ![p] = c]
      /\ UNCHANGED <<isOpen, locktype, info>>
  BY DEF LockExclusive, Retry, Precluded
<1>3. c \in Calls /\ c # Idle /\ c.slot = s /\ c.op = "exclusive"
  BY DEF Calls, Idle
<1> HIDE DEF c
<1>4. /\ os' \in [Proc -> [pending : 0..2, reserved : {0, 2}, shared : 0..2]]
      /\ \A q \in Proc \ {p} : os'[q] = os[q]
      /\ os'[p].reserved = os[p].reserved /\ os'[p].shared = os[p].shared
      /\ call'[p] = c
  BY <1>1, <1>2 DEF Typed, TypeOK
<1>5. \A t \in Slot : Lv(p, t)' = Lv(p, t) /\ Lv(p, t) = locktype[<<p, t>>]
  <2>1. call[p].op = "none"
    BY <1>2 DEF Ready, Idle
  <2> QED
    BY <1>2, <1>3, <1>4, <2>1, LvKept
<1>6. os'[p].pending = 2
  <2>1. os' = os /\ locktype[<<p, s>>] = 3 => os'[p].pending = 2
    <3>1. locktype[<<p, s>>] = 3 => Lv(p, s) = 3
      BY <1>5
    <3>2. Lv(p, s) >= 3 => os[p].pending = 2
      BY <1>1 DEF Local, Holds
    <3> QED
      BY <3>1, <3>2
  <2>2. os' = [os EXCEPT ![p].pending = 2] => os'[p].pending = 2
    BY <1>1 DEF Typed, TypeOK
  <2> QED
    BY <1>2, <2>1, <2>2
<1>7. Holds(p)'
  <2>1. Holds(p) /\ call[p].op = "none"
    BY <1>1, <1>2 DEF Local, Ready, Idle
  <2> QED
    BY <1>2, <1>4, <1>5, <1>6, <2>1 DEF Holds
<1>8. During(p)'
  BY <1>2, <1>3, <1>4, <1>6 DEF During, Ready
<1>9. \A r \in Ranges : os'[p][r] <= os[p][r] \/ Grantable(p, r, os'[p][r])
  BY <1>1, <1>2, <1>4, <1>6 DEF Ranges, Numeric
<1> QED
  BY <1>2, <1>3, <1>4, <1>7, <1>8, <1>9, BeginIInv

LEMMA UnlockToSharedIInv ==
  ASSUME IInv, NEW p \in Proc, NEW s \in Slot, UnlockToShared(p, s)
  PROVE  IInv' /\ Stays(p)
<1>1. Typed /\ Local(p) /\ Numeric(p)
  BY Numbers DEF IInv
<1> DEFINE c == [op |-> "lower", slot |-> s]
<1>2. /\ Ready(p, s) /\ locktype[<<p, s>>] > 1
      /\ os' = [os EXCEPT ![p].shared = 1]
      /\ call' = [call EXCEPT ![p] = c]
      /\ UNCHANGED <<isOpen, locktype, info>>
  BY DEF UnlockToShared
<1>3. c \in Calls /\ c # Idle /\ c.slot = s /\ c.op = "lower"
  BY DEF Calls, Idle
<1> HIDE DEF c
<1>4. /\ os' \in [Proc -> [pending : 0..2, reserved : {0, 2}, shared : 0..2]]
      /\ \A q \in Proc \ {p} : os'[q] = os[q]
      /\ os'[p].pending = os[p].pending /\ os'[p].reserved = os[p].reserved /\ os'[p].shared = 1
      /\ call'[p] = c
  BY <1>1, <1>2 DEF Typed, TypeOK
<1>5. \A t \in Slot : Lv(p, t)' = Lv(p, t) /\ Lv(p, t) = locktype[<<p, t>>]
  <2>1. call[p].op = "none"
    BY <1>2 DEF Ready, Idle
  <2> QED
    BY <1>2, <1>3, <1>4, <2>1, LvKept
<1>6. Holds(p)'
  <2>1. Holds(p)
    BY <1>1 DEF Local
  <2>2. /\ info' = info /\ call'[p].op = "lower"
        /\ os'[p].pending = os[p].pending /\ os'[p].reserved = os[p].reserved /\ os'[p].shared = 1
    BY <1>2, <1>3, <1>4
  <2>3. \A t \in Slot : /\ Lv(p, t)' = 2 => os'[p].reserved = 2
                        /\ Lv(p, t)' >= 3 => os'[p].pending = 2
    BY <1>5, <2>1, <2>2 DEF Holds
  <2>4. os'[p].reserved = 2 => info'[p].locktype > 1
    BY <2>1, <2>2 DEF Holds
  <2> QED
    BY <2>2, <2>3, <2>4 DEF Holds
<1>7. During(p)'
  BY <1>2, <1>3, <1>4 DEF During, Ready
<1>8. os[p].shared >= 1
  <2>1. Lv(p, s) > 0
    BY <1>1, <1>2 DEF Numeric
  <2> QED
    BY <1>1, <2>1, HeldShared
<1>9. \A r \in Ranges : os'[p][r] <= os[p][r] \/ Grantable(p, r, os'[p][r])
  BY <1>1, <1>4, <1>8 DEF Ranges, Numeric
<1> QED
  BY <1>2, <1>3, <1>4, <1>6, <1>7, <1>9, BeginIInv

LEMMA LockReservedIInv ==
  ASSUME IInv, NEW p \in Proc, NEW s \in Slot, LockReserved(p, s)
  PROVE  IInv' /\ Moves(p, s, 2, TRUE)
<1>1. Typed /\ Local(p) /\ Numeric(p) /\ <<p, s>> \in OsFile
  BY Numbers DEF IInv, OsFile
<1>2. /\ locktype[<<p, s>>] = 1 /\ info[p].locktype = 1 /\ call[p] = Idle
      /\ isOpen[<<p, s>>] /\ Grantable(p, "reserved", 2)
      /\ os' = [os EXCEPT ![p].reserved = 2]
      /\ locktype' = [locktype EXCEPT ![<<p, s>>] = 2]
      /\ info' = [info EXCEPT ![p].locktype = 2]
      /\ UNCHANGED <<isOpen, call>>
  BY DEF LockReserved, Ready, Precluded
<1>3. Typed'
  <2>1. locktype' \in [OsFile -> 0..4]
    BY <1>1, <1>2 DEF Typed, TypeOK
  <2>2. info' \in [Proc -> [cnt : Nat, locktype : 0..4, nLock : Nat, nPending : Nat]]
    BY <1>1, <1>2 DEF Typed, TypeOK
  <2>3. os' \in [Proc -> [pending : {0, 1, 2}, reserved : {0, 2}, shared : {0, 1, 2}]]
    BY <1>1, <1>2 DEF Typed, TypeOK
  <2> QED
    BY <1>1, <1>2, <2>1, <2>2, <2>3 DEF Typed, TypeOK
<1>4. Only(p)
  BY <1>1, <1>2 DEF Only, Typed, TypeOK, OsFile
<1>5. /\ \A t \in Slot : locktype'[<<p, t>>] = IF t = s THEN 2 ELSE locktype[<<p, t>>]
      /\ info'[p].cnt = info[p].cnt /\ info'[p].nLock = info[p].nLock
      /\ info'[p].locktype = 2 /\ info'[p].nPending = info[p].nPending
      /\ os'[p].pending = os[p].pending /\ os'[p].reserved = 2 /\ os'[p].shared = os[p].shared
      /\ call'[p].op = "none" /\ call'[p] = Idle /\ isOpen' = isOpen
  BY <1>1, <1>2 DEF Typed, TypeOK, OsFile, Idle
<1>6. Counted(p)'
  <2>1. Held(p)' = Held(p) /\ s \in Held(p)
    BY <1>1, <1>2, <1>5 DEF Held
  <2> QED
    BY <1>1, <1>2, <1>5, <2>1 DEF Counted, Local
<1>7. \A t \in Slot : Lv(p, t)' = IF t = s THEN 2 ELSE Lv(p, t)
  BY <1>2, <1>5, LvIs, LvNext DEF Idle
<1>8. Levelled(p)' /\ OneWriter(p)'
  <2>1. ASSUME NEW t \in Slot PROVE Lv(p, t) \in 0..1 /\ (Lv(p, t) > 0 => isOpen[<<p, t>>])
    <3>1. Lv(p, t) \in 0..4
      BY <1>1 DEF Numeric
    <3>2. Lv(p, t) <= 1 /\ (Lv(p, t) > 0 => isOpen[<<p, t>>])
      BY <1>1, <1>2 DEF Local, Levelled
    <3> QED
      BY <3>1, <3>2
  <2>2. \A t \in Slot : Lv(p, t)' \in 0..2 /\ (Lv(p, t)' > 0 => isOpen[<<p, t>>])
    BY <1>2, <1>7, <2>1
  <2>3. ASSUME NEW t \in Slot, t # s PROVE ~(Lv(p, t)' > 1)
    <3>1. Lv(p, t)' = Lv(p, t) /\ Lv(p, t) \in 0..1
      BY <1>7, <2>1, <2>3
    <3> QED
      BY <3>1
  <2>4. Levelled(p)'
    BY <1>5, <2>2 DEF Levelled
  <2> QED
    BY <2>3, <2>4 DEF OneWriter
<1>9. Holds(p)'
  BY <1>1, <1>2, <1>5, <1>7 DEF Holds, Levelled, Local, Numeric
<1>10. During(p)'
  BY <1>2, <1>5 DEF During, Idle
<1>11. Moves(p, s, 2, TRUE)
  <2>1. ASSUME NEW t \in Slot PROVE Rv(p, t)' <=> IF t = s THEN TRUE ELSE Rv(p, t)
    <3>1. CASE t = s
      BY <1>5, <1>7, <3>1 DEF Rv
    <3>2. CASE t # s
      <4>1. Lv(p, t)' = Lv(p, t) /\ Lv(p, t) \in 0..4 /\ Lv(p, t) <= 1
        BY <1>1, <1>2, <1>7, <3>2 DEF Local, Levelled, Numeric
      <4> QED
        BY <3>2, <4>1 DEF Rv
    <3> QED
      BY <3>1, <3>2
  <2> QED
    BY <1>4, <1>7, <2>1 DEF Moves
<1>12. IInv'
  BY <1>1, <1>2, <1>3, <1>4, <1>5, <1>6, <1>8, <1>9, <1>10, Assemble DEF Ranges, Numeric
<1> QED
  BY <1>11, <1>12

\* The end of a call: the process is idle again.
LEMMA IdleAgain ==
  ASSUME NEW p, call'[p] = Idle
  PROVE  During(p)' /\ \A t \in Slot : Lv(p, t)' = locktype'[<<p, t>>]
<1>1. call'[p].op = "none"
  BY DEF Idle
<1> QED
  BY <1>1, LvNext DEF During

\* A process that has lost all locks on the file.
LEMMA ClosedIInv ==
  ASSUME IInv, NEW p \in Proc, Typed', Only(p), Held(p)' = {}, info'[p].cnt = 0, info'[p].nLock = 0, info'[p].nPending = 0,
         info'[p].locktype = 0, call'[p].op # "unlock", During(p)', os'[p] = Nothing
  PROVE  IInv'
<1>1. Numeric(p)
  BY Numbers DEF IInv
<1>2. \A t \in Slot : Lv(p, t)' = 0
  <2>1. \A t \in Slot : locktype'[<<p, t>>] \in 0..4 /\ ~(locktype'[<<p, t>>] > 0)
    BY DEF Held, Typed, TypeOK, OsFile
  <2>2. \A t \in Slot : locktype'[<<p, t>>] = 0
    BY <2>1
  <2> QED
    BY <2>2, LvNext
<1>3. Counted(p)'
  BY FS_EmptySet DEF Counted
<1>4. Levelled(p)' /\ OneWriter(p)'
  BY <1>2 DEF Levelled, OneWriter
<1>5. Holds(p)'
  BY <1>2 DEF Holds, Nothing
<1>7. \A r \in Ranges : os'[p][r] <= os[p][r]
  BY <1>1 DEF Ranges, Numeric, Nothing
<1> QED
  BY <1>3, <1>4, <1>5, <1>7, Assemble

LEMMA ExitIInv ==
  ASSUME IInv, NEW p \in Proc, Exit(p)
  PROVE  IInv' /\ Only(p) /\ \A t \in Slot : Lv(p, t)' = 0
<1>1. Typed
  BY DEF IInv
<1>2. /\ info' = [info EXCEPT ![p] = Unlocked]
      /\ os' = [os EXCEPT ![p] = Nothing]
      /\ call' = [call EXCEPT ![p] = Idle]
  BY DEF Exit
<1>3. \A f \in OsFile : /\ isOpen'[f] = (f[1] # p /\ isOpen[f])
                        /\ locktype'[f] = IF f[1] = p THEN 0 ELSE locktype[f]
  BY DEF Exit
<1>4. Typed'
  <2>1. isOpen' \in [OsFile -> BOOLEAN] /\ locktype' \in [OsFile -> 0..4]
    BY <1>1 DEF Exit, Typed, TypeOK
  <2>2. /\ Unlocked \in [cnt : Nat, locktype : 0..4, nLock : Nat, nPending : Nat]
        /\ Nothing \in [pending : {0, 1, 2}, reserved : {0, 2}, shared : {0, 1, 2}]
        /\ Idle \in Calls
    BY DEF Unlocked, Nothing, Calls
  <2> QED
    BY <1>1, <1>2, <2>1, <2>2, CallTypes DEF Typed, TypeOK
<1>5. Only(p)
  <2>1. \A q \in Proc \ {p} : \A t \in Slot :
          locktype'[<<q, t>>] = locktype[<<q, t>>] /\ isOpen'[<<q, t>>] = isOpen[<<q, t>>]
    BY <1>1, <1>3 DEF OsFile, Typed, TypeOK
  <2> QED
    BY <1>1, <1>2, <2>1 DEF Only, Typed, TypeOK
<1>6. Held(p)' = {}
  BY <1>3 DEF Held, OsFile
<1>7. info'[p] = Unlocked /\ os'[p] = Nothing /\ call'[p] = Idle
  BY <1>1, <1>2 DEF Typed, TypeOK
<1>8. call'[p].op # "unlock" /\ During(p)'
  BY <1>7, IdleAgain DEF Idle
<1>9. \A t \in Slot : Lv(p, t)' = 0
  <2>1. \A t \in Slot : locktype'[<<p, t>>] = 0
    BY <1>3 DEF OsFile
  <2> QED
    BY <1>7, <2>1, IdleAgain
<1> QED
  BY <1>9, <1>4, <1>5, <1>6, <1>7, <1>8, ClosedIInv DEF Unlocked

LEMMA OpenFailsIInv ==
  ASSUME IInv, NEW p \in Proc, NEW s \in Slot, OpenFails(p, s)
  PROVE  IInv' /\ Stays(p)
<1>1. Typed /\ Local(p) /\ Numeric(p)
  BY Numbers DEF IInv
<1>2. /\ call[p] = Idle /\ \A t \in Slot : ~isOpen[<<p, t>>]
      /\ os' = [os EXCEPT ![p] = Nothing]
      /\ UNCHANGED <<isOpen, locktype, info, call>>
  BY DEF OpenFails
<1>3. Typed'
  BY <1>1, <1>2 DEF Typed, TypeOK, Nothing
<1>4. Only(p) /\ os'[p] = Nothing
  BY <1>1, <1>2 DEF Only, Typed, TypeOK
<1>5. Held(p) = {}
  BY <1>1, <1>2, HeldShared DEF Held, Numeric
<1>6. /\ info[p].cnt = 0 /\ info[p].nLock = 0 /\ info[p].locktype = 0
      /\ ~(info[p].nPending > 0)
  BY <1>1, <1>5, FS_EmptySet DEF Local, Counted
<1>7. info[p].nPending = 0
  BY <1>1, <1>6 DEF Numeric
<1>8. Held(p)' = {}
  BY <1>2, <1>5 DEF Held
<1>9. call'[p].op # "unlock" /\ During(p)'
  BY <1>2, IdleAgain DEF Idle
<1>10. Stays(p)
  <2>1. \A t \in Slot : Lv(p, t)' = Lv(p, t)
    <3>1. call[p].op = "none" /\ call'[p].op = "none"
      BY <1>2 DEF Idle
    <3> QED
      BY <1>2, <3>1, LvKept
  <2>2. ASSUME NEW t \in Slot PROVE ~(Lv(p, t) >= 2)
    <3>1. Lv(p, t) \in 0..4 /\ ~(Lv(p, t) > 0)
      BY <1>1, <1>5 DEF Numeric, Held
    <3> QED
      BY <3>1
  <2> QED
    BY <1>4, <2>1, <2>2 DEF Stays, Rv
<1> QED
  BY <1>10, <1>2, <1>3, <1>4, <1>6, <1>7, <1>8, <1>9, ClosedIInv

LEMMA OpenIInv ==
  ASSUME IInv, NEW p \in Proc, NEW s \in Slot, Open(p, s)
  PROVE  IInv' /\ Stays(p)
<1>1. Typed /\ Local(p) /\ Numeric(p) /\ <<p, s>> \in OsFile
  BY Numbers DEF IInv, OsFile
<1>2. /\ call[p] = Idle /\ isOpen' = [isOpen EXCEPT ![<<p, s>>] = TRUE]
      /\ UNCHANGED <<locktype, info, os, call>>
  BY DEF Open
<1>3. Typed'
  BY <1>1, <1>2 DEF Typed, TypeOK
<1>4. Only(p)
  BY <1>1, <1>2 DEF Only, Typed, TypeOK, OsFile
<1>5. \A t \in Slot : isOpen[<<p, t>>] => isOpen'[<<p, t>>]
  BY <1>1, <1>2 DEF Typed, TypeOK, OsFile
<1>6. Counted(p)'
  BY <1>1, <1>2 DEF Local, Counted, Held
<1>7. \A t \in Slot : Lv(p, t)' = Lv(p, t)
  <2>1. call[p].op = "none" /\ call'[p].op = "none"
    BY <1>2 DEF Idle
  <2> QED
    BY <1>2, <2>1, LvKept
<1>8. Levelled(p)' /\ OneWriter(p)'
  BY <1>1, <1>2, <1>5, <1>7 DEF Local, Levelled, OneWriter
<1>9. Holds(p)'
  BY <1>1, <1>2, <1>7 DEF Local, Holds
<1>10. During(p)'
  BY <1>2 DEF During, Idle
<1>11. \A r \in Ranges : os'[p][r] <= os[p][r]
  BY <1>1, <1>2 DEF Ranges, Numeric
<1>12. Stays(p)
  BY <1>2, <1>4, <1>7 DEF Stays, Rv
<1> QED
  BY <1>12, <1>3, <1>4, <1>6, <1>8, <1>9, <1>10, <1>11, Assemble

LEMMA ReadLockIInv ==
  ASSUME IInv, NEW p \in Proc, ReadLock(p)
  PROVE  IInv' /\ Stays(p)
<1>1. Typed /\ Local(p) /\ Numeric(p)
  BY Numbers DEF IInv
<1> DEFINE ok == Grantable(p, "shared", 1)
           c == [op |-> "drop", slot |-> call[p].slot, ok |-> ok]
<1>2. /\ call[p].op = "shared"
      /\ os' = IF ok THEN [os EXCEPT ![p].shared = 1] ELSE os
      /\ call' = [call EXCEPT ![p] = c]
      /\ UNCHANGED <<isOpen, locktype, info>>
  BY <1>1 DEF ReadLock, Typed
<1>3. call[p].slot \in Slot /\ call[p] # Idle
  BY <1>1, <1>2, CallTypes DEF Numeric
<1>4. c \in Calls /\ c # Idle /\ c.slot = call[p].slot /\ c.op = "drop" /\ c.ok = ok
  <2>1. ok \in BOOLEAN
    BY DEF Grantable
  <2> HIDE DEF ok
  <2> QED
    BY <1>3, <2>1 DEF Calls, Idle
<1> HIDE DEF c
<1>5. /\ os'[p].pending = os[p].pending /\ os'[p].reserved = os[p].reserved
      /\ os'[p].shared = IF ok THEN 1 ELSE os[p].shared
      /\ call'[p] = c
  <2> HIDE DEF ok
  <2> QED
    BY <1>1, <1>2 DEF Typed, TypeOK
<1>6. Typed' /\ Only(p)
  <2> HIDE DEF ok
  <2>1. os' \in [Proc -> [pending : {0, 1, 2}, reserved : {0, 2}, shared : {0, 1, 2}]]
    BY <1>1, <1>2 DEF Typed, TypeOK
  <2>2. call' \in [Proc -> Calls]
    BY <1>1, <1>2, <1>4 DEF Typed
  <2>3. \A q \in Proc : call'[q].op \in {"none", "shared", "drop", "exclusive", "lower", "unlock", "close"}
    BY <2>2, CallTypes
  <2> QED
    BY <1>1, <1>2, <2>1, <2>2, <2>3 DEF Typed, TypeOK, Only
<1>7. Counted(p)'
  BY <1>1, <1>2 DEF Local, Counted, Held
<1>8. \A t \in Slot : Lv(p, t)' = Lv(p, t)
  BY <1>2, <1>4, <1>5, LvKept
<1>9. Levelled(p)' /\ OneWriter(p)'
  BY <1>1, <1>2, <1>8 DEF Local, Levelled, OneWriter
<1>10. info[p].locktype = 0 /\ os[p].pending = 1
  BY <1>1, <1>2 DEF Local, During
<1>11. \A t \in Slot : Lv(p, t) = 0
  <2> SUFFICES ASSUME NEW t \in Slot PROVE Lv(p, t) = 0
    OBVIOUS
  <2>1. Lv(p, t) \in 0..4
    BY <1>1 DEF Numeric
  <2>2. Lv(p, t) > 0 => info[p].locktype > 0
    BY <1>1, HeldShared
  <2> QED
    BY <1>10, <2>1, <2>2
<1>12. Holds(p)'
  <2>1. Holds(p)
    BY <1>1 DEF Local
  <2> HIDE DEF ok
  <2> QED
    BY <1>2, <1>5, <1>8, <1>10, <1>11, <2>1 DEF Holds
<1>13. During(p)'
  <2>1. isOpen[<<p, call[p].slot>>]
    BY <1>1, <1>3 DEF Local, During
  <2> HIDE DEF ok
  <2> QED
    BY <1>2, <1>4, <1>5, <1>10, <2>1 DEF During
<1>14. \A r \in Ranges : os'[p][r] <= os[p][r] \/ Grantable(p, r, os'[p][r])
  BY <1>1, <1>5 DEF Ranges, Numeric
<1>15. Stays(p)
  BY <1>5, <1>6, <1>8 DEF Stays, Rv
<1> QED
  BY <1>15, <1>6, <1>7, <1>9, <1>12, <1>13, <1>14, Assemble

LEMMA DropPendingIInv ==
  ASSUME IInv, NEW p \in Proc, DropPending(p)
  PROVE  IInv' /\ (Moves(p, call[p].slot, 1, FALSE) \/ Stays(p))
<1>1. Typed /\ Local(p) /\ Numeric(p)
  BY Numbers DEF IInv
<1>2. /\ call[p].op = "drop"
      /\ os' = [os EXCEPT ![p].pending = 0]
      /\ call' = [call EXCEPT ![p] = Idle] /\ isOpen' = isOpen
  BY DEF DropPending
<1> DEFINE s == call[p].slot
<1>3. s \in Slot /\ call[p] # Idle /\ <<p, s>> \in OsFile
  BY <1>1, <1>2, CallTypes DEF Numeric, OsFile
<1>4. /\ info[p].locktype = 0 /\ (call[p].ok => os[p].shared # 0) /\ isOpen[<<p, s>>]
  BY <1>1, <1>2, <1>3 DEF Local, During
<1>5. Held(p) = {} /\ info[p].cnt = 0 /\ info[p].nLock = 0 /\ ~(info[p].nPending > 0)
  BY <1>1, <1>4, FS_EmptySet DEF Local, Counted
<1>6. \A t \in Slot : locktype[<<p, t>>] = 0
  <2> SUFFICES ASSUME NEW t \in Slot PROVE locktype[<<p, t>>] = 0
    OBVIOUS
  <2>1. locktype[<<p, t>>] \in 0..4 /\ ~(locktype[<<p, t>>] > 0)
    BY <1>1, <1>5 DEF Numeric, Held
  <2> QED
    BY <2>1
<1>7. /\ os'[p].pending = 0 /\ os'[p].reserved = os[p].reserved /\ os'[p].shared = os[p].shared
      /\ call'[p] = Idle
  BY <1>1, <1>2 DEF Typed, TypeOK
<1>8. \A r \in Ranges : os'[p][r] <= os[p][r] \/ Grantable(p, r, os'[p][r])
  BY <1>1, <1>7 DEF Ranges, Numeric
<1>9. os' \in [Proc -> [pending : {0, 1, 2}, reserved : {0, 2}, shared : {0, 1, 2}]]
  BY <1>1, <1>2 DEF Typed, TypeOK
<1>10. CASE call[p].ok
  <2>1. /\ locktype' = [locktype EXCEPT ![<<p, s>>] = 1]
        /\ info' = [info EXCEPT ![p].cnt = 1, ![p].nLock = @ + 1, ![p].locktype = 1]
    BY <1>10 DEF DropPending
  <2>2. Typed'
    <3>1. locktype' \in [OsFile -> 0..4]
      BY <1>1, <2>1 DEF Typed, TypeOK
    <3>2. info' \in [Proc -> [cnt : Nat, locktype : 0..4, nLock : Nat, nPending : Nat]]
      BY <1>1, <2>1 DEF Typed, TypeOK
    <3> QED
      BY <1>1, <1>2, <1>9, <3>1, <3>2, CallTypes DEF Typed, TypeOK, Calls, Idle
  <2>3. Only(p)
    BY <1>1, <1>2, <1>3, <2>1 DEF Only, Typed, TypeOK, OsFile
  <2>4. /\ \A t \in Slot : locktype'[<<p, t>>] = IF t = s THEN 1 ELSE 0
        /\ info'[p].cnt = 1 /\ info'[p].nLock = 1 /\ info'[p].locktype = 1
        /\ info'[p].nPending = info[p].nPending
    <3>1. \A t \in Slot : locktype'[<<p, t>>] = IF t = s THEN 1 ELSE locktype[<<p, t>>]
      BY <1>1, <1>3, <2>1 DEF Typed, TypeOK, OsFile
    <3>2. /\ info'[p].cnt = 1 /\ info'[p].nLock = info[p].nLock + 1 /\ info'[p].locktype = 1
          /\ info'[p].nPending = info[p].nPending
      BY <1>1, <2>1 DEF Typed, TypeOK
    <3> QED
      BY <1>5, <1>6, <3>1, <3>2
  <2>5. Counted(p)'
    <3>1. Held(p)' = {s}
      BY <1>3, <2>4 DEF Held
    <3>2. Cardinality(Held(p)') = 1
      BY <3>1, FS_Singleton
    <3> QED
      BY <1>5, <2>4, <3>1, <3>2 DEF Counted
  <2>6. \A t \in Slot : Lv(p, t)' = IF t = s THEN 1 ELSE 0
    BY <1>7, <2>4, IdleAgain
  <2>7. Levelled(p)' /\ OneWriter(p)'
    BY <1>2, <1>4, <2>4, <2>6 DEF Levelled, OneWriter
  <2>8. Holds(p)'
    <3>1. Holds(p)
      BY <1>1 DEF Local
    <3> QED
      BY <1>4, <1>7, <1>10, <2>4, <2>6, <3>1 DEF Holds
  <2>9. Moves(p, s, 1, FALSE)
    <3>1. \A t \in Slot : Lv(p, t) = 0
      BY <1>2, <1>6, LvIs
    <3> HIDE DEF s
    <3> QED
      BY <1>7, <2>3, <2>6, <3>1 DEF Moves, Rv
  <2> QED
    BY <1>7, <1>8, <2>2, <2>3, <2>5, <2>7, <2>8, <2>9, IdleAgain, Assemble
<1>11. CASE ~call[p].ok
  <2>1. locktype' = locktype /\ info' = info
    BY <1>11 DEF DropPending
  <2>2. Typed'
    BY <1>1, <1>2, <1>9, <2>1 DEF Typed, TypeOK, Calls, Idle
  <2>3. Only(p)
    BY <1>1, <1>2, <2>1 DEF Only, Typed, TypeOK
  <2>4. Counted(p)'
    BY <1>1, <2>1 DEF Local, Counted, Held
  <2>5. \A t \in Slot : Lv(p, t)' = 0
    BY <1>6, <1>7, <2>1, IdleAgain
  <2>6. Levelled(p)' /\ OneWriter(p)'
    BY <1>4, <2>1, <2>5 DEF Levelled, OneWriter
  <2>7. Holds(p)'
    <3>1. Holds(p)
      BY <1>1 DEF Local
    <3> QED
      BY <1>4, <1>7, <2>1, <2>5, <3>1 DEF Holds
  <2>8. Stays(p)
    BY <1>2, <1>6, <1>7, <2>3, <2>5, LvIs DEF Stays, Rv
  <2> QED
    BY <1>7, <1>8, <2>2, <2>3, <2>4, <2>6, <2>7, <2>8, IdleAgain, Assemble
<1> QED
  BY <1>10, <1>11

\* A level that changes, of a handle that keeps a lock, leaves the counts right.
LEMMA CountedAgain ==
  ASSUME NEW p, Counted(p), Held(p)' = Held(p),
         info'[p].cnt = info[p].cnt, info'[p].nLock = info[p].nLock,
         info'[p].nPending = info[p].nPending,
         info'[p].locktype > 0, info[p].locktype # 0, info'[p].locktype # 0
  PROVE  Counted(p)'
BY DEF Counted

LEMMA ExclusiveOrPendingIInv ==
  ASSUME IInv, NEW p \in Proc, ExclusiveOrPending(p)
  PROVE  /\ IInv'
         /\ \E level \in {3, 4} :
              /\ Moves(p, call[p].slot, level, Rv(p, call[p].slot))
              /\ level = 4 => info[p].cnt <= 1 /\ Grantable(p, "shared", 2)
<1>1. Typed /\ Local(p) /\ Numeric(p)
  BY Numbers DEF IInv
<1> DEFINE s == call[p].slot
           ok == info[p].cnt <= 1 /\ Grantable(p, "shared", 2)
           level == IF ok THEN 4 ELSE 3
<1>2. /\ call[p].op = "exclusive"
      /\ os' = IF ok THEN [os EXCEPT ![p].shared = 2] ELSE os
      /\ locktype' = [locktype EXCEPT ![<<p, s>>] = level]
      /\ info' = [info EXCEPT ![p].locktype = level]
      /\ call' = [call EXCEPT ![p] = Idle] /\ isOpen' = isOpen
  BY DEF ExclusiveOrPending
<1>3. s \in Slot /\ call[p] # Idle /\ <<p, s>> \in OsFile
  BY <1>1, <1>2, CallTypes DEF Numeric, OsFile
<1>4. /\ locktype[<<p, s>>] = info[p].locktype /\ info[p].locktype \in 1..3
      /\ os[p].pending = 2 /\ isOpen[<<p, s>>]
  BY <1>1, <1>2, <1>3 DEF Local, During
<1>5. level \in 3..4 /\ (level = 4 => ok)
  OBVIOUS
<1> HIDE DEF level, ok
<1>6. /\ os'[p].pending = os[p].pending /\ os'[p].reserved = os[p].reserved
      /\ os'[p].shared = IF ok THEN 2 ELSE os[p].shared
      /\ os' \in [Proc -> [pending : {0, 1, 2}, reserved : {0, 2}, shared : {0, 1, 2}]]
  BY <1>1, <1>2 DEF Typed, TypeOK
<1>7. call'[p] = Idle /\ call' \in [Proc -> Calls]
  BY <1>1, <1>2 DEF Typed, TypeOK, Calls
<1>8. /\ \A t \in Slot : locktype'[<<p, t>>] = IF t = s THEN level ELSE locktype[<<p, t>>]
      /\ info'[p].cnt = info[p].cnt /\ info'[p].nLock = info[p].nLock
      /\ info'[p].nPending = info[p].nPending /\ info'[p].locktype = level
  BY <1>1, <1>2, <1>3 DEF Typed, TypeOK, OsFile
<1>9. Typed'
  <2>0. level \in 0..4
    BY <1>5
  <2>1. locktype' \in [OsFile -> 0..4]
    BY <1>1, <1>2, <2>0 DEF Typed, TypeOK
  <2>2. info' \in [Proc -> [cnt : Nat, locktype : 0..4, nLock : Nat, nPending : Nat]]
    BY <1>1, <1>2, <2>0 DEF Typed, TypeOK
  <2>3. \A q \in Proc : call'[q].op \in {"none", "shared", "drop", "exclusive", "lower", "unlock", "close"}
    BY <1>7, CallTypes
  <2> QED
    BY <1>1, <1>2, <1>6, <1>7, <2>1, <2>2, <2>3 DEF Typed, TypeOK
<1>10. Only(p)
  BY <1>1, <1>2, <1>3 DEF Only, Typed, TypeOK, OsFile
<1>11. Counted(p)'
  <2>1. Held(p)' = Held(p)
    BY <1>1, <1>3, <1>4, <1>5, <1>8 DEF Held
  <2> QED
    BY <1>1, <1>4, <1>5, <1>8, <2>1, CountedAgain DEF Local
<1>12. \A t \in Slot : Lv(p, t)' = IF t = s THEN level ELSE Lv(p, t)
  <2>1. \A t \in Slot : Lv(p, t) = locktype[<<p, t>>]
    BY <1>2, LvIs
  <2> QED
    BY <1>7, <1>8, <2>1, IdleAgain
<1>13. \A t \in Slot \ {s} : Lv(p, t) \in 0..1 /\ (Lv(p, t) > 0 => isOpen[<<p, t>>])
  <2> SUFFICES ASSUME NEW t \in Slot \ {s}
               PROVE  Lv(p, t) \in 0..1 /\ (Lv(p, t) > 0 => isOpen[<<p, t>>])
    OBVIOUS
  <2>1. Lv(p, t) \in 0..4 /\ info[p].locktype \in 0..4
    BY <1>1 DEF Numeric
  <2>2. Lv(p, t) <= info[p].locktype /\ (Lv(p, t) > 0 => isOpen[<<p, t>>])
    BY <1>1 DEF Local, Levelled
  <2>3. Lv(p, s) = info[p].locktype
    BY <1>2, <1>4, LvIs
  <2>4. ~(Lv(p, s) > 1 /\ Lv(p, t) > 1)
    BY <1>1, <1>3 DEF Local, OneWriter
  <2> QED
    BY <2>1, <2>2, <2>3, <2>4
<1>14. Levelled(p)' /\ OneWriter(p)'
  <2>1. \A t \in Slot : Lv(p, t)' <= level /\ (Lv(p, t)' > 0 => isOpen[<<p, t>>])
    BY <1>4, <1>5, <1>12, <1>13
  <2>2. ASSUME NEW t \in Slot \ {s} PROVE ~(Lv(p, t)' > 1)
    <3>1. Lv(p, t)' = Lv(p, t) /\ Lv(p, t) \in 0..1
      BY <1>12, <1>13
    <3> QED
      BY <3>1
  <2>3. Levelled(p)'
    BY <1>2, <1>8, <2>1 DEF Levelled
  <2> QED
    BY <2>2, <2>3 DEF OneWriter
<1>15. Holds(p)'
  <2>1. Holds(p)
    BY <1>1 DEF Local
  <2>2. ASSUME NEW t \in Slot PROVE Lv(p, t)' # 2 /\ (Lv(p, t)' = 4 => ok)
    <3>1. CASE t = s
      BY <1>5, <1>12, <3>1
    <3>2. CASE t # s
      <4>1. Lv(p, t)' = Lv(p, t) /\ Lv(p, t) \in 0..1
        BY <1>12, <1>13, <3>2
      <4> QED
        BY <4>1
    <3> QED
      BY <3>1, <3>2
  <2>3. info'[p].locktype > 1 /\ os'[p].pending = 2 /\ os'[p].shared # 0 /\ (ok => os'[p].shared = 2)
    BY <1>4, <1>5, <1>6, <1>8, <2>1 DEF Holds
  <2> QED
    BY <2>2, <2>3 DEF Holds
<1>16. \A r \in Ranges : os'[p][r] <= os[p][r] \/ Grantable(p, r, os'[p][r])
  <2>1. ok => Grantable(p, "shared", 2)
    BY DEF ok
  <2> QED
    BY <1>1, <1>6, <2>1 DEF Ranges, Numeric
<1>17. Moves(p, s, level, Rv(p, s))
  <2>1. ASSUME NEW t \in Slot, t = s PROVE Rv(p, t)' <=> Rv(p, t)
    <3>1. Lv(p, t) = info[p].locktype
      BY <1>2, <1>4, <2>1, LvIs
    <3>2. os[p].reserved = 2 => info[p].locktype > 1
      BY <1>1 DEF Local, Holds
    <3>3. level >= 2
      BY <1>5
    <3>4. Lv(p, t)' = level
      BY <1>12, <2>1
    <3> QED
      BY <1>4, <1>6, <3>1, <3>2, <3>3, <3>4 DEF Rv
  <2>2. \A t \in Slot \ {s} : Rv(p, t)' <=> Rv(p, t)
    BY <1>6, <1>12 DEF Rv
  <2> QED
    <3> HIDE DEF s
    <3>1. \A t \in Slot : Rv(p, t)' <=> IF t = s THEN Rv(p, s) ELSE Rv(p, t)
      <4> SUFFICES ASSUME NEW t \in Slot
                   PROVE  Rv(p, t)' <=> IF t = s THEN Rv(p, s) ELSE Rv(p, t)
        OBVIOUS
      <4>1. CASE t = s
        BY <2>1, <4>1
      <4>2. CASE t # s
        BY <2>2, <4>2
      <4> QED
        BY <4>1, <4>2
    <3> QED
      BY <1>10, <1>12, <3>1 DEF Moves
<1>18. /\ level \in {3, 4}
       /\ level = 4 => info[p].cnt <= 1 /\ Grantable(p, "shared", 2)
  BY <1>5 DEF ok
<1>19. IInv'
  BY <1>7, <1>9, <1>10, <1>11, <1>14, <1>15, <1>16, IdleAgain, Assemble
<1> QED
  BY <1>17, <1>18, <1>19

LEMMA LoweredIInv ==
  ASSUME IInv, NEW p \in Proc, Lowered(p)
  PROVE  IInv' /\ Moves(p, call[p].slot, 1, FALSE) /\ Lv(p, call[p].slot) > 1
<1>1. Typed /\ Local(p) /\ Numeric(p)
  BY Numbers DEF IInv
<1> DEFINE s == call[p].slot
<1>2. /\ call[p].op = "lower"
      /\ os' = [os EXCEPT ![p].pending = 0, ![p].reserved = 0]
      /\ locktype' = [locktype EXCEPT ![<<p, s>>] = 1]
      /\ info' = [info EXCEPT ![p].locktype = 1]
      /\ call' = [call EXCEPT ![p] = Idle] /\ isOpen' = isOpen
  BY DEF Lowered
<1>3. s \in Slot /\ call[p] # Idle /\ <<p, s>> \in OsFile
  BY <1>1, <1>2, CallTypes DEF Numeric, OsFile
<1>4. locktype[<<p, s>>] > 1 /\ locktype[<<p, s>>] > 0 /\ isOpen[<<p, s>>]
  BY <1>1, <1>2, <1>3 DEF Local, During, Numeric
<1> HIDE DEF s
<1>5. \A t \in Slot : Lv(p, t) = locktype[<<p, t>>]
  BY <1>2, LvIs
<1>6. /\ os'[p].pending = 0 /\ os'[p].reserved = 0 /\ os'[p].shared = os[p].shared
      /\ call'[p] = Idle
      /\ \A t \in Slot : locktype'[<<p, t>>] = IF t = s THEN 1 ELSE locktype[<<p, t>>]
      /\ info'[p].cnt = info[p].cnt /\ info'[p].nLock = info[p].nLock
      /\ info'[p].nPending = info[p].nPending /\ info'[p].locktype = 1
  BY <1>1, <1>2, <1>3 DEF Typed, TypeOK, OsFile
<1>7. Typed'
  <2>1. locktype' \in [OsFile -> 0..4]
    <3>1. locktype \in [OsFile -> 0..4] /\ 1 \in 0..4
      BY <1>1 DEF Typed, TypeOK
    <3> QED
      BY <1>2, <3>1
  <2>2. info' \in [Proc -> [cnt : Nat, locktype : 0..4, nLock : Nat, nPending : Nat]]
    BY <1>1, <1>2 DEF Typed, TypeOK
  <2>3. os' \in [Proc -> [pending : {0, 1, 2}, reserved : {0, 2}, shared : {0, 1, 2}]]
    BY <1>1, <1>2 DEF Typed, TypeOK
  <2> QED
    BY <1>1, <1>2, <2>1, <2>2, <2>3 DEF Typed, TypeOK, Calls, Idle
<1>8. Only(p)
  BY <1>1, <1>2, <1>3 DEF Only, Typed, TypeOK, OsFile
<1>9. info[p].locktype > 0 /\ os[p].shared # 0
  <2>1. Lv(p, s) > 0 /\ os[p].shared \in 0..2
    BY <1>1, <1>3, <1>4, <1>5 DEF Numeric
  <2> QED
    BY <1>1, <1>3, <2>1, HeldShared
<1>10. Counted(p)'
  <2>1. \A t \in Slot : locktype'[<<p, t>>] > 0 <=> locktype[<<p, t>>] > 0
    BY <1>4, <1>6
  <2>2. Held(p)' = Held(p)
    BY <2>1 DEF Held
  <2> QED
    BY <1>1, <1>6, <1>9, <2>2, CountedAgain DEF Local
<1>11. ASSUME NEW t \in Slot
       PROVE  Lv(p, t)' \in 0..1 /\ (Lv(p, t)' > 0 => isOpen[<<p, t>>])
  <2>1. CASE t = s
    <3>1. Lv(p, t)' = 1
      BY <1>6, <2>1, IdleAgain
    <3> QED
      BY <1>4, <2>1, <3>1
  <2>2. CASE t # s
    <3>1. Lv(p, t)' = Lv(p, t) /\ Lv(p, t) \in 0..4 /\ Lv(p, s) \in 0..4
      BY <1>1, <1>3, <1>5, <1>6, <2>2, IdleAgain DEF Numeric
    <3>2. ~(Lv(p, s) > 1 /\ Lv(p, t) > 1) /\ (Lv(p, t) > 0 => isOpen[<<p, t>>])
      BY <1>1, <1>3, <2>2 DEF Local, OneWriter, Levelled
    <3>3. Lv(p, s) > 1
      BY <1>3, <1>4, <1>5
    <3> QED
      BY <3>1, <3>2, <3>3
  <2> QED
    BY <2>1, <2>2
<1>12. Levelled(p)' /\ OneWriter(p)'
  <2>1. \A t \in Slot : ~(Lv(p, t)' > 1) /\ Lv(p, t)' <= 1 /\ (Lv(p, t)' > 0 => isOpen[<<p, t>>])
    BY <1>11
  <2> QED
    BY <1>2, <1>6, <2>1 DEF Levelled, OneWriter
<1>13. Holds(p)'
  <2>1. ASSUME NEW t \in Slot PROVE Lv(p, t)' # 2 /\ ~(Lv(p, t)' >= 3) /\ Lv(p, t)' # 4
    <3>1. Lv(p, t)' \in 0..1
      BY <1>11
    <3> QED
      BY <3>1
  <2> QED
    BY <1>6, <1>9, <2>1 DEF Holds
<1>14. \A r \in Ranges : os'[p][r] <= os[p][r] \/ Grantable(p, r, os'[p][r])
  BY <1>1, <1>6 DEF Ranges, Numeric
<1>15. Moves(p, s, 1, FALSE)
  <2>1. \A t \in Slot : Lv(p, t)' = IF t = s THEN 1 ELSE Lv(p, t)
    BY <1>5, <1>6, IdleAgain
  <2>2. ASSUME NEW t \in Slot, t # s PROVE ~Rv(p, t)
    <3>1. ~(Lv(p, s) > 1 /\ Lv(p, t) > 1) /\ Lv(p, t) \in 0..4
      BY <1>1, <1>3, <2>2 DEF Local, OneWriter, Numeric
    <3>2. Lv(p, s) > 1
      BY <1>3, <1>4, <1>5
    <3> QED
      BY <3>1, <3>2 DEF Rv
  <2> QED
    BY <1>6, <1>8, <2>1, <2>2 DEF Moves, Rv
<1>16. Lv(p, s) > 1
  BY <1>3, <1>4, <1>5
<1> QED
  BY <1>15, <1>16, <1>6, <1>7, <1>8, <1>10, <1>12, <1>13, <1>14, IdleAgain, Assemble DEF s

LEMMA UnlockIInv ==
  ASSUME IInv, NEW p \in Proc, NEW s \in Slot, NEW close \in BOOLEAN, Unlock(p, s, close)
  PROVE  IInv' /\ ((Moves(p, s, 1, FALSE) /\ Lv(p, s) > 1) \/ Stays(p))
<1>1. Typed /\ Local(p) /\ Numeric(p) /\ <<p, s>> \in OsFile
  BY Numbers DEF IInv, OsFile
<1> DEFINE c == [op |-> "unlock", slot |-> s, close |-> close]
           above == locktype[<<p, s>>] > 1
<1>2. /\ call[p] = Idle /\ isOpen[<<p, s>>] /\ (close \/ locktype[<<p, s>>] > 0)
      /\ os' = IF above THEN [os EXCEPT ![p].pending = 0, ![p].reserved = 0] ELSE os
      /\ info' = IF above THEN [info EXCEPT ![p].locktype = 1] ELSE info
      /\ call' = [call EXCEPT ![p] = c] /\ locktype' = locktype /\ isOpen' = isOpen
  BY DEF Unlock, Ready
<1>3. c \in Calls /\ c # Idle /\ c.slot = s /\ c.op = "unlock" /\ (c.close = close)
  BY DEF Calls, Idle
<1> HIDE DEF c
<1>4. call'[p] = c /\ call' \in [Proc -> Calls]
  BY <1>1, <1>2, <1>3 DEF Typed
<1>5. /\ os'[p].pending = IF above THEN 0 ELSE os[p].pending
      /\ os'[p].reserved = IF above THEN 0 ELSE os[p].reserved
      /\ os'[p].shared = os[p].shared
      /\ os' \in [Proc -> [pending : {0, 1, 2}, reserved : {0, 2}, shared : {0, 1, 2}]]
  <2> HIDE DEF above
  <2> QED
    BY <1>1, <1>2 DEF Typed, TypeOK
<1>6. /\ info'[p].cnt = info[p].cnt /\ info'[p].nLock = info[p].nLock
      /\ info'[p].nPending = info[p].nPending
      /\ info'[p].locktype = IF above THEN 1 ELSE info[p].locktype
      /\ info' \in [Proc -> [cnt : Nat, locktype : 0..4, nLock : Nat, nPending : Nat]]
  <2>1. info \in [Proc -> [cnt : Nat, locktype : 0..4, nLock : Nat, nPending : Nat]] /\ 1 \in 0..4
    BY <1>1 DEF Typed, TypeOK
  <2> HIDE DEF above
  <2> QED
    BY <1>2, <2>1
<1>7. Typed'
  <2>1. \A q \in Proc : call'[q].op \in {"none", "shared", "drop", "exclusive", "lower", "unlock", "close"}
    BY <1>4, CallTypes
  <2> QED
    BY <1>1, <1>2, <1>4, <1>5, <1>6, <2>1 DEF Typed, TypeOK
<1>8. Only(p)
  <2> HIDE DEF above
  <2> QED
    BY <1>1, <1>2 DEF Only, Typed, TypeOK
<1>9. \A t \in Slot : Lv(p, t) = locktype[<<p, t>>]
  BY <1>2, LvIs DEF Idle
<1>10. \A t \in Slot : Lv(p, t)' = IF t = s /\ above THEN 1 ELSE Lv(p, t)
  BY <1>2, <1>3, <1>4, <1>9, LvNext
<1>11. above => info[p].locktype > 0
  <2>1. above => Lv(p, s) > 0
    BY <1>1, <1>9 DEF Numeric
  <2> QED
    BY <1>1, <2>1, HeldShared
<1>12. Counted(p)'
  <2>1. Held(p)' = Held(p)
    BY <1>2 DEF Held
  <2>2. info'[p].locktype = 0 <=> info[p].locktype = 0
    BY <1>1, <1>6, <1>11 DEF Numeric
  <2> QED
    BY <1>1, <1>6, <2>1, <2>2 DEF Local, Counted
<1>13. ASSUME above, NEW t \in Slot
       PROVE  Lv(p, t)' \in 0..1 /\ (Lv(p, t)' > 0 => isOpen[<<p, t>>])
  <2>1. CASE t = s
    <3>1. Lv(p, t)' = 1
      BY <1>10, <1>13, <2>1
    <3> QED
      BY <1>2, <2>1, <3>1
  <2>2. CASE t # s
    <3>1. Lv(p, t)' = Lv(p, t) /\ Lv(p, t) \in 0..4 /\ Lv(p, s) \in 0..4
      BY <1>1, <1>10, <2>2 DEF Numeric
    <3>2. ~(Lv(p, s) > 1 /\ Lv(p, t) > 1) /\ (Lv(p, t) > 0 => isOpen[<<p, t>>])
      BY <1>1, <2>2 DEF Local, OneWriter, Levelled
    <3>3. Lv(p, s) > 1
      BY <1>9, <1>13
    <3> QED
      BY <3>1, <3>2, <3>3
  <2> QED
    BY <2>1, <2>2
<1> HIDE DEF above
<1>14. Levelled(p)' /\ OneWriter(p)' /\ Holds(p)'
  <2>1. CASE above
    <3>1. \A t \in Slot : /\ ~(Lv(p, t)' > 1) /\ Lv(p, t)' <= 1 /\ (Lv(p, t)' > 0 => isOpen[<<p, t>>])
                          /\ Lv(p, t)' # 2 /\ ~(Lv(p, t)' >= 3) /\ Lv(p, t)' # 4
      BY <1>13, <2>1
    <3>2. Levelled(p)' /\ OneWriter(p)'
      BY <1>2, <1>6, <2>1, <3>1 DEF Levelled, OneWriter
    <3>3. info[p].locktype > 0 => os[p].shared # 0
      BY <1>1 DEF Local, Holds
    <3>4. os'[p].reserved # 2 /\ os'[p].shared # 0
      BY <1>5, <1>11, <2>1, <3>3
    <3>5. Holds(p)'
      BY <3>1, <3>4 DEF Holds
    <3> QED
      BY <3>2, <3>5
  <2>2. CASE ~above
    <3>1. Levelled(p) /\ OneWriter(p) /\ Holds(p) /\ call[p].op # "lower"
      BY <1>1, <1>2 DEF Local, Idle
    <3>2. \A t \in Slot : Lv(p, t)' = Lv(p, t)
      BY <1>10, <2>2
    <3> QED
      BY <1>2, <2>2, <3>1, <3>2 DEF Levelled, OneWriter, Holds
  <2> QED
    BY <2>1, <2>2
<1>15. During(p)'
  BY <1>2, <1>3, <1>4 DEF During
<1>16. \A r \in Ranges : os'[p][r] <= os[p][r] \/ Grantable(p, r, os'[p][r])
  BY <1>1, <1>5 DEF Ranges, Numeric
<1>17. ASSUME above PROVE Moves(p, s, 1, FALSE) /\ Lv(p, s) > 1
  <2>1. Lv(p, s) > 1
    BY <1>9, <1>17 DEF above
  <2>2. ASSUME NEW t \in Slot, t # s PROVE ~Rv(p, t)
    <3>1. ~(Lv(p, s) > 1 /\ Lv(p, t) > 1) /\ Lv(p, t) \in 0..4
      BY <1>1, <2>2 DEF Local, OneWriter, Numeric
    <3> QED
      BY <2>1, <3>1 DEF Rv
  <2>3. os'[p].reserved = 0 /\ \A t \in Slot : Lv(p, t)' = IF t = s THEN 1 ELSE Lv(p, t)
    BY <1>5, <1>10, <1>17
  <2>4. \A t \in Slot : ~Rv(p, t)'
    BY <2>3 DEF Rv
  <2>5. Moves(p, s, 1, FALSE)
    BY <1>8, <2>2, <2>3, <2>4 DEF Moves
  <2> QED
    BY <2>1, <2>5
<1>18. ASSUME ~above PROVE Stays(p)
  <2>1. os'[p].reserved = os[p].reserved /\ \A t \in Slot : Lv(p, t)' = Lv(p, t)
    BY <1>5, <1>10, <1>18
  <2> QED
    BY <1>8, <2>1 DEF Stays, Rv
<1>19. IInv'
  BY <1>7, <1>8, <1>12, <1>14, <1>15, <1>16, Assemble
<1> QED
  BY <1>17, <1>18, <1>19

LEMMA Unlock2IInv ==
  ASSUME IInv, NEW p \in Proc, Unlock2(p)
  PROVE  IInv' /\ Moves(p, call[p].slot, 0, FALSE)
<1>1. Typed /\ Local(p) /\ Numeric(p)
  BY Numbers DEF IInv
<1> DEFINE s == call[p].slot
           cnt == info[p].cnt - 1
           nLock == info[p].nLock - 1
           c == IF call[p].close THEN [op |-> "close", slot |-> s] ELSE Idle
<1>2. /\ call[p].op = "unlock"
      /\ IF locktype[<<p, s>>] = 0 THEN os' = os /\ info' = info
         ELSE /\ os' = IF cnt = 0 THEN [os EXCEPT ![p] = Nothing] ELSE os
              /\ info' = [info EXCEPT ![p].cnt = cnt, ![p].nLock = nLock,
                            ![p].locktype = IF cnt = 0 THEN 0 ELSE @,
                            ![p].nPending = IF nLock = 0 THEN 0 ELSE @]
      /\ locktype' = [locktype EXCEPT ![<<p, s>>] = 0]
      /\ call' = [call EXCEPT ![p] = c] /\ isOpen' = isOpen
  BY DEF Unlock2
<1>3. s \in Slot /\ call[p] # Idle /\ <<p, s>> \in OsFile
  BY <1>1, <1>2, CallTypes DEF Numeric, OsFile
<1>4. isOpen[<<p, s>>]
  BY <1>1, <1>2, <1>3 DEF Local, During
<1> HIDE DEF s
<1>5. c \in Calls /\ c.op # "unlock" /\ c.op # "lower" /\ (c.op = "close" => c.slot = s)
      /\ c.op \in {"none", "close"} /\ (c # Idle => c.op = "close")
  BY <1>3 DEF Calls, Idle
<1> HIDE DEF c
<1>6. call'[p] = c /\ call' \in [Proc -> Calls]
  BY <1>1, <1>2, <1>5 DEF Typed
<1>7. \A t \in Slot : locktype'[<<p, t>>] = IF t = s THEN 0 ELSE locktype[<<p, t>>]
  BY <1>1, <1>2, <1>3 DEF Typed, TypeOK, OsFile
<1>8. During(p)'
  BY <1>2, <1>3, <1>4, <1>5, <1>6, <1>7 DEF During
<1>9. /\ locktype' \in [OsFile -> 0..4]
      /\ \A q \in Proc : call'[q].op \in {"none", "shared", "drop", "exclusive", "lower", "unlock", "close"}
  <2>1. locktype \in [OsFile -> 0..4] /\ 0 \in 0..4
    BY <1>1 DEF Typed, TypeOK
  <2> QED
    BY <1>2, <1>6, <2>1, CallTypes
<1>10. \A t \in Slot : Lv(p, t)' = IF t = s THEN 0 ELSE Lv(p, t)
  <2>1. \A t \in Slot : Lv(p, t)' = locktype'[<<p, t>>]
    BY <1>5, <1>6, LvNext
  <2>2. \A t \in Slot \ {s} : Lv(p, t) = locktype[<<p, t>>]
    BY LvIs DEF s
  <2> QED
    BY <1>7, <2>1, <2>2
<1>11. OneWriter(p)'
  <2>1. ASSUME NEW t \in Slot, NEW u \in Slot, Lv(p, t)' > 1, Lv(p, u)' > 1 PROVE t = u
    BY <1>1, <1>10, <2>1 DEF Local, OneWriter
  <2> QED
    BY <2>1 DEF OneWriter
<1>20. ~Rv(p, s)
  <2>1. Lv(p, s) \in 0..1
    BY <1>1, <1>2, <1>3, LvIs DEF s, Numeric
  <2> QED
    BY <2>1 DEF Rv
<1>12. CASE locktype[<<p, s>>] = 0
  <2>1. os' = os /\ info' = info
    BY <1>2, <1>12
  <2>2. Typed'
    BY <1>1, <1>2, <1>6, <1>9, <2>1 DEF Typed, TypeOK
  <2>3. Only(p)
    BY <1>1, <1>2, <1>3, <2>1 DEF Only, Typed, TypeOK, OsFile
  <2>4. Counted(p)'
    <3>1. Held(p)' = Held(p)
      BY <1>7, <1>12 DEF Held
    <3> QED
      BY <1>1, <2>1, <3>1 DEF Local, Counted
  <2>5. Levelled(p)'
    <3>1. Levelled(p) /\ info[p].locktype \in 0..4
      BY <1>1 DEF Local, Numeric
    <3> QED
      BY <1>2, <1>10, <2>1, <3>1 DEF Levelled
  <2>6. Holds(p)'
    <3>1. Holds(p) /\ call[p].op # "lower"
      BY <1>1, <1>2 DEF Local
    <3> QED
      BY <1>10, <2>1, <3>1 DEF Holds
  <2>7. \A r \in Ranges : os'[p][r] <= os[p][r]
    BY <1>1, <2>1 DEF Ranges, Numeric
  <2>8. Moves(p, s, 0, FALSE)
    BY <1>10, <2>1, <2>3 DEF Moves, Rv
  <2>9. IInv'
    BY <1>8, <1>11, <2>2, <2>3, <2>4, <2>5, <2>6, <2>7, Assemble
  <2> QED
    BY <2>8, <2>9 DEF s
<1>13. CASE locktype[<<p, s>>] # 0
  <2>1. /\ os' = IF cnt = 0 THEN [os EXCEPT ![p] = Nothing] ELSE os
        /\ info' = [info EXCEPT ![p].cnt = cnt, ![p].nLock = nLock,
                      ![p].locktype = IF cnt = 0 THEN 0 ELSE @,
                      ![p].nPending = IF nLock = 0 THEN 0 ELSE @]
    BY <1>2, <1>13
  <2>2. s \in Held(p)
    BY <1>1, <1>3, <1>13 DEF Numeric, Held
  <2>3. Held(p)' = Held(p) \ {s}
    BY <1>7 DEF Held
  <2>4. /\ Cardinality(Held(p)') = Cardinality(Held(p)) - 1 /\ IsFiniteSet(Held(p)')
        /\ Cardinality(Held(p)') \in Nat
    BY <2>2, <2>3, HeldFinite, FS_RemoveElement, FS_CardinalityType
  <2>5. /\ cnt = Cardinality(Held(p)') /\ nLock = cnt /\ cnt \in Nat
        /\ (cnt = 0 <=> Held(p)' = {})
    BY <1>1, <2>4, FS_EmptySet DEF Local, Counted
  <2>6. info[p].locktype \in 1..4 /\ info[p].nPending \in Nat
    <3>1. info[p].locktype # 0
      BY <1>1, <2>2 DEF Local, Counted
    <3> QED
      BY <1>1, <3>1 DEF Numeric
  <2> HIDE DEF cnt, nLock
  <2>7. /\ info'[p].cnt = cnt /\ info'[p].nLock = nLock
        /\ info'[p].locktype = IF cnt = 0 THEN 0 ELSE info[p].locktype
        /\ info'[p].nPending = IF nLock = 0 THEN 0 ELSE info[p].nPending
        /\ info' \in [Proc -> [cnt : Nat, locktype : 0..4, nLock : Nat, nPending : Nat]]
    <3> DEFINE level == IF cnt = 0 THEN 0 ELSE info[p].locktype
               nPending == IF nLock = 0 THEN 0 ELSE info[p].nPending
    <3>1. level \in 0..4 /\ nPending \in Nat
      BY <2>6
    <3>2. info' = [info EXCEPT ![p].cnt = cnt, ![p].nLock = nLock,
                               ![p].locktype = level, ![p].nPending = nPending]
      BY <1>1, <2>1 DEF Typed, TypeOK
    <3>3. info \in [Proc -> [cnt : Nat, locktype : 0..4, nLock : Nat, nPending : Nat]]
      BY <1>1 DEF Typed, TypeOK
    <3> HIDE DEF level, nPending
    <3>4. /\ info'[p].cnt = cnt /\ info'[p].nLock = nLock
          /\ info'[p].locktype = level /\ info'[p].nPending = nPending
          /\ info' \in [Proc -> [cnt : Nat, locktype : 0..4, nLock : Nat, nPending : Nat]]
      <4> DEFINE r == [info[p] EXCEPT !.cnt = cnt, !.nLock = nLock,
                                      !.locktype = level, !.nPending = nPending]
      <4>1. info[p] \in [cnt : Nat, locktype : 0..4, nLock : Nat, nPending : Nat]
        BY <3>3
      <4>2. cnt \in Nat /\ nLock \in Nat
        BY <2>5
      <4>3. /\ r \in [cnt : Nat, locktype : 0..4, nLock : Nat, nPending : Nat]
            /\ r.cnt = cnt /\ r.nLock = nLock /\ r.locktype = level /\ r.nPending = nPending
        BY <3>1, <4>1, <4>2
      <4>4. info' = [info EXCEPT ![p] = r]
        BY <3>2, <3>3
      <4> HIDE DEF r
      <4> QED
        BY <3>3, <4>3, <4>4
    <3> QED
      BY <3>4 DEF level, nPending
  <2>8. os'[p] = (IF cnt = 0 THEN Nothing ELSE os[p])
        /\ os' \in [Proc -> [pending : {0, 1, 2}, reserved : {0, 2}, shared : {0, 1, 2}]]
    BY <1>1, <2>1 DEF Typed, TypeOK, Nothing
  <2>9. Typed'
    BY <1>1, <1>2, <1>6, <1>9, <2>7, <2>8 DEF Typed, TypeOK
  <2>10. Only(p)
    BY <1>1, <1>2, <1>3, <2>1 DEF Only, Typed, TypeOK, OsFile
  <2>13. Moves(p, s, 0, FALSE)
    <3>1. ASSUME NEW t \in Slot, t # s PROVE Rv(p, t)' <=> Rv(p, t)
      <4>1. CASE cnt = 0
        <5>1. Lv(p, t) \in 0..4 /\ ~(Lv(p, t) > 0)
          BY <1>1, <2>3, <2>5, <3>1, <4>1 DEF Held, Numeric
        <5> QED
          BY <1>10, <3>1, <5>1 DEF Rv
      <4>2. CASE cnt # 0
        BY <1>10, <2>8, <3>1, <4>2 DEF Rv
      <4> QED
        BY <4>1, <4>2
    <3> QED
      BY <1>10, <2>10, <3>1 DEF Moves, Rv
  <2>11. ASSUME cnt = 0 PROVE IInv'
    BY <1>5, <1>6, <1>8, <2>5, <2>7, <2>8, <2>9, <2>10, <2>11, ClosedIInv
  <2>12. ASSUME cnt # 0 PROVE IInv'
    <3>1. Counted(p)'
      BY <1>1, <2>5, <2>6, <2>7, <2>12 DEF Local, Counted
    <3>2. Levelled(p)'
      <4>1. Levelled(p)
        BY <1>1 DEF Local
      <4> QED
        BY <1>2, <1>10, <2>6, <2>7, <2>12, <4>1 DEF Levelled
    <3>3. Holds(p)'
      <4>1. Holds(p) /\ call[p].op # "lower"
        BY <1>1, <1>2 DEF Local
      <4> QED
        BY <1>10, <2>7, <2>8, <2>12, <4>1 DEF Holds
    <3>4. \A r \in Ranges : os'[p][r] <= os[p][r]
      BY <1>1, <2>8, <2>12 DEF Ranges, Numeric
    <3> QED
      BY <1>8, <1>11, <2>9, <2>10, <3>1, <3>2, <3>3, <3>4, Assemble
  <2> QED
    BY <2>11, <2>12, <2>13 DEF s
<1> QED
  BY <1>12, <1>13 DEF s

LEMMA CloseIInv ==
  ASSUME IInv, NEW p \in Proc, Close(p)
  PROVE  IInv' /\ Stays(p)
<1>1. Typed /\ Local(p) /\ Numeric(p)
  BY Numbers DEF IInv
<1> DEFINE s == call[p].slot
<1>2. /\ call[p].op = "close"
      /\ IF info[p].nLock > 0
         THEN info' = [info EXCEPT ![p].nPending = @ + 1] /\ os' = os
         ELSE os' = [os EXCEPT ![p] = Nothing] /\ info' = info
      /\ isOpen' = [isOpen EXCEPT ![<<p, s>>] = FALSE]
      /\ call' = [call EXCEPT ![p] = Idle] /\ locktype' = locktype
  BY DEF Close
<1>3. s \in Slot /\ <<p, s>> \in OsFile
  BY <1>1, <1>2, CallTypes DEF Numeric, OsFile, Idle
<1>4. locktype[<<p, s>>] = 0
  BY <1>1, <1>2 DEF Local, During
<1> HIDE DEF s
<1>5. /\ call'[p] = Idle /\ call' \in [Proc -> Calls]
      /\ isOpen' \in [OsFile -> BOOLEAN]
      /\ \A t \in Slot \ {s} : isOpen'[<<p, t>>] = isOpen[<<p, t>>]
  BY <1>1, <1>2, <1>3 DEF Typed, TypeOK, Calls, OsFile
<1>6. During(p)' /\ call'[p].op # "unlock" /\ \A t \in Slot : Lv(p, t)' = Lv(p, t)
  <2>1. call'[p].op = "none"
    BY <1>5 DEF Idle
  <2> QED
    BY <1>2, <1>5, <2>1, IdleAgain, LvKept
<1>7. Held(p)' = Held(p)
  BY <1>2 DEF Held
<1>8. CASE info[p].nLock > 0
  <2>1. info' = [info EXCEPT ![p].nPending = @ + 1] /\ os' = os
    BY <1>2, <1>8
  <2>2. Typed'
    <3>1. info' \in [Proc -> [cnt : Nat, locktype : 0..4, nLock : Nat, nPending : Nat]]
      BY <1>1, <2>1 DEF Typed, TypeOK
    <3> QED
      BY <1>1, <1>2, <1>5, <2>1, <3>1, CallTypes DEF Typed, TypeOK
  <2>3. Only(p)
    BY <1>1, <1>2, <1>3, <2>1 DEF Only, Typed, TypeOK, OsFile
  <2>4. /\ info'[p].cnt = info[p].cnt /\ info'[p].nLock = info[p].nLock
        /\ info'[p].locktype = info[p].locktype
    BY <1>1, <2>1 DEF Typed, TypeOK
  <2>5. Counted(p)'
    BY <1>1, <1>7, <1>8, <2>4 DEF Local, Counted
  <2>6. Levelled(p)' /\ OneWriter(p)'
    <3>1. Levelled(p) /\ OneWriter(p) /\ ~(Lv(p, s) > 0)
      BY <1>1, <1>3, <1>4 DEF Local, Numeric
    <3> QED
      BY <1>5, <1>6, <2>4, <3>1 DEF Levelled, OneWriter
  <2>7. Holds(p)'
    <3>1. Holds(p) /\ call[p].op # "lower"
      BY <1>1, <1>2 DEF Local
    <3> QED
      BY <1>6, <2>1, <2>4, <3>1 DEF Holds
  <2>8. \A r \in Ranges : os'[p][r] <= os[p][r]
    BY <1>1, <2>1 DEF Ranges, Numeric
  <2>9. Stays(p)
    BY <1>6, <2>1, <2>3 DEF Stays, Rv
  <2> QED
    BY <2>9, <1>6, <2>2, <2>3, <2>5, <2>6, <2>7, <2>8, Assemble
<1>9. CASE ~(info[p].nLock > 0)
  <2>1. os' = [os EXCEPT ![p] = Nothing] /\ info' = info
    BY <1>2, <1>9
  <2>2. info[p].nLock = 0 /\ info[p].cnt = 0 /\ info[p].nPending = 0
    BY <1>1, <1>9 DEF Numeric, Local, Counted
  <2>3. Held(p) = {} /\ info[p].locktype = 0
    BY <1>1, <2>2, HeldFinite, FS_EmptySet DEF Local, Counted
  <2>4. Typed' /\ os'[p] = Nothing
    BY <1>1, <1>2, <1>5, <2>1, CallTypes DEF Typed, TypeOK, Nothing
  <2>5. Only(p)
    BY <1>1, <1>2, <1>3, <2>1 DEF Only, Typed, TypeOK, OsFile
  <2>6. Stays(p)
    <3>1. ASSUME NEW t \in Slot PROVE ~(Lv(p, t) >= 2)
      <4>1. Lv(p, t) \in 0..4 /\ ~(Lv(p, t) > 0)
        BY <1>1, <2>3 DEF Numeric, Held
      <4> QED
        BY <4>1
    <3> QED
      BY <1>6, <2>5, <3>1 DEF Stays, Rv
  <2> QED
    BY <2>6, <1>6, <1>7, <2>1, <2>2, <2>3, <2>4, <2>5, ClosedIInv
<1> QED
  BY <1>8, <1>9

-----------------------------------------------------------------------------
LEMMA InitIInv == Init => IInv
<1> SUFFICES ASSUME Init PROVE IInv
  OBVIOUS
<1>1. Typed
  BY DEF Init, Typed, TypeOK, Unlocked, Nothing, Calls, Idle
<1>2. ASSUME NEW p \in Proc PROVE Local(p)
  <2>1. /\ info[p] = Unlocked /\ os[p] = Nothing /\ call[p] = Idle
        /\ \A s \in Slot : locktype[<<p, s>>] = 0
    BY DEF Init, OsFile
  <2>2. \A s \in Slot : Lv(p, s) = 0
    <3>1. call[p].op # "unlock"
      BY <2>1 DEF Idle
    <3> QED
      BY <2>1, <3>1, LvIs
  <2>3. Held(p) = {}
    BY <2>1 DEF Held
  <2> QED
    BY <2>1, <2>2, <2>3, FS_EmptySet
    DEF Local, Counted, Levelled, OneWriter, Holds, During, Unlocked, Nothing, Idle
<1>3. Compatible
  BY DEF Init, Compatible, Nothing, Ranges
<1> QED
  BY <1>1, <1>2, <1>3 DEF IInv

LEMMA StepIInv == IInv /\ [Next]_vars => IInv'
<1> SUFFICES ASSUME IInv, [Next]_vars PROVE IInv'
  OBVIOUS
<1>1. ASSUME NEW p \in Proc, NEW s \in Slot,
             \/ Open(p, s) \/ OpenFails(p, s)
             \/ LockSharedToo(p, s) \/ LockShared(p, s) \/ LockReserved(p, s)
             \/ LockExclusive(p, s) \/ Retry(p, s)
             \/ UnlockToShared(p, s) \/ \E close \in BOOLEAN : Unlock(p, s, close)
      PROVE  IInv'
  BY <1>1, OpenIInv, OpenFailsIInv, LockSharedTooIInv, LockSharedIInv, LockReservedIInv,
     LockExclusiveIInv, UnlockToSharedIInv, UnlockIInv
<1>2. ASSUME NEW p \in Proc, Advance(p) \/ Exit(p) PROVE IInv'
  BY <1>2, ReadLockIInv, DropPendingIInv, ExclusiveOrPendingIInv, LoweredIInv, Unlock2IInv,
     CloseIInv, ExitIInv DEF Advance
<1>3. CASE UNCHANGED vars
  <2>1. Typed'
    BY <1>3 DEF IInv, Typed, TypeOK, vars
  <2>2. Compatible'
    BY <1>3 DEF IInv, Compatible, vars
  <2>3. ASSUME NEW p \in Proc PROVE Local(p)'
    <3>1. Held(p)' = Held(p) /\ \A s \in Slot : Lv(p, s)' = Lv(p, s)
      BY <1>3, LvIs, LvNext DEF Held, vars
    <3> QED
      BY <1>3, <3>1 DEF IInv, Local, Counted, Levelled, OneWriter, Holds, During, vars
  <2> QED
    BY <2>1, <2>2, <2>3 DEF IInv
<1> QED
  BY <1>1, <1>2, <1>3 DEF Next

\* The counts, the levels and the POSIX locks of every process agree, in the middle
\* of calls, too.
THEOREM LocksInvariance == Spec => []IInv
BY InitIInv, StepIInv, PTL DEF Spec

\* The variables keep their types.
THEOREM LocksTyped == Spec => []TypeOK
<1>1. IInv => TypeOK
  BY DEF IInv, Typed
<1> QED
  BY <1>1, LocksInvariance, PTL

LEMMA BackedNow == IInv => Backed
<1> SUFFICES ASSUME IInv, NEW p \in Proc, NEW s \in Slot
             PROVE  /\ Lv(p, s) > 0 => os[p].shared # 0 /\ isOpen[<<p, s>>]
                    /\ Lv(p, s) = 2 => os[p].reserved = 2
                    /\ Lv(p, s) >= 3 => os[p].pending = 2
                    /\ Lv(p, s) = 4 => os[p].shared = 2 \/ call[p].op = "lower"
  BY DEF Backed, Lv
<1>1. Local(p) /\ Numeric(p)
  BY Numbers DEF IInv
<1>2. Lv(p, s) > 0 => os[p].shared >= 1 /\ os[p].shared \in 0..2 /\ isOpen[<<p, s>>]
  BY <1>1, HeldShared DEF Numeric
<1>3. Holds(p)
  BY <1>1 DEF Local
<1> QED
  BY <1>2, <1>3 DEF Holds

\* No handle ever believes it has a lock its process does not hold.
THEOREM AlwaysBacked == Spec => []Backed
BY BackedNow, LocksInvariance, PTL

\* No close is put off in a process that has nothing left to lose.
THEOREM ClosesAlwaysComplete == Spec => []ClosesComplete
<1>1. IInv => ClosesComplete
  BY DEF IInv, Local, Counted, ClosesComplete
<1> QED
  BY <1>1, LocksInvariance, PTL

-----------------------------------------------------------------------------
\* The refinement of FileLock: what steps of a process are for all handles.
LEMMA OthersLevels ==
  ASSUME NEW p, Only(p), NEW q \in Proc \ {p}, NEW t \in Slot
  PROVE  Lv(q, t)' = Lv(q, t) /\ (Rv(q, t)' <=> Rv(q, t))
<1>1. /\ call'[q] = call[q] /\ locktype'[<<q, t>>] = locktype[<<q, t>>] /\ os'[q] = os[q]
  BY DEF Only
<1>2. Lv(q, t)' = Lv(q, t)
  BY <1>1, LvIs, LvNext
<1> QED
  BY <1>1, <1>2 DEF Rv

LEMMA LevelsAre ==
  /\ levels = [f \in OsFile |-> Lv(f[1], f[2])]
  /\ reservers = {f \in OsFile : Rv(f[1], f[2])}
<1>1. \A f \in OsFile : Lv(f[1], f[2]) = Level(f)
  BY DEF Lv, OsFile
<1> QED
  BY <1>1 DEF levels, reservers, Rv

LEMMA LevelsNext ==
  /\ levels' = [f \in OsFile |-> Lv(f[1], f[2])']
  /\ reservers' = {f \in OsFile : Rv(f[1], f[2])'}
<1>1. \A f \in OsFile : Lv(f[1], f[2])' = Level(f)'
  BY DEF Lv, OsFile
<1> QED
  BY <1>1 DEF levels, reservers, Rv

LEMMA StaysMeans ==
  ASSUME NEW p \in Proc, Stays(p)
  PROVE  levels' = levels /\ reservers' = reservers
<1>1. \A f \in OsFile : Lv(f[1], f[2])' = Lv(f[1], f[2]) /\ (Rv(f[1], f[2])' <=> Rv(f[1], f[2]))
  BY OthersLevels DEF Stays, OsFile
<1> QED
  BY <1>1, LevelsAre, LevelsNext

LEMMA MovesMeans ==
  ASSUME NEW p \in Proc, NEW s \in Slot, NEW level, NEW reserved, Moves(p, s, level, reserved)
  PROVE  /\ levels' = [levels EXCEPT ![<<p, s>>] = level]
         /\ reserved <=> <<p, s>> \in reservers'
         /\ \A f \in OsFile \ {<<p, s>>} : f \in reservers' <=> f \in reservers
<1>1. ASSUME NEW f \in OsFile, f # <<p, s>>
      PROVE  Lv(f[1], f[2])' = Lv(f[1], f[2]) /\ (Rv(f[1], f[2])' <=> Rv(f[1], f[2]))
  <2>1. PICK q \in Proc, t \in Slot : f = <<q, t>>
    BY DEF OsFile
  <2>2. CASE q = p
    BY <1>1, <2>1, <2>2 DEF Moves
  <2>3. CASE q # p
    BY <2>1, <2>3, OthersLevels DEF Moves
  <2> QED
    BY <2>2, <2>3
<1>2. Lv(p, s)' = level /\ (Rv(p, s)' <=> reserved) /\ <<p, s>> \in OsFile
  BY DEF Moves, OsFile
<1> QED
  BY <1>1, <1>2, LevelsAre, LevelsNext

\* What a handle of another process may hold beside what p holds.
LEMMA OthersHold ==
  ASSUME IInv, NEW p \in Proc, NEW q \in Proc \ {p}, NEW t \in Slot
  PROVE  /\ os[p].pending # 0 => ~(Lv(q, t) >= 3)
         /\ Grantable(p, "shared", 2) => Lv(q, t) = 0
         /\ Grantable(p, "reserved", 2) => ~Rv(q, t)
<1>1. Local(q) /\ Numeric(q) /\ Numeric(p)
  BY Numbers DEF IInv
<1>2. Lv(q, t) >= 3 => os[q].pending = 2
  BY <1>1 DEF Local, Holds
<1>3. os[q].pending = 2 => os[p].pending = 0
  BY DEF IInv, Compatible, Ranges
<1>4. Lv(q, t) \in 0..4 /\ (Lv(q, t) > 0 => os[q].shared >= 1) /\ os[q].shared \in 0..2
  BY <1>1, HeldShared DEF Numeric
<1>5. Grantable(p, "shared", 2) => os[q].shared + 2 <= 2
  BY DEF Grantable, Others
<1>6. Grantable(p, "reserved", 2) => os[q].reserved # 2
  BY DEF Grantable, Others
<1> QED
  BY <1>2, <1>3, <1>4, <1>5, <1>6 DEF Rv

LEMMA LevelOf ==
  ASSUME NEW q \in Proc, NEW t \in Slot
  PROVE  /\ levels[<<q, t>>] = Lv(q, t) /\ <<q, t>> \in OsFile
         /\ <<q, t>> \in reservers <=> Rv(q, t)
BY LevelsAre DEF OsFile

USE DEF Levels!NO_LOCK, Levels!SHARED_LOCK, Levels!RESERVED_LOCK, Levels!PENDING_LOCK,
        Levels!EXCLUSIVE_LOCK

LEMMA ShareTooShares ==
  ASSUME IInv, NEW p \in Proc, NEW s \in Slot, LockSharedToo(p, s)
  PROVE  Levels!Share(<<p, s>>)
<1>1. Local(p) /\ Numeric(p)
  BY Numbers DEF IInv
<1>2. locktype[<<p, s>>] = 0 /\ info[p].locktype \in {1, 2}
  BY DEF LockSharedToo
<1>3. Lv(p, s) = 0
  BY <1>2, LvIs
<1>4. PICK t \in Slot : locktype[<<p, t>>] > 0
  BY <1>1, <1>2 DEF Local, Counted, Held
<1>5. t # s /\ Lv(p, t) \in {1, 2}
  <2>1. Lv(p, t) \in 0..4 /\ Lv(p, t) > 0 /\ Lv(p, t) <= info[p].locktype
    BY <1>1, <1>4 DEF Numeric, Local, Levelled
  <2> QED
    BY <1>2, <1>3, <2>1
<1>6. Moves(p, s, 1, FALSE)
  BY LockSharedTooIInv
<1>7. /\ levels' = [levels EXCEPT ![<<p, s>>] = 1] /\ <<p, s>> \notin reservers'
      /\ \A f \in OsFile \ {<<p, s>>} : f \in reservers' <=> f \in reservers
  BY <1>6, MovesMeans
<1>8. reservers' = reservers
  <2>1. <<p, s>> \notin reservers
    BY <1>3, LevelOf DEF Rv
  <2>2. reservers \subseteq OsFile /\ reservers' \subseteq OsFile
    BY DEF reservers
  <2> QED
    BY <1>7, <2>1, <2>2
<1>9. /\ <<p, t>> \in OsFile \ {<<p, s>>} /\ levels[<<p, t>>] \in {1, 2}
      /\ levels[<<p, s>>] = 0 /\ <<p, t>>[1] = <<p, s>>[1]
  BY <1>3, <1>5, LevelOf
<1> QED
  BY <1>7, <1>8, <1>9 DEF Levels!Share, Levels!Others, Levels!OsFile, OsFile

LEMMA DropPendingShares ==
  ASSUME IInv, NEW p \in Proc, NEW s \in Slot, DropPending(p), Moves(p, s, 1, FALSE)
  PROVE  Levels!Share(<<p, s>>)
<1>1. Local(p) /\ Numeric(p)
  BY Numbers DEF IInv
<1>2. info[p].locktype = 0 /\ os[p].pending = 1
  BY <1>1 DEF DropPending, Local, During
<1>3. ASSUME NEW t \in Slot PROVE Lv(p, t) = 0
  <2>1. Lv(p, t) \in 0..4 /\ Lv(p, t) <= info[p].locktype
    BY <1>1 DEF Numeric, Local, Levelled
  <2> QED
    BY <1>2, <2>1
<1>4. ASSUME NEW g \in OsFile PROVE levels[g] < 3
  <2>1. PICK q \in Proc, t \in Slot : g = <<q, t>>
    BY DEF OsFile
  <2>2. Lv(q, t) \in 0..4
    BY Numbers DEF IInv, Numeric
  <2>3. ~(Lv(q, t) >= 3)
    BY <1>2, <1>3, OthersHold
  <2> QED
    BY <2>1, <2>2, <2>3, LevelOf
<1>5. /\ levels' = [levels EXCEPT ![<<p, s>>] = 1] /\ <<p, s>> \notin reservers'
      /\ \A f \in OsFile \ {<<p, s>>} : f \in reservers' <=> f \in reservers
  BY MovesMeans
<1>6. reservers' = reservers
  <2>1. <<p, s>> \notin reservers
    BY <1>3, LevelOf DEF Rv
  <2>2. reservers \subseteq OsFile /\ reservers' \subseteq OsFile
    BY DEF reservers
  <2> QED
    BY <1>5, <2>1, <2>2
<1> QED
  BY <1>3, <1>4, <1>5, <1>6, LevelOf DEF Levels!Share, Levels!Others, Levels!OsFile, OsFile

LEMMA ReservedReserves ==
  ASSUME IInv, NEW p \in Proc, NEW s \in Slot, LockReserved(p, s)
  PROVE  Levels!Reserve(<<p, s>>)
<1>1. Local(p) /\ Numeric(p)
  BY Numbers DEF IInv
<1>2. /\ locktype[<<p, s>>] = 1 /\ info[p].locktype = 1 /\ Grantable(p, "reserved", 2)
  BY DEF LockReserved, Precluded
<1>3. Lv(p, s) = 1
  BY <1>2, LvIs
<1>4. reservers = {}
  <2> SUFFICES ASSUME NEW f \in OsFile PROVE f \notin reservers
    BY DEF reservers
  <2>1. PICK q \in Proc, t \in Slot : f = <<q, t>>
    BY DEF OsFile
  <2>2. CASE q = p
    <3>1. Lv(p, t) \in 0..4 /\ Lv(p, t) <= 1
      BY <1>1, <1>2 DEF Numeric, Local, Levelled
    <3> QED
      BY <2>1, <2>2, <3>1, LevelOf DEF Rv
  <2>3. CASE q # p
    BY <1>2, <2>1, <2>3, OthersHold, LevelOf
  <2> QED
    BY <2>2, <2>3
<1>5. Moves(p, s, 2, TRUE)
  BY LockReservedIInv
<1>6. /\ levels' = [levels EXCEPT ![<<p, s>>] = 2] /\ <<p, s>> \in reservers'
      /\ \A f \in OsFile \ {<<p, s>>} : f \in reservers' <=> f \in reservers
  BY <1>5, MovesMeans
<1>7. reservers' = {<<p, s>>}
  <2>1. reservers' \subseteq OsFile
    BY DEF reservers
  <2> QED
    BY <1>4, <1>6, <2>1
<1> QED
  BY <1>3, <1>4, <1>6, <1>7, LevelOf DEF Levels!Reserve

LEMMA ExclusiveExcludes ==
  ASSUME IInv, NEW p \in Proc, ExclusiveOrPending(p)
  PROVE  Levels!Next \/ UNCHANGED <<levels, reservers>>
<1>1. Local(p) /\ Numeric(p)
  BY Numbers DEF IInv
<1>2. call[p].op = "exclusive"
  BY DEF ExclusiveOrPending
<1>3. PICK s \in Slot : s = call[p].slot
  BY <1>1, <1>2, CallTypes DEF Numeric, Idle
<1>4. /\ locktype[<<p, s>>] = info[p].locktype /\ info[p].locktype \in 1..3
      /\ os[p].pending = 2
  BY <1>1, <1>2, <1>3 DEF Local, During
<1>5. Lv(p, s) = info[p].locktype /\ Lv(p, s) \in 1..3
  BY <1>2, <1>4, LvIs
<1>6. PICK level \in {3, 4} :
        /\ Moves(p, s, level, Rv(p, s))
        /\ level = 4 => info[p].cnt <= 1 /\ Grantable(p, "shared", 2)
  BY <1>3, ExclusiveOrPendingIInv
<1>7. levels' = [levels EXCEPT ![<<p, s>>] = level]
  BY <1>6, MovesMeans
<1>8. reservers' = reservers
  <2>1. /\ Rv(p, s) <=> <<p, s>> \in reservers'
        /\ \A f \in OsFile \ {<<p, s>>} : f \in reservers' <=> f \in reservers
    BY <1>6, MovesMeans
  <2>2. Rv(p, s) <=> <<p, s>> \in reservers
    BY LevelOf
  <2>3. reservers \subseteq OsFile /\ reservers' \subseteq OsFile
    BY DEF reservers
  <2> QED
    BY <2>1, <2>2, <2>3
<1>9. levels[<<p, s>>] = Lv(p, s) /\ <<p, s>> \in OsFile
  BY LevelOf
<1>10. CASE level = 4
  <2>1. ASSUME NEW t \in Slot, t # s PROVE Lv(p, t) = 0
    <3>1. s \in Held(p)
      BY <1>4 DEF Held
    <3>2. Cardinality(Held(p) \ {s}) = Cardinality(Held(p)) - 1 /\ IsFiniteSet(Held(p) \ {s})
      BY <3>1, HeldFinite, FS_RemoveElement
    <3>3. Cardinality(Held(p) \ {s}) = 0
      <4>1. Cardinality(Held(p) \ {s}) \in Nat
        BY <3>2, FS_CardinalityType
      <4>2. Cardinality(Held(p)) <= 1
        BY <1>1, <1>6, <1>10 DEF Local, Counted
      <4> QED
        BY <3>2, <4>1, <4>2, HeldFinite
    <3>4. Held(p) \ {s} = {}
      BY <3>2, <3>3, FS_EmptySet
    <3>5. t \notin Held(p)
      BY <2>1, <3>4
    <3>6. ~(locktype[<<p, t>>] > 0) /\ locktype[<<p, t>>] \in 0..4
      BY <1>1, <3>5 DEF Held, Numeric, NO_LOCK
    <3>7. locktype[<<p, t>>] = 0
      BY <3>6
    <3> QED
      BY <1>1, <3>7, LvIs
  <2>2. ASSUME NEW g \in OsFile \ {<<p, s>>} PROVE levels[g] = 0
    <3>1. PICK q \in Proc, t \in Slot : g = <<q, t>>
      BY DEF OsFile
    <3>2. CASE q = p
      BY <2>1, <3>1, <3>2, LevelOf
    <3>3. CASE q # p
      BY <1>6, <1>10, <3>1, <3>3, OthersHold, LevelOf
    <3> QED
      BY <3>2, <3>3
  <2>3. Levels!Exclude(<<p, s>>)
    BY <1>5, <1>7, <1>8, <1>9, <1>10, <2>2 DEF Levels!Exclude, Levels!Others, Levels!OsFile, OsFile
  <2> QED
    BY <1>9, <2>3 DEF Levels!Next, Levels!OsFile, OsFile
<1>11. CASE level = 3 /\ Lv(p, s) = 3
  <2>1. levels \in [OsFile -> {Lv(f[1], f[2]) : f \in OsFile}]
    BY LevelsAre
  <2>2. levels' = levels
    BY <1>7, <1>9, <1>11, <2>1
  <2> QED
    BY <1>8, <2>2
<1>12. CASE level = 3 /\ Lv(p, s) # 3
  <2>1. ASSUME NEW g \in OsFile \ {<<p, s>>} PROVE levels[g] < 3
    <3>1. PICK q \in Proc, t \in Slot : g = <<q, t>>
      BY DEF OsFile
    <3>2. Lv(q, t) \in 0..4
      BY Numbers DEF IInv, Numeric
    <3>3. CASE q = p
      <4>1. Lv(p, t) <= info[p].locktype
        BY <1>1 DEF Local, Levelled
      <4> QED
        BY <1>5, <1>12, <3>1, <3>2, <3>3, <4>1, LevelOf
    <3>4. CASE q # p
      <4>1. ~(Lv(q, t) >= 3)
        BY <1>4, <3>4, OthersHold
      <4> QED
        BY <3>1, <3>2, <4>1, LevelOf
    <3> QED
      BY <3>3, <3>4
  <2>2. Lv(p, s) \in {1, 2}
    BY <1>5, <1>12
  <2>3. Levels!Pend(<<p, s>>)
    BY <1>7, <1>8, <1>9, <1>12, <2>1, <2>2 DEF Levels!Pend, Levels!Others, Levels!OsFile, OsFile
  <2> QED
    BY <1>9, <2>3 DEF Levels!Next, Levels!OsFile, OsFile
<1> QED
  BY <1>10, <1>11, <1>12

LEMMA MovesLowers ==
  ASSUME IInv, NEW p \in Proc, NEW s \in Slot, NEW to \in {0, 1}, Lv(p, s) > to,
         Moves(p, s, to, FALSE)
  PROVE  Levels!Next
<1>1. /\ levels' = [levels EXCEPT ![<<p, s>>] = to] /\ <<p, s>> \notin reservers'
      /\ \A f \in OsFile \ {<<p, s>>} : f \in reservers' <=> f \in reservers
  BY MovesMeans
<1>2. reservers' = reservers \ {<<p, s>>}
  <2>1. reservers \subseteq OsFile /\ reservers' \subseteq OsFile
    BY DEF reservers
  <2> QED
    BY <1>1, <2>1
<1>3. levels[<<p, s>>] > to /\ <<p, s>> \in OsFile
  BY LevelOf
<1>4. Levels!Lower(<<p, s>>, to)
  BY <1>1, <1>2, <1>3 DEF Levels!Lower
<1> QED
  BY <1>3, <1>4 DEF Levels!Next, Levels!OsFile, OsFile

LEMMA Unlock2Lowers ==
  ASSUME IInv, NEW p \in Proc, Unlock2(p)
  PROVE  Levels!Next \/ UNCHANGED <<levels, reservers>>
<1>1. Numeric(p) /\ call[p].op = "unlock"
  BY Numbers DEF IInv, Unlock2
<1>2. PICK s \in Slot : s = call[p].slot
  BY <1>1, CallTypes DEF Numeric, Idle
<1>3. Moves(p, s, 0, FALSE)
  BY <1>2, Unlock2IInv
<1>4. Lv(p, s) \in 0..4 /\ Lv(p, s) <= 1
  <2>1. locktype[<<p, s>>] \in 0..4
    BY <1>1 DEF Numeric
  <2>2. Lv(p, s) = IF locktype[<<p, s>>] > 1 THEN 1 ELSE locktype[<<p, s>>]
    BY <1>1, <1>2, LvIs
  <2> QED
    BY <2>1, <2>2
<1>5. CASE Lv(p, s) > 0
  BY <1>3, <1>5, MovesLowers
<1>6. CASE Lv(p, s) = 0
  <2>1. Stays(p)
    BY <1>3, <1>6 DEF Moves, Stays, Rv
  <2> QED
    BY <2>1, StaysMeans
<1> QED
  BY <1>4, <1>5, <1>6

LEMMA ExitCrashes ==
  ASSUME IInv, NEW p \in Proc, Exit(p)
  PROVE  Levels!Next
<1>1. Only(p) /\ \A t \in Slot : Lv(p, t)' = 0
  BY ExitIInv
<1> DEFINE gone == {f \in OsFile : f[1] = p}
<1>2. ASSUME NEW f \in OsFile
      PROVE  /\ Lv(f[1], f[2])' = IF f \in gone THEN 0 ELSE levels[f]
             /\ Rv(f[1], f[2])' <=> f \in reservers \ gone
  <2>1. PICK q \in Proc, t \in Slot : f = <<q, t>>
    BY DEF OsFile
  <2>2. CASE q = p
    BY <1>1, <2>1, <2>2 DEF Rv
  <2>3. CASE q # p
    BY <1>1, <2>1, <2>3, OthersLevels, LevelOf
  <2> QED
    BY <2>2, <2>3
<1>3. levels' = [f \in OsFile |-> IF f \in gone THEN 0 ELSE levels[f]]
  BY <1>2, LevelsNext
<1>4. reservers' = reservers \ gone
  BY <1>2, LevelsNext DEF reservers
<1>5. gone \in SUBSET OsFile
  OBVIOUS
<1> HIDE DEF gone
<1>6. Levels!Crash(gone)
  BY <1>3, <1>4 DEF Levels!Crash, Levels!OsFile, OsFile
<1> QED
  BY <1>5, <1>6 DEF Levels!Next, Levels!OsFile, OsFile

LEMMA StepRefines ==
  IInv /\ [Next]_vars => Levels!Next \/ UNCHANGED <<levels, reservers>>
<1> SUFFICES ASSUME IInv, [Next]_vars
             PROVE  Levels!Next \/ UNCHANGED <<levels, reservers>>
  OBVIOUS
<1>1. ASSUME NEW p \in Proc, Stays(p) PROVE UNCHANGED <<levels, reservers>>
  BY <1>1, StaysMeans
<1>2. ASSUME NEW p \in Proc, NEW s \in Slot, Levels!Share(<<p, s>>) \/ Levels!Reserve(<<p, s>>)
      PROVE  Levels!Next
  BY <1>2 DEF Levels!Next, Levels!OsFile
<1>3. ASSUME NEW p \in Proc, NEW s \in Slot,
             \/ Open(p, s) \/ OpenFails(p, s)
             \/ LockSharedToo(p, s) \/ LockShared(p, s) \/ LockReserved(p, s)
             \/ LockExclusive(p, s) \/ Retry(p, s) \/ UnlockToShared(p, s)
      PROVE  Levels!Next \/ UNCHANGED <<levels, reservers>>
  <2>1. CASE Open(p, s) \/ OpenFails(p, s) \/ LockShared(p, s) \/ LockExclusive(p, s)
             \/ Retry(p, s) \/ UnlockToShared(p, s)
    BY <1>1, <2>1, OpenIInv, OpenFailsIInv, LockSharedIInv, LockExclusiveIInv, UnlockToSharedIInv
  <2>2. CASE LockSharedToo(p, s)
    BY <1>2, <2>2, ShareTooShares
  <2>3. CASE LockReserved(p, s)
    BY <1>2, <2>3, ReservedReserves
  <2> QED
    BY <1>3, <2>1, <2>2, <2>3
<1>4. ASSUME NEW p \in Proc, NEW s \in Slot, NEW close \in BOOLEAN, Unlock(p, s, close)
      PROVE  Levels!Next \/ UNCHANGED <<levels, reservers>>
  <2>1. (Moves(p, s, 1, FALSE) /\ Lv(p, s) > 1) \/ Stays(p)
    BY <1>4, UnlockIInv
  <2> QED
    BY <1>1, <2>1, MovesLowers
<1>5. ASSUME NEW p \in Proc, DropPending(p)
      PROVE  Levels!Next \/ UNCHANGED <<levels, reservers>>
  <2>1. PICK s \in Slot : s = call[p].slot
    BY <1>5, Numbers, CallTypes DEF IInv, Numeric, DropPending, Idle
  <2>2. Moves(p, s, 1, FALSE) \/ Stays(p)
    BY <1>5, <2>1, DropPendingIInv
  <2> QED
    BY <1>1, <1>2, <1>5, <2>2, DropPendingShares
<1>6. ASSUME NEW p \in Proc, Lowered(p) PROVE Levels!Next
  <2>1. PICK s \in Slot : s = call[p].slot
    BY <1>6, Numbers, CallTypes DEF IInv, Numeric, Lowered, Idle
  <2>2. Moves(p, s, 1, FALSE) /\ Lv(p, s) > 1
    BY <1>6, <2>1, LoweredIInv
  <2> QED
    BY <2>2, MovesLowers
<1>7. ASSUME NEW p \in Proc, Advance(p)
      PROVE  Levels!Next \/ UNCHANGED <<levels, reservers>>
  BY <1>1, <1>5, <1>6, <1>7, ReadLockIInv, CloseIInv, ExclusiveExcludes, Unlock2Lowers DEF Advance
<1>8. CASE UNCHANGED vars
  <2>1. \A f \in OsFile : Level(f)' = Level(f)
    BY <1>8 DEF Level, vars
  <2> QED
    BY <1>8, <2>1 DEF levels, reservers, vars
<1> QED
  BY <1>3, <1>4, <1>7, <1>8, ExitCrashes DEF Next

\* The handles of all processes keep the promise of os.h, although POSIX locks belong
\* to processes and a call takes several steps.
THEOREM LocksImplementLevels == Spec => ImplementsFileLock
<1>1. Init => Levels!Init
  <2> SUFFICES ASSUME Init PROVE Levels!Init
    OBVIOUS
  <2>1. \A f \in OsFile : Level(f) = 0
    BY DEF Init, Level, OsFile, Idle
  <2> QED
    BY <2>1 DEF levels, reservers, Levels!Init, Levels!OsFile, OsFile
<1>2. IInv /\ [Next]_vars => [Levels!Next]_(Levels!vars)
  BY StepRefines DEF Levels!vars
<1> QED
  BY <1>1, <1>2, LocksInvariance, PTL DEF Spec, ImplementsFileLock, Levels!Spec

\* Whoever is at RESERVED holds the lock that others are shown.
LEMMA ReservedIsShown == ASSUME IInv, NEW f \in OsFile, Level(f) = 2 PROVE f \in reservers
<1>1. PICK q \in Proc, s \in Slot : f = <<q, s>>
  BY DEF OsFile
<1>2. Local(q)
  BY DEF IInv
<1>3. Lv(q, s) = 2
  BY <1>1 DEF Lv
<1>4. os[q].reserved = 2
  BY <1>2, <1>3 DEF Local, Holds
<1> QED
  BY <1>1, <1>4 DEF reservers

LEMMA ReserversAreSeen ==
  ASSUME IInv, NEW f \in reservers, NEW p \in Proc PROVE CheckReservedLock(p)
<1>1. f \in OsFile /\ Level(f) >= 2 /\ os[f[1]].reserved = 2
  BY DEF reservers
<1>2. PICK q \in Proc, s \in Slot : f = <<q, s>>
  BY <1>1 DEF OsFile
<1>3. os[q].reserved = 2
  BY <1>1, <1>2
<1>4. Local(q)
  BY DEF IInv
<1>5. info[q].locktype > 1
  BY <1>3, <1>4 DEF Local, Holds
<1> QED
  BY <1>3, <1>5 DEF CheckReservedLock, Others

\* Of the steps of FileLock only those that let go take a handle out of the reservers.
LEMMA StaysReserved ==
  ASSUME IInv, [Next]_vars, NEW f \in OsFile, f \in reservers, Level(f)' >= 2
  PROVE  f \in reservers'
<1>1. Levels!Next \/ UNCHANGED <<levels, reservers>>
  BY StepRefines
<1>2. levels'[f] = Level(f)'
  BY DEF levels
<1>3. CASE \E g \in OsFile : Levels!Share(g) \/ Levels!Pend(g) \/ Levels!Exclude(g)
  BY <1>3 DEF Levels!Share, Levels!Pend, Levels!Exclude
<1>4. CASE \E g \in OsFile : Levels!Reserve(g)
  BY <1>4 DEF Levels!Reserve
<1>5. ASSUME NEW g \in OsFile, NEW to \in {0, 1}, Levels!Lower(g, to)
      PROVE  f \in reservers'
  <2>1. levels' = [levels EXCEPT ![g] = to] /\ reservers' = reservers \ {g}
    BY <1>5 DEF Levels!Lower
  <2>2. f # g
    <3>1. levels'[g] = to
      BY <2>1 DEF levels
    <3> QED
      BY <1>2, <3>1
  <2> QED
    BY <2>1, <2>2
<1>6. ASSUME NEW gone \in SUBSET OsFile, Levels!Crash(gone)
      PROVE  f \in reservers'
  <2>1. /\ levels' = [g \in OsFile |-> IF g \in gone THEN 0 ELSE levels[g]]
        /\ reservers' = reservers \ gone
    BY <1>6 DEF Levels!Crash, Levels!OsFile, OsFile, Levels!NO_LOCK
  <2>2. f \notin gone
    BY <1>2, <2>1
  <2> QED
    BY <2>1, <2>2
<1> QED
  BY <1>1, <1>3, <1>4, <1>5, <1>6
     DEF Levels!Next, Levels!OsFile, OsFile, Levels!NO_LOCK, Levels!SHARED_LOCK

\* No living writer is overlooked by a process that finds its journal, from the moment
\* it is at RESERVED until it lets go.
THEOREM WriterAlwaysSeen == Spec => WriterSeen
<1> DEFINE Shown == \A f \in OsFile, p \in Proc :
                      Level(f) = RESERVED_LOCK \/ f \in reservers => CheckReservedLock(p)
           Kept == \A f \in OsFile : /\ Level(f) = RESERVED_LOCK \/ f \in reservers
                                     /\ Level(f)' >= RESERVED_LOCK
                                     => f \in reservers'
<1>1. IInv => Shown
  BY ReservedIsShown, ReserversAreSeen
<1>2. IInv /\ [Next]_vars => Kept
  BY ReservedIsShown, StaysReserved
<1>3. WriterSeen <=> []Shown /\ [][Kept]_vars
  BY DEF WriterSeen
<1> QED
  BY <1>1, <1>2, <1>3, LocksInvariance, PTL DEF Spec
===============================================================================
