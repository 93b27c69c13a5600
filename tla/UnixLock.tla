------------------------------- MODULE UnixLock -------------------------------
(***************************************************************************)
(* os_unix.c: the levels of os.h made of POSIX advisory locks on three     *)
(* ranges of the database file.  POSIX locks belong to the process, not to *)
(* the file handle: a second handle of a process does not conflict with    *)
(* the first, and closing any handle drops all locks of the process.  The  *)
(* lockInfo and openCnt structures, one of each per process and file, make *)
(* up for that.                                                            *)
(*                                                                         *)
(* A process is in one call at a time (the library is built without        *)
(* THREADSAFE); between processes every fcntl is a step of its own.  A call *)
(* that is refused before it has changed anything is not a step.           *)
(***************************************************************************)
EXTENDS Integers, FiniteSets

CONSTANTS Proc,       \* the processes
          Slot,       \* the handles each of them may have open
          MaxPending  \* bound: closes of a process that may be waiting

ASSUME UnixLockAssumption == IsFiniteSet(Slot) /\ MaxPending \in Nat

OsFile == Proc \X Slot

NO_LOCK == 0
SHARED_LOCK == 1
RESERVED_LOCK == 2
PENDING_LOCK == 3
EXCLUSIVE_LOCK == 4

\* What a process may hold on a range, F_WRLCK alone excluding other processes.
F_UNLCK == 0
F_RDLCK == 1
F_WRLCK == 2

VARIABLES
  isOpen,     \* OsFile: the handle is open
  locktype,   \* OsFile: its level
  info,       \* of each process: cnt and locktype of lockInfo, nLock and
              \* nPending of openCnt
  os,         \* what each process holds on the pending byte, the reserved byte
              \* and the shared bytes
  call        \* the call a process is in, and how far it has got

vars == <<isOpen, locktype, info, os, call>>

Idle == [op |-> "none"]

Unlocked == [cnt |-> 0, locktype |-> NO_LOCK, nLock |-> 0, nPending |-> 0]

Nothing == [pending |-> F_UNLCK, reserved |-> F_UNLCK, shared |-> F_UNLCK]

Init ==
  /\ isOpen = [f \in OsFile |-> FALSE]
  /\ locktype = [f \in OsFile |-> NO_LOCK]
  /\ info = [p \in Proc |-> Unlocked]
  /\ os = [p \in Proc |-> Nothing]
  /\ call = [p \in Proc |-> Idle]

Others(p) == Proc \ {p}

\* fcntl(F_SETLK) of a kind of lock on a range is granted.
Grantable(p, range, kind) ==
  \A q \in Others(p) : os[q][range] + kind <= F_WRLCK /\ os[q][range] # F_WRLCK

\* A handle begins a call.
Ready(p, s) == call[p] = Idle /\ isOpen[<<p, s>>]

-------------------------------------------------------------------------------
(* sqlite3OsOpenReadWrite, findLockInfo.                                      *)

Open(p, s) ==
  /\ call[p] = Idle /\ ~isOpen[<<p, s>>]
  /\ info[p].nPending < MaxPending
  /\ isOpen' = [isOpen EXCEPT ![<<p, s>>] = TRUE]
  /\ UNCHANGED <<locktype, info, os, call>>

\* There is no memory for lockInfo or openCnt, which the process does not have
\* yet: the file is closed again, and that drops what the process has locked.
OpenFails(p, s) ==
  /\ call[p] = Idle
  /\ \A t \in Slot : ~isOpen[<<p, t>>]
  /\ os' = [os EXCEPT ![p] = Nothing]
  /\ UNCHANGED <<isOpen, locktype, info, call>>

-------------------------------------------------------------------------------
(* sqlite3OsLock.                                                             *)

\* Another handle of the process precludes the request.
Precluded(p, s, wanted) ==
  /\ locktype[<<p, s>>] # info[p].locktype
  /\ info[p].locktype >= PENDING_LOCK \/ wanted > SHARED_LOCK

\* Another handle of the process has the lock already.
LockSharedToo(p, s) ==
  /\ Ready(p, s) /\ locktype[<<p, s>>] = NO_LOCK
  /\ ~Precluded(p, s, SHARED_LOCK)
  /\ info[p].locktype \in {SHARED_LOCK, RESERVED_LOCK}
  /\ locktype' = [locktype EXCEPT ![<<p, s>>] = SHARED_LOCK]
  /\ info' = [info EXCEPT ![p].cnt = @ + 1, ![p].nLock = @ + 1]
  /\ UNCHANGED <<isOpen, os, call>>

\* Mutant of LockShared: the pending byte is not looked at.
LockSharedUnasked(p, s) ==
  /\ Ready(p, s) /\ locktype[<<p, s>>] = NO_LOCK
  /\ info[p].locktype = NO_LOCK
  /\ call' = [call EXCEPT ![p] = [op |-> "shared", slot |-> s]]
  /\ UNCHANGED <<isOpen, locktype, info, os>>

\* A read lock on the pending byte, which a writer may be holding, ...
LockShared(p, s) ==
  /\ Ready(p, s) /\ locktype[<<p, s>>] = NO_LOCK
  /\ info[p].locktype = NO_LOCK
  /\ Grantable(p, "pending", F_RDLCK)
  /\ os' = [os EXCEPT ![p].pending = F_RDLCK]
  /\ call' = [call EXCEPT ![p] = [op |-> "shared", slot |-> s]]
  /\ UNCHANGED <<isOpen, locktype, info>>

\* ... then one on the shared bytes ...
ReadLock(p) ==
  /\ call[p].op = "shared"
  /\ LET ok == Grantable(p, "shared", F_RDLCK)
     IN  /\ os' = IF ok THEN [os EXCEPT ![p].shared = F_RDLCK] ELSE os
         /\ call' = [call EXCEPT ![p] = [op |-> "drop", slot |-> @.slot, ok |-> ok]]
  /\ UNCHANGED <<isOpen, locktype, info>>

\* ... and the pending byte is free again.
DropPending(p) ==
  /\ call[p].op = "drop"
  /\ os' = [os EXCEPT ![p].pending = F_UNLCK]
  /\ IF call[p].ok
     THEN /\ locktype' = [locktype EXCEPT ![<<p, call[p].slot>>] = SHARED_LOCK]
          /\ info' = [info EXCEPT ![p].cnt = 1, ![p].nLock = @ + 1, ![p].locktype = SHARED_LOCK]
     ELSE UNCHANGED <<locktype, info>>
  /\ call' = [call EXCEPT ![p] = Idle]
  /\ UNCHANGED isOpen

LockReserved(p, s) ==
  /\ Ready(p, s) /\ locktype[<<p, s>>] = SHARED_LOCK
  /\ ~Precluded(p, s, RESERVED_LOCK)
  /\ Grantable(p, "reserved", F_WRLCK)
  /\ os' = [os EXCEPT ![p].reserved = F_WRLCK]
  /\ locktype' = [locktype EXCEPT ![<<p, s>>] = RESERVED_LOCK]
  /\ info' = [info EXCEPT ![p].locktype = RESERVED_LOCK]
  /\ UNCHANGED <<isOpen, call>>

\* PENDING on the way to EXCLUSIVE.
LockExclusive(p, s) ==
  /\ Ready(p, s) /\ locktype[<<p, s>>] \in {SHARED_LOCK, RESERVED_LOCK}
  /\ ~Precluded(p, s, EXCLUSIVE_LOCK)
  /\ Grantable(p, "pending", F_WRLCK)
  /\ os' = [os EXCEPT ![p].pending = F_WRLCK]
  /\ call' = [call EXCEPT ![p] = [op |-> "exclusive", slot |-> s]]
  /\ UNCHANGED <<isOpen, locktype, info>>

\* PENDING already: the busy handler tries again.
Retry(p, s) ==
  /\ Ready(p, s) /\ locktype[<<p, s>>] = PENDING_LOCK
  /\ ~Precluded(p, s, EXCLUSIVE_LOCK)
  /\ call' = [call EXCEPT ![p] = [op |-> "exclusive", slot |-> s]]
  /\ UNCHANGED <<isOpen, locktype, info, os>>

\* Mutant of ExclusiveOrPending: other readers of the same process are not counted.
ExclusiveUncounted(p) ==
  /\ call[p].op = "exclusive"
  /\ LET ok == Grantable(p, "shared", F_WRLCK)
         level == IF ok THEN EXCLUSIVE_LOCK ELSE PENDING_LOCK
     IN  /\ os' = IF ok THEN [os EXCEPT ![p].shared = F_WRLCK] ELSE os
         /\ locktype' = [locktype EXCEPT ![<<p, call[p].slot>>] = level]
         /\ info' = [info EXCEPT ![p].locktype = level]
  /\ call' = [call EXCEPT ![p] = Idle]
  /\ UNCHANGED isOpen

\* The write lock on the shared bytes, if nobody reads, in this process or another.
ExclusiveOrPending(p) ==
  /\ call[p].op = "exclusive"
  /\ LET ok == info[p].cnt <= 1 /\ Grantable(p, "shared", F_WRLCK)
         level == IF ok THEN EXCLUSIVE_LOCK ELSE PENDING_LOCK
     IN  /\ os' = IF ok THEN [os EXCEPT ![p].shared = F_WRLCK] ELSE os
         /\ locktype' = [locktype EXCEPT ![<<p, call[p].slot>>] = level]
         /\ info' = [info EXCEPT ![p].locktype = level]
  /\ call' = [call EXCEPT ![p] = Idle]
  /\ UNCHANGED isOpen

-------------------------------------------------------------------------------
(* sqlite3OsUnlock and sqlite3OsClose.                                        *)

\* Back to SHARED: first the shared bytes, or a writer could come between.
UnlockToShared(p, s) ==
  /\ Ready(p, s) /\ locktype[<<p, s>>] > SHARED_LOCK
  /\ os' = [os EXCEPT ![p].shared = F_RDLCK]
  /\ call' = [call EXCEPT ![p] = [op |-> "lower", slot |-> s]]
  /\ UNCHANGED <<isOpen, locktype, info>>

Lowered(p) ==
  /\ call[p].op = "lower"
  /\ os' = [os EXCEPT ![p].pending = F_UNLCK, ![p].reserved = F_UNLCK]
  /\ info' = [info EXCEPT ![p].locktype = SHARED_LOCK]
  /\ locktype' = [locktype EXCEPT ![<<p, call[p].slot>>] = SHARED_LOCK]
  /\ call' = [call EXCEPT ![p] = Idle]
  /\ UNCHANGED isOpen

\* To NO_LOCK, for itself or for a close.
Unlock(p, s, close) ==
  /\ Ready(p, s)
  /\ locktype[<<p, s>>] > NO_LOCK \/ close
  /\ call' = [call EXCEPT ![p] = [op |-> "unlock", slot |-> s, close |-> close]]
  /\ IF locktype[<<p, s>>] > SHARED_LOCK
     THEN /\ os' = [os EXCEPT ![p].pending = F_UNLCK, ![p].reserved = F_UNLCK]
          /\ info' = [info EXCEPT ![p].locktype = SHARED_LOCK]
     ELSE UNCHANGED <<os, info>>
  /\ UNCHANGED <<isOpen, locktype>>

\* Mutant of Unlock2: closes that wait are forgotten.
UnlockKeepsPending(p) ==
  /\ call[p].op = "unlock"
  /\ LET f == <<p, call[p].slot>>
         cnt == info[p].cnt - 1
     IN  /\ IF locktype[f] = NO_LOCK
            THEN UNCHANGED <<os, info>>
            ELSE /\ os' = IF cnt = 0 THEN [os EXCEPT ![p] = Nothing] ELSE os
                 /\ info' = [info EXCEPT ![p].cnt = cnt, ![p].nLock = @ - 1,
                               ![p].locktype = IF cnt = 0 THEN NO_LOCK ELSE @]
         /\ locktype' = [locktype EXCEPT ![f] = NO_LOCK]
  /\ call' = [call EXCEPT ![p] = IF @.close THEN [op |-> "close", slot |-> @.slot] ELSE Idle]
  /\ UNCHANGED isOpen

\* The last reader of the process drops all locks, and then the handles whose close
\* had to wait are closed.
Unlock2(p) ==
  /\ call[p].op = "unlock"
  /\ LET f == <<p, call[p].slot>>
         cnt == info[p].cnt - 1
         nLock == info[p].nLock - 1
     IN  /\ IF locktype[f] = NO_LOCK
            THEN UNCHANGED <<os, info>>
            ELSE /\ os' = IF cnt = 0 THEN [os EXCEPT ![p] = Nothing] ELSE os
                 /\ info' = [info EXCEPT ![p].cnt = cnt, ![p].nLock = nLock,
                               ![p].locktype = IF cnt = 0 THEN NO_LOCK ELSE @,
                               ![p].nPending = IF nLock = 0 THEN 0 ELSE @]
         /\ locktype' = [locktype EXCEPT ![f] = NO_LOCK]
  /\ call' = [call EXCEPT ![p] = IF @.close THEN [op |-> "close", slot |-> @.slot] ELSE Idle]
  /\ UNCHANGED isOpen

\* Mutant of Close: the file is closed at once.
CloseAtOnce(p) ==
  /\ call[p].op = "close"
  /\ os' = [os EXCEPT ![p] = Nothing]
  /\ isOpen' = [isOpen EXCEPT ![<<p, call[p].slot>>] = FALSE]
  /\ call' = [call EXCEPT ![p] = Idle]
  /\ UNCHANGED <<locktype, info>>

\* close() would drop the locks of the other handles: it has to wait for them.
Close(p) ==
  /\ call[p].op = "close"
  /\ IF info[p].nLock > 0
     THEN info' = [info EXCEPT ![p].nPending = @ + 1] /\ os' = os
     ELSE os' = [os EXCEPT ![p] = Nothing] /\ info' = info
  /\ isOpen' = [isOpen EXCEPT ![<<p, call[p].slot>>] = FALSE]
  /\ call' = [call EXCEPT ![p] = Idle]
  /\ UNCHANGED locktype

\* The process ends, by itself or not.
Exit(p) ==
  /\ isOpen' = [f \in OsFile |-> f[1] # p /\ isOpen[f]]
  /\ locktype' = [f \in OsFile |-> IF f[1] = p THEN NO_LOCK ELSE locktype[f]]
  /\ info' = [info EXCEPT ![p] = Unlocked]
  /\ os' = [os EXCEPT ![p] = Nothing]
  /\ call' = [call EXCEPT ![p] = Idle]

-------------------------------------------------------------------------------
Advance(p) ==
  ReadLock(p) \/ DropPending(p) \/ ExclusiveOrPending(p) \/ Lowered(p) \/ Unlock2(p) \/ Close(p)

Next ==
  \E p \in Proc :
    \/ \E s \in Slot :
         \/ Open(p, s) \/ OpenFails(p, s)
         \/ LockSharedToo(p, s) \/ LockShared(p, s) \/ LockReserved(p, s)
         \/ LockExclusive(p, s) \/ Retry(p, s)
         \/ UnlockToShared(p, s) \/ \E close \in BOOLEAN : Unlock(p, s, close)
    \/ Advance(p)
    \/ Exit(p)

Spec == Init /\ [][Next]_vars

\* A call ends; a statement that reads, or that could not become a writer, ends; and
\* the busy handler of the one that waits goes on trying.
FairSpec ==
  /\ Spec
  /\ \A p \in Proc : WF_vars(Advance(p))
  /\ \A p \in Proc, s \in Slot :
       /\ SF_vars(locktype[<<p, s>>] \in {SHARED_LOCK, RESERVED_LOCK} /\ Unlock(p, s, FALSE))
       /\ SF_vars(Retry(p, s))

-------------------------------------------------------------------------------
\* Types, and who may be in which call.
TypeOK ==
  /\ isOpen \in [OsFile -> BOOLEAN]
  /\ locktype \in [OsFile -> NO_LOCK..EXCLUSIVE_LOCK]
  /\ info \in [Proc -> [cnt : Nat, locktype : NO_LOCK..EXCLUSIVE_LOCK, nLock : Nat, nPending : Nat]]
  /\ os \in [Proc -> [pending : {F_UNLCK, F_RDLCK, F_WRLCK}, reserved : {F_UNLCK, F_WRLCK},
                      shared : {F_UNLCK, F_RDLCK, F_WRLCK}]]
  /\ \A p \in Proc :
       call[p].op \in {"none", "shared", "drop", "exclusive", "lower", "unlock", "close"}

\* While a handle is being unlocked it has lost its lock on the pending and the
\* reserved bytes already.
Level(f) ==
  IF call[f[1]].op = "unlock" /\ call[f[1]].slot = f[2] /\ locktype[f] > SHARED_LOCK
  THEN SHARED_LOCK ELSE locktype[f]

\* A handle never believes it has a lock that its process does not hold: in spite
\* of what closing, unlocking or locking another handle of the process does.
Backed ==
  \A p \in Proc, s \in Slot :
    LET level == Level(<<p, s>>)
    IN  /\ level > NO_LOCK => os[p].shared # F_UNLCK /\ isOpen[<<p, s>>]
        /\ level = RESERVED_LOCK => os[p].reserved = F_WRLCK
        /\ level >= PENDING_LOCK => os[p].pending = F_WRLCK
        /\ level = EXCLUSIVE_LOCK => os[p].shared = F_WRLCK \/ call[p].op = "lower"

\* Mutant of CheckReservedLock: only the operating system is asked.
CheckReservedByOs(p) == \E q \in Others(p) : os[q].reserved = F_WRLCK

\* sqlite3OsCheckReservedLock
CheckReservedLock(p) ==
  info[p].locktype > SHARED_LOCK \/ \E q \in Others(p) : os[q].reserved = F_WRLCK

\* A close is put off only while the process has locks on the file to lose: no file
\* descriptor is left behind when the last one clears.
ClosesComplete == \A p \in Proc : info[p].nPending > 0 => info[p].nLock > 0

\* The levels and the RESERVED locks of all handles, as FileLock has them.
levels == [f \in OsFile |-> Level(f)]
reservers == {f \in OsFile : Level(f) >= RESERVED_LOCK /\ os[f[1]].reserved = F_WRLCK}

\* Nobody takes the journal of a living writer for a hot one.  Every handle of every
\* process sees a RESERVED lock, in its own process or another, and goes on seeing it
\* when it becomes PENDING and EXCLUSIVE, until the writer lets go.  (Who recovers a
\* hot journal goes from SHARED to EXCLUSIVE without ever being seen.)
WriterSeen ==
  /\ [](\A f \in OsFile, p \in Proc :
         Level(f) = RESERVED_LOCK \/ f \in reservers => CheckReservedLock(p))
  /\ [][\A f \in OsFile :
          /\ Level(f) = RESERVED_LOCK \/ f \in reservers
          /\ Level(f)' >= RESERVED_LOCK
          => f \in reservers']_vars

Levels == INSTANCE FileLock WITH lock <- levels, reserved <- reservers

\* The locks keep the promise of os.h among all handles of all processes.
ImplementsFileLock == Levels!Spec

\* A writer that waits for readers gets in, unless processes that read already go on
\* opening the file through one handle before they have left it through another.
WriterGetsIn ==
  <>[][\A p \in Proc, s \in Slot : ~LockSharedToo(p, s)]_vars =>
    \A f \in OsFile : locktype[f] = PENDING_LOCK ~> locktype[f] # PENDING_LOCK
===============================================================================
