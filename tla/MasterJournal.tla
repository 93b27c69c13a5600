----------------------------- MODULE MasterJournal -----------------------------
(***************************************************************************)
(* vdbeaux.c and pager.c: a transaction over several database files is     *)
(* committed by the removal of one more file, the master journal, which    *)
(* the journals of the databases name.  A journal that names a master      *)
(* which does not exist is not played back.                                *)
(*                                                                         *)
(* What the pager does with one file (module Pager) is taken for granted   *)
(* here: one process writes or recovers a database at a time, and a        *)
(* journal on the disk brings the old content back.  Files may be in       *)
(* different directories.                                                  *)
(***************************************************************************)
EXTENDS Integers, Sequences, FiniteSets, TLC

CONSTANTS
  Db,        \* the database files of a connection
  Proc,      \* the processes, each with one connection
  Name,      \* the names random numbers may give to master journals
  MaxTx,     \* bound: transactions, and faults, all processes together
  Risks      \* what callers and the file system may do, a set of:
             \*  "retry"  a commit that was BUSY is tried again
             \*  "lazy"   the file system may bring the removal of a file to
             \*           the disk before what was done to other files earlier

None == "none"   \* no name, no database, no process

ASSUME MasterAssumption ==
  /\ IsFiniteSet(Db) /\ MaxTx \in Nat
  /\ Risks \subseteq {"retry", "lazy"}
  /\ None \notin Db \union Proc \union Name

Tx == 1..MaxTx

VARIABLES
  file,     \* each database file as read() sees it: the transactions it has, and
            \* whether it is whole or has pages of the next one already
  disk,     \* what a power failure may leave of it: a set of these
  jrnl,     \* its journal
  removed,  \* the journal whose removal may not be on the disk
  mj,       \* the master journals
  unlinked, \* those whose removal may not be on the disk
  holder,   \* the process that writes or recovers a database
  h,        \* what each process is doing
  files,    \* history: the databases each transaction changes
  done,     \* history: transactions over several files whose commit has returned
            \* from the sync of the directory
  faults    \* how many crashes and power failures there have been

vars == <<file, disk, jrnl, removed, mj, unlinked, holder, h, files, done, faults>>

dbVars == <<file, disk>>
jrnlVars == <<jrnl, removed>>
masterVars == <<mj, unlinked>>
histVars == <<files, done, faults>>

NoFile == [on |-> FALSE, synced |-> FALSE, master |-> None]

\* A journal: the content it restores, the master it names, whether it is on the
\* disk, whether its records are there (a power failure may have cut it short), and
\* (history) the transaction that wrote it.
NewJournal(c, t) == [on |-> TRUE, old |-> c, master |-> None, synced |-> FALSE, good |-> TRUE, tx |-> t]

Idle == [pc |-> "idle", tx |-> 0, dbs |-> {}, left |-> {}, at |-> None, master |-> None,
         kids |-> {}]

Init ==
  /\ file = [d \in Db |-> [tx |-> {}, whole |-> TRUE]]
  /\ disk = [d \in Db |-> {file[d]}]
  /\ jrnl = [d \in Db |-> NoFile] /\ removed = jrnl
  /\ mj = [n \in Name |-> NoFile] /\ unlinked = mj
  /\ holder = [d \in Db |-> None]
  /\ h = [p \in Proc |-> Idle]
  /\ files = <<>> /\ done = {} /\ faults = 0

Exists(n) == n # None /\ mj[n].on

\* sqlite3OsDelete does not sync the directory.  (A journal that was not synced
\* leaves nothing behind that would change a database.)
DeleteJournal(d) ==
  /\ jrnl' = [jrnl EXCEPT ![d] = NoFile]
  /\ removed' = [removed EXCEPT ![d] = IF jrnl[d].synced THEN jrnl[d] ELSE @]

\* Before the journals that name it (a commit), or after them (they were rolled back).
DeleteMaster(n, commit) ==
  /\ mj' = [mj EXCEPT ![n] = NoFile]
  /\ unlinked' = [unlinked EXCEPT ![n] = [on |-> TRUE, kids |-> mj[n].kids, synced |-> TRUE,
                                         commit |-> commit]]

Ordered == "lazy" \notin Risks

\* A sync brings the removals in one directory to the disk; in a file system that
\* keeps things in order, all removals so far, and what was written before them.
Sync(journals, masters) ==
  /\ removed' = [d \in Db |-> IF Ordered \/ d \in journals THEN NoFile ELSE removed[d]]
  /\ unlinked' = [n \in Name |-> IF Ordered \/ n \in masters THEN NoFile ELSE unlinked[n]]
  /\ disk' = [d \in Db |-> IF Ordered /\ removed[d].on THEN {file[d]} ELSE disk[d]]

Bounded == Len(files) + faults < MaxTx

\* sqlite3Randomness: a name that is in use nowhere, not only one of which there is
\* no file.
Unused(n) ==
  /\ ~mj[n].on /\ ~unlinked[n].on
  /\ \A d \in Db : n \notin {jrnl[d].master, removed[d].master}
  /\ \A p \in Proc : h[p].master # n

-------------------------------------------------------------------------------
(* A transaction, with its journals open, and vdbeCommit.                     *)

\* Of the databases it has write locks on, the transaction changes some.
Begin(p, dbs, changed) ==
  /\ h[p] = Idle /\ Bounded
  /\ \A d \in dbs : holder[d] = None /\ ~jrnl[d].on
  /\ holder' = [d \in Db |-> IF d \in dbs THEN p ELSE holder[d]]
  /\ jrnl' = [d \in Db |-> IF d \in dbs THEN NewJournal(file[d], Len(files) + 1) ELSE jrnl[d]]
  /\ files' = Append(files, changed)
  /\ h' = [h EXCEPT ![p] = [Idle EXCEPT !.pc = "open", !.tx = Len(files) + 1,
                                        !.dbs = dbs, !.left = changed]]
  /\ UNCHANGED <<dbVars, removed, masterVars, done, faults>>

\* One database file: the removal of its journal commits.
CommitOne(p) ==
  /\ h[p].pc = "open" /\ Cardinality(h[p].dbs) = 1
  /\ h' = [h EXCEPT ![p].pc = "next"]
  /\ UNCHANGED <<dbVars, jrnlVars, masterVars, holder, histVars>>

\* Several: a master journal with the names of their journals.
CreateMaster(p, n) ==
  /\ h[p].pc = "open" /\ Cardinality(h[p].dbs) > 1
  /\ Unused(n)
  /\ mj' = [mj EXCEPT ![n] = [on |-> TRUE, kids |-> h[p].dbs, synced |-> FALSE]]
  /\ h' = [h EXCEPT ![p].pc = "master", ![p].master = n]
  /\ UNCHANGED <<dbVars, jrnlVars, unlinked, holder, histVars>>

SyncMaster(p) ==
  /\ h[p].pc = "master"
  /\ mj' = [mj EXCEPT ![h[p].master].synced = TRUE]
  /\ h' = [h EXCEPT ![p].pc = "next"]
  /\ UNCHANGED <<dbVars, jrnlVars, unlinked, holder, histVars>>

(***************************************************************************)
(* sqlite3pager_sync of one database after the other; one without changes, *)
(* or one that was synced in an earlier attempt, is left alone.            *)
(***************************************************************************)

\* writeMasterJournal, unless an earlier attempt wrote a name.
NameJournal(p, d) ==
  /\ h[p].pc = "next" /\ d \in h[p].left
  /\ IF jrnl[d].synced
     THEN h' = [h EXCEPT ![p].pc = "wait", ![p].at = d] /\ jrnl' = jrnl
     ELSE /\ jrnl' = [jrnl EXCEPT ![d].master = h[p].master]
          /\ h' = [h EXCEPT ![p].pc = "journal", ![p].at = d]
  /\ UNCHANGED <<dbVars, removed, masterVars, holder, histVars>>

\* syncJournal, which syncs the directory, too.
SyncJournal(p) ==
  /\ h[p].pc = "journal"
  /\ jrnl' = [jrnl EXCEPT ![h[p].at].synced = TRUE]
  /\ Sync({h[p].at}, {})
  /\ h' = [h EXCEPT ![p].pc = "wait"]
  /\ UNCHANGED <<file, mj, holder, histVars>>

\* A reader stays: vdbeCommit returns, and leaves the master journal where it is.
Busy(p) ==
  /\ h[p].pc = "wait"
  /\ h' = [h EXCEPT ![p].pc = IF "retry" \in Risks THEN "open" ELSE "rollback",
                    ![p].at = None, ![p].master = None]
  /\ UNCHANGED <<dbVars, jrnlVars, masterVars, holder, histVars>>

New(p, d) == [tx |-> file[d].tx \union {h[p].tx}, whole |-> TRUE]

WritePages(p) ==
  /\ h[p].pc = "wait"
  /\ LET d == h[p].at
     IN  /\ file' = [file EXCEPT ![d].whole = FALSE]
         /\ disk' = [disk EXCEPT ![d] = @ \union {file'[d], New(p, d)}]
  /\ h' = [h EXCEPT ![p].pc = "write"]
  /\ UNCHANGED <<jrnlVars, masterVars, holder, histVars>>

SyncFile(p) ==
  /\ h[p].pc = "write"
  /\ LET d == h[p].at
     IN  /\ file' = [file EXCEPT ![d] = New(p, d)]
         /\ disk' = [disk EXCEPT ![d] = {file'[d]}]
         /\ h' = [h EXCEPT ![p].pc = "next", ![p].left = @ \ {d}, ![p].at = None]
  /\ UNCHANGED <<jrnlVars, masterVars, holder, histVars>>

Synced(p) == h[p].pc = "next" /\ h[p].left = {}

NoMaster(p) ==
  /\ Synced(p) /\ h[p].master = None
  /\ h' = [h EXCEPT ![p].pc = "commit"]
  /\ UNCHANGED <<dbVars, jrnlVars, masterVars, holder, histVars>>

\* This commits the transaction.
RemoveMaster(p) ==
  /\ Synced(p) /\ h[p].master # None
  /\ DeleteMaster(h[p].master, TRUE)
  /\ h' = [h EXCEPT ![p].pc = "directory"]
  /\ UNCHANGED <<dbVars, jrnlVars, holder, histVars>>

\* Mutant of SyncDirectory: the directory is not synced.
DirectoryForgotten(p) ==
  /\ h[p].pc = "directory"
  /\ done' = done \union {h[p].tx}
  /\ h' = [h EXCEPT ![p].pc = "commit"]
  /\ UNCHANGED <<dbVars, jrnlVars, masterVars, holder, files, faults>>

SyncDirectory(p) ==
  /\ h[p].pc = "directory"
  /\ Sync({}, {h[p].master})
  /\ done' = done \union {h[p].tx}
  /\ h' = [h EXCEPT ![p].pc = "commit"]
  /\ UNCHANGED <<file, jrnl, mj, holder, files, faults>>

\* What a process does after its journal of d is gone.
Without(r, d, pc) ==
  IF r.dbs = {d} /\ pc # "check" THEN Idle ELSE [r EXCEPT !.pc = pc, !.dbs = r.dbs \ {d}, !.at = None]

\* Mutant of CommitFile: the lock is not given back.
CommitKeepsLock(p, d) ==
  /\ h[p].pc = "commit" /\ d \in h[p].dbs
  /\ DeleteJournal(d)
  /\ h' = [h EXCEPT ![p] = Without(h[p], d, "commit")]
  /\ UNCHANGED <<dbVars, masterVars, holder, histVars>>

\* sqlite3pager_commit
CommitFile(p, d) ==
  /\ h[p].pc = "commit" /\ d \in h[p].dbs
  /\ DeleteJournal(d)
  /\ holder' = [holder EXCEPT ![d] = None]
  /\ h' = [h EXCEPT ![p] = Without(h[p], d, "commit")]
  /\ UNCHANGED <<dbVars, masterVars, histVars>>

-------------------------------------------------------------------------------
(* Rollback of an own transaction, and of the hot journal of a dead process.  *)

Rollback(p) ==
  /\ h[p].pc = "open"
  /\ h' = [h EXCEPT ![p].pc = "rollback", ![p].master = None]
  /\ UNCHANGED <<dbVars, jrnlVars, masterVars, holder, histVars>>

Recover(p, d) ==
  /\ h[p] = Idle
  /\ holder[d] = None /\ jrnl[d].on
  /\ holder' = [holder EXCEPT ![d] = p]
  /\ h' = [h EXCEPT ![p] = [Idle EXCEPT !.pc = "rollback", !.dbs = {d}]]
  /\ UNCHANGED <<dbVars, jrnlVars, masterVars, histVars>>

Unwritten(p) == IF h[p].tx = 0 THEN {} ELSE h[p].left \union (h[p].dbs \ files[h[p].tx])

\* The file was not written to: the journal goes, and with it the name.
ForgetFile(p, d) ==
  /\ h[p].pc = "rollback" /\ d \in h[p].dbs \intersect Unwritten(p)
  /\ DeleteJournal(d)
  /\ holder' = [holder EXCEPT ![d] = None]
  /\ LET r == Without(h[p], d, "rollback")
     IN  h' = [h EXCEPT ![p] = [r EXCEPT !.left = r.left \ {d}]]
  /\ UNCHANGED <<dbVars, masterVars, histVars>>

\* What a write that is not synced may leave on the disk.
Overwritten(c, new) == IF c = {new} THEN c ELSE c \union {new, [new EXCEPT !.whole = FALSE]}

\* pager_playback: a journal whose master is missing is not played back.
Playback(p, d) ==
  /\ h[p].pc = "rollback" /\ d \in h[p].dbs \ Unwritten(p)
  /\ LET n == jrnl[d].master
         play == n = None \/ Exists(n)
     IN  /\ h' = [h EXCEPT ![p].pc = "drop", ![p].at = d, ![p].master = IF play THEN n ELSE None]
         /\ IF play /\ jrnl[d].good
            THEN /\ file' = [file EXCEPT ![d] = jrnl[d].old]
                 /\ disk' = [disk EXCEPT ![d] = Overwritten(@, jrnl[d].old)]
            ELSE UNCHANGED dbVars
  /\ UNCHANGED <<jrnlVars, masterVars, holder, histVars>>

\* pager_unwritelock
DropJournal(p) ==
  /\ h[p].pc = "drop"
  /\ DeleteJournal(h[p].at)
  /\ holder' = [holder EXCEPT ![h[p].at] = None]
  /\ h' = [h EXCEPT ![p] = Without(h[p], h[p].at, IF h[p].master = None THEN "rollback" ELSE "check")]
  /\ UNCHANGED <<dbVars, masterVars, histVars>>

(***************************************************************************)
(* pager_delmaster, without locks on anything: reads the names in the      *)
(* master journal and goes through the journals they name.                 *)
(***************************************************************************)
Return(r) ==
  IF r.dbs = {} THEN Idle
  ELSE [r EXCEPT !.pc = "rollback", !.master = None, !.kids = {}, !.at = None]

OpenMaster(p) ==
  /\ h[p].pc = "check"
  /\ LET n == h[p].master
     IN  h' = IF mj[n].on THEN [h EXCEPT ![p].pc = "kids", ![p].kids = mj[n].kids]
              ELSE [h EXCEPT ![p] = Return(h[p])]
  /\ UNCHANGED <<dbVars, jrnlVars, masterVars, holder, histVars>>

KidExists(p, d) ==
  /\ h[p].pc = "kids" /\ d \in h[p].kids
  /\ h' = IF jrnl[d].on THEN [h EXCEPT ![p].pc = "kid", ![p].at = d]
          ELSE [h EXCEPT ![p].kids = @ \ {d}]
  /\ UNCHANGED <<dbVars, jrnlVars, masterVars, holder, histVars>>

\* Mutant of ReadKid: a journal that names the master does not keep it.
ReadKidAnyName(p) ==
  /\ h[p].pc = "kid"
  /\ LET d == h[p].at
     IN  h' = IF ~jrnl[d].on THEN [h EXCEPT ![p] = Return(h[p])]
              ELSE [h EXCEPT ![p].pc = "kids", ![p].kids = @ \ {d}, ![p].at = None]
  /\ UNCHANGED <<dbVars, jrnlVars, masterVars, holder, histVars>>

\* It may be gone when it is opened: that is an error, and the master stays.
ReadKid(p) ==
  /\ h[p].pc = "kid"
  /\ LET d == h[p].at
     IN  h' = IF ~jrnl[d].on \/ jrnl[d].master = h[p].master THEN [h EXCEPT ![p] = Return(h[p])]
              ELSE [h EXCEPT ![p].pc = "kids", ![p].kids = @ \ {d}, ![p].at = None]
  /\ UNCHANGED <<dbVars, jrnlVars, masterVars, holder, histVars>>

RemoveOrphan(p) ==
  /\ h[p].pc = "kids" /\ h[p].kids = {}
  /\ IF mj[h[p].master].on THEN DeleteMaster(h[p].master, FALSE) ELSE UNCHANGED masterVars
  /\ h' = [h EXCEPT ![p] = Return(h[p])]
  /\ UNCHANGED <<dbVars, jrnlVars, holder, histVars>>

-------------------------------------------------------------------------------
(* Faults.                                                                    *)

\* A process dies.  Only the death of one with a transaction counts.
Crash(p) ==
  /\ h[p] # Idle
  /\ h[p].tx # 0 => Bounded
  /\ faults' = IF h[p].tx # 0 THEN faults + 1 ELSE faults
  /\ h' = [h EXCEPT ![p] = Idle]
  /\ holder' = [d \in Db |-> IF holder[d] = p THEN None ELSE holder[d]]
  /\ UNCHANGED <<dbVars, jrnlVars, masterVars, files, done>>

\* A journal that was not synced: its records may be cut short, its name may be missing.
Torn(J) ==
  [on : {TRUE}, old : {J.old}, master : {None, J.master}, synced : {TRUE}, good : BOOLEAN, tx : {J.tx}]

\* What the disk may hold of the journal of d, and of a master journal.
JournalsLeft(d) ==
  IF jrnl[d].on /\ jrnl[d].synced THEN {jrnl[d]}
  ELSE {NoFile, removed[d]} \union (IF jrnl[d].on THEN Torn(jrnl[d]) ELSE {})

MastersLeft(n) ==
  IF ~mj[n].on THEN {NoFile, unlinked[n]}
  ELSE IF mj[n].synced THEN {mj[n]}
  ELSE {NoFile} \union {[mj[n] EXCEPT !.synced = TRUE, !.kids = kids] : kids \in SUBSET mj[n].kids}

Choices(S, left(_)) == {f \in [S -> UNION {left(x) : x \in S}] : \A x \in S : f[x] \in left(x)}

\* In order: with the removal of a journal, what was written to the database before
\* is on the disk, and the removal of the master before it; with the removal of a
\* master after its journals, what these brought back.
InOrder(f, j, m) ==
  \A d \in Db : removed[d].on =>
    LET n == removed[d].master
        gone == j[d] # removed[d]
        unsure == n # None /\ unlinked[n].on
    IN  /\ gone => f[d] = file[d]
        /\ unsure /\ unlinked[n].commit /\ gone => ~m[n].on
        /\ unsure /\ ~unlinked[n].commit /\ ~m[n].on => f[d] = file[d]

PowerFailure ==
  /\ Bounded
  /\ faults' = faults + 1
  /\ \E f \in Choices(Db, LAMBDA d : disk[d]), j \in Choices(Db, JournalsLeft),
        m \in Choices(Name, MastersLeft) :
       /\ Ordered => InOrder(f, j, m)
       /\ file' = f /\ disk' = [d \in Db |-> {f[d]}]
       /\ jrnl' = j /\ mj' = m
  /\ removed' = [d \in Db |-> NoFile] /\ unlinked' = [n \in Name |-> NoFile]
  /\ holder' = [d \in Db |-> None]
  /\ h' = [p \in Proc |-> Idle]
  /\ UNCHANGED <<files, done>>

-------------------------------------------------------------------------------
Step(p) ==
  \/ \E dbs \in (SUBSET Db) \ {{}} : \E changed \in (SUBSET dbs) \ {{}} : Begin(p, dbs, changed)
  \/ CommitOne(p) \/ SyncMaster(p) \/ \E n \in Name : CreateMaster(p, n)
  \/ SyncJournal(p) \/ Busy(p) \/ WritePages(p) \/ SyncFile(p)
  \/ NoMaster(p) \/ RemoveMaster(p) \/ SyncDirectory(p)
  \/ \E d \in Db : NameJournal(p, d) \/ CommitFile(p, d) \/ ForgetFile(p, d) \/ Playback(p, d)
                     \/ Recover(p, d) \/ KidExists(p, d)
  \/ Rollback(p) \/ DropJournal(p) \/ OpenMaster(p) \/ ReadKid(p) \/ RemoveOrphan(p)
  \/ Crash(p)

\* The bound is reached, all is committed or recovered: the only way to stop.
Quiet ==
  /\ ~Bounded
  /\ \A p \in Proc : h[p] = Idle
  /\ \A d \in Db : ~jrnl[d].on
  /\ UNCHANGED vars

Next == (\E p \in Proc : Step(p)) \/ PowerFailure \/ Quiet

Spec == Init /\ [][Next]_vars

-------------------------------------------------------------------------------
\* Types, and who holds which database for what.
TypeOK ==
  /\ \A d \in Db : file[d].tx \subseteq Tx /\ file[d] \in disk[d]
  /\ \A d \in Db : holder[d] # None => d \in h[holder[d]].dbs
  /\ \A p \in Proc : /\ h[p].left \subseteq h[p].dbs
                     /\ \A d \in h[p].dbs : holder[d] = p /\ jrnl[d].on
  /\ \A n \in Name : mj[n].on => mj[n].kids \subseteq Db

\* What a database contains once it was recovered.
Content(d) ==
  IF jrnl[d].on /\ jrnl[d].good /\ (jrnl[d].master = None \/ Exists(jrnl[d].master))
  THEN jrnl[d].old ELSE file[d]

\* "To ensure the transaction is committed atomicly" (vdbeaux.c:961): at any moment,
\* and whatever has crashed before, the databases once recovered are whole, and all
\* of those a transaction changed have it, or none.
AllOrNone ==
  /\ \A d \in Db : Content(d).whole
  /\ \A t \in 1..Len(files) : \A d, e \in files[t] : t \in Content(d).tx => t \in Content(e).tx

\* Once the removal of the master journal is on the disk (vdbeaux.c:1059), the
\* transaction stays, in all its databases, and no recovery or failure takes it back.
\* This is a promise for several databases only: that of one is over when its journal
\* is removed, which nobody syncs, and a power failure may take it back.
CommitStays == \A t \in done : \A d \in files[t] : t \in Content(d).tx

===============================================================================
