-------------------------- MODULE MasterJournalProofs --------------------------
(***************************************************************************)
(* Theorems about MasterJournal for any databases, processes, names and    *)
(* number of transactions: where removals reach the disk in order and a    *)
(* commit that was BUSY is rolled back, a transaction over several         *)
(* databases is committed in all of them or in none, and what was          *)
(* committed stays.                                                        *)
(***************************************************************************)
EXTENDS MasterJournal, FiniteSetTheorems, TLAPS

-----------------------------------------------------------------------------
(* Types.                                                                   *)

Begun == 1..Len(files)

Version == [tx : SUBSET Begun, whole : BOOLEAN]

Journal == [on : {TRUE}, old : Version, master : Name \union {None},
            synced : BOOLEAN, good : BOOLEAN, tx : Begun]

Committing == {"open", "master", "next", "journal", "wait", "write"}
Finishing == {"directory", "commit"}
Undoing == {"rollback", "drop", "check", "kids", "kid"}

Handle == [pc : {"idle"} \union Committing \union Finishing \union Undoing,
           tx : {0} \union Begun, dbs : SUBSET Db, left : SUBSET Db, at : Db \union {None},
           master : Name \union {None}, kids : SUBSET Db]

\* A removed master journal is remembered with the reason; if a power failure undoes that,
\* it is a master journal again.
Removed == [on : {TRUE}, kids : SUBSET Db, synced : {TRUE}, commit : BOOLEAN]
MasterFile == [on : {TRUE}, kids : SUBSET Db, synced : BOOLEAN] \union Removed \union {NoFile}

Types ==
  /\ files \in Seq(SUBSET Db) /\ done \subseteq Begun
  /\ faults \in Nat /\ Len(files) + faults <= MaxTx
  /\ file \in [Db -> Version] /\ disk \in [Db -> SUBSET Version]
  /\ \A d \in Db : file[d] \in disk[d]
  /\ jrnl \in [Db -> Journal \union {NoFile}] /\ removed \in [Db -> Journal \union {NoFile}]
  /\ mj \in [Name -> MasterFile] /\ unlinked \in [Name -> Removed \union {NoFile}]
  /\ holder \in [Db -> Proc \union {None}]
  /\ h \in [Proc -> Handle]

\* A process holds the databases of its transaction, and no two have the same one.
Holding ==
  /\ \A p \in Proc : \A d \in Db : d \in h[p].dbs <=> holder[d] = p
  /\ \A p \in Proc : \A d \in h[p].dbs : jrnl[d].on
  /\ \A p, q \in Proc : p # q /\ h[p].tx # 0 => h[p].tx # h[q].tx

-----------------------------------------------------------------------------
(* Journals and databases.                                                  *)

\* The database has the transaction of journal J, all of it and on the disk.
Has(J, d) ==
  file[d] = [tx |-> J.old.tx \union {J.tx}, whole |-> TRUE] /\ disk[d] = {file[d]}

\* The journal would be played back.
Hot(d) ==
  /\ jrnl[d].on /\ jrnl[d].synced /\ jrnl[d].good
  /\ jrnl[d].master = None \/ Exists(jrnl[d].master)

\* What is not on the disk can be brought back by a journal.
Settled(d) == ~removed[d].on /\ ~Hot(d) => disk[d] = {file[d]}

\* Before its journal is synced a database is not written to, and its master is there.
Unsynced(d) ==
  jrnl[d].on /\ ~jrnl[d].synced =>
    /\ jrnl[d].good /\ jrnl[d].old = file[d]
    /\ jrnl[d].master # None => mj[jrnl[d].master].on

\* A journal brings back a whole database without its own transaction, which its master lists.
Old(J, d) ==
  J.on =>
    /\ J.old.whole /\ J.tx \notin J.old.tx
    /\ J.master # None =>
         /\ mj[J.master].on => mj[J.master].synced /\ d \in mj[J.master].kids
         /\ unlinked[J.master].on => d \in unlinked[J.master].kids

\* A journal whose removal may be undone: it was played back, or it committed its database
\* alone; with a master, only the master may commit.
Undoable(d) ==
  LET R == removed[d]  n == removed[d].master
  IN  R.on =>
        /\ R.synced /\ ~(jrnl[d].on /\ jrnl[d].synced)
        /\ ~R.good => disk[d] = {file[d]}
        /\ R.good /\ n = None =>
             \/ file[d] = R.old
             \/ Has(R, d) /\ files[R.tx] = {d} /\ R.tx \notin done
        /\ R.good /\ n # None =>
             /\ mj[n].on \/ (unlinked[n].on /\ ~unlinked[n].commit) => file[d] = R.old
             /\ ~mj[n].on /\ ~unlinked[n].on => disk[d] = {file[d]}

\* A master journal whose removal may be undone: if it committed, all databases its
\* transaction changed have a journal that names it.
Committed(n) ==
  unlinked[n].on /\ unlinked[n].commit =>
    \A d \in Db : \A J \in {jrnl[d], removed[d]} :
      J.master = n =>
        /\ Has(J, d) /\ J.good /\ J.tx \notin done
        /\ \A e \in files[J.tx] : \E K \in {jrnl[e], removed[e]} : K.master = n /\ K.tx = J.tx

\* If it did not, no journal names it.
Orphaned(n) ==
  unlinked[n].on /\ ~unlinked[n].commit => \A d \in Db : jrnl[d].master # n

Database(d) == Settled(d) /\ Unsynced(d) /\ Old(jrnl[d], d) /\ Old(removed[d], d) /\ Undoable(d)

Master(n) == ~(mj[n].on /\ unlinked[n].on) /\ Committed(n) /\ Orphaned(n)

-----------------------------------------------------------------------------
(* Processes.                                                               *)

IdleOK(p) == h[p].pc = "idle" => h[p] = Idle

\* A transaction on its way to its commit: what it has written so far, in which order.
CommitsOK(p) ==
  LET r == h[p]
  IN  r.pc \in Committing =>
        /\ r.tx # 0 /\ r.tx \notin done
        /\ files[r.tx] # {} /\ files[r.tx] \subseteq r.dbs /\ r.left \subseteq files[r.tx]
        /\ \A d \in r.dbs : jrnl[d].tx = r.tx /\ jrnl[d].good
        /\ \A d \in r.dbs \ (files[r.tx] \ r.left) :
             d # r.at => ~jrnl[d].synced /\ jrnl[d].master = None
        /\ \A d \in files[r.tx] \ r.left :
             jrnl[d].synced /\ jrnl[d].master = r.master /\ Has(jrnl[d], d)
        /\ r.pc \in {"open", "master"} => r.left = files[r.tx]
        /\ r.pc \in {"open", "master", "next"} => r.at = None
        /\ r.pc = "open" => r.master = None
        /\ r.pc = "master" => r.master # None
        /\ r.pc # "open" /\ r.master = None => \E d \in Db : r.dbs = {d}

\* The database that is being written.
WritesOK(p) ==
  LET r == h[p]  d == h[p].at
  IN  r.pc \in {"journal", "wait", "write"} =>
        /\ d \in r.left /\ jrnl[d].master = r.master
        /\ r.pc = "journal" => ~jrnl[d].synced
        /\ r.pc \in {"wait", "write"} => jrnl[d].synced
        /\ r.pc = "wait" => file[d] = jrnl[d].old /\ disk[d] = {file[d]}
        /\ r.pc = "write" => file[d].tx = jrnl[d].old.tx

\* Until its transaction is committed, nobody else has to do with its master journal.
OwnsMaster(p) ==
  LET r == h[p]  n == h[p].master
  IN  r.pc \in Committing /\ n # None =>
        /\ mj[n].on /\ mj[n].kids = r.dbs
        /\ r.pc # "master" => mj[n].synced
        /\ \A q \in Proc : q # p => h[q].master # n
        /\ \A d \in Db : removed[d].master # n /\ (jrnl[d].master = n => d \in r.dbs)

\* A committed transaction whose journals are being removed.
FinishesOK(p) ==
  LET r == h[p]
  IN  r.pc \in Finishing =>
        /\ r.tx # 0 /\ r.left = {} /\ r.dbs # {} /\ files[r.tx] # {}
        /\ \A d \in r.dbs : jrnl[d].tx = r.tx /\ jrnl[d].good
        /\ \A d \in r.dbs \intersect files[r.tx] :
             jrnl[d].synced /\ jrnl[d].master = r.master /\ Has(jrnl[d], d)
        /\ \A d \in r.dbs \ files[r.tx] : ~jrnl[d].synced
        /\ r.pc = "directory" => r.master # None /\ files[r.tx] \subseteq r.dbs /\ r.tx \notin done
        /\ r.master # None => ~mj[r.master].on
        /\ r.pc = "commit" /\ r.master # None => ~unlinked[r.master].on
        /\ r.master = None => files[r.tx] = r.dbs /\ r.tx \notin done /\ \E d \in Db : r.dbs = {d}

\* A rollback, with what pager_delmaster has seen so far.
UndoesOK(p) ==
  LET r == h[p]  n == h[p].master
  IN  r.pc \in Undoing =>
        /\ r.left \subseteq r.dbs /\ (r.tx = 0 => r.left = {})
        /\ r.pc \in {"rollback", "drop"} => r.dbs # {}
        /\ \A d \in r.dbs \intersect Unwritten(p) :
             jrnl[d].synced => file[d] = jrnl[d].old /\ disk[d] = {file[d]}
        /\ r.pc = "drop" => /\ r.at \in r.dbs \ Unwritten(p)
                            /\ Hot(r.at) => file[r.at] = jrnl[r.at].old
        /\ r.pc \in {"check", "kids", "kid"} => n # None
        /\ r.pc = "kid" => r.at \in Db
        /\ r.pc \in {"kids", "kid"} /\ mj[n].on =>
             \A d \in mj[n].kids \ r.kids : jrnl[d].master # n

Process(p) ==
  IdleOK(p) /\ CommitsOK(p) /\ WritesOK(p) /\ OwnsMaster(p) /\ FinishesOK(p) /\ UndoesOK(p)

IInv ==
  /\ Types /\ Holding
  /\ \A d \in Db : Database(d)
  /\ \A n \in Name : Master(n)
  /\ \A p \in Proc : Process(p)
  /\ AllOrNone /\ CommitStays

-----------------------------------------------------------------------------
(* Records.                                                                 *)

\* What is not a file has no name and is not on the disk; idle processes have nothing.
LEMMA Nothing ==
  /\ NoFile.on = FALSE /\ NoFile.synced = FALSE /\ NoFile.master = None
  /\ Idle.pc = "idle" /\ Idle.tx = 0 /\ Idle.dbs = {} /\ Idle.left = {} /\ Idle.at = None
  /\ Idle.master = None /\ Idle.kids = {}
BY DEF NoFile, Idle

\* The fields of a journal.
LEMMA JournalTyped ==
  ASSUME Types, NEW J \in Journal \union {NoFile}
  PROVE  /\ J.on \in BOOLEAN /\ J.synced \in BOOLEAN /\ J.master \in Name \union {None}
         /\ J.master # None \/ J.synced => J.on
         /\ J.on => /\ J \in Journal /\ J.old \in Version /\ J.good \in BOOLEAN /\ J.tx \in Begun
                    /\ J.old.tx \in SUBSET Begun /\ J.old.whole \in BOOLEAN
BY Nothing DEF Journal, Version, NoFile

\* The fields of a master journal.
LEMMA MasterTyped ==
  ASSUME Types, NEW n \in Name
  PROVE  /\ mj[n].on \in BOOLEAN /\ unlinked[n].on \in BOOLEAN
         /\ mj[n].on => mj[n].kids \in SUBSET Db /\ mj[n].synced \in BOOLEAN
         /\ unlinked[n].on => /\ unlinked[n].kids \in SUBSET Db /\ unlinked[n].synced
                             /\ unlinked[n].commit \in BOOLEAN
BY Nothing DEF Types, MasterFile, Removed

\* The fields of what a process is doing.
LEMMA HandleTyped ==
  ASSUME Types, NEW p \in Proc
  PROVE  /\ h[p] \in Handle
         /\ h[p].pc \in {"idle"} \union Committing \union Finishing \union Undoing
         /\ h[p].tx \in {0} \union Begun /\ h[p].dbs \in SUBSET Db /\ h[p].left \in SUBSET Db
         /\ h[p].at \in Db \union {None} /\ h[p].master \in Name \union {None}
         /\ h[p].kids \in SUBSET Db
BY DEF Types, Handle

\* The empty start.
LEMMA InitIInv == Init => IInv
<1> SUFFICES ASSUME Init PROVE IInv
  OBVIOUS
<1> USE DEF Init
<1>1. \A d \in Db : /\ file[d] = [tx |-> {}, whole |-> TRUE] /\ disk[d] = {file[d]}
                    /\ jrnl[d] = NoFile /\ removed[d] = NoFile /\ holder[d] = None
  OBVIOUS
<1>2. \A n \in Name : mj[n] = NoFile /\ unlinked[n] = NoFile
  OBVIOUS
<1>3. \A p \in Proc : h[p] = Idle
  OBVIOUS
<1>4. Types
  <2>1. Len(files) = 0 /\ files \in Seq(SUBSET Db) /\ Len(files) + faults <= MaxTx /\ done \subseteq Begun
    BY MasterAssumption
  <2>2. \A d \in Db : file[d] \in Version /\ disk[d] \in SUBSET Version /\ file[d] \in disk[d]
    BY <1>1 DEF Version
  <2>3. Idle \in Handle
    BY DEF Idle, Handle
  <2> QED
    BY <1>1, <1>2, <2>1, <2>2, <2>3, MasterAssumption DEF Types, MasterFile
<1>5. Holding
  BY <1>1, <1>3, Nothing, MasterAssumption DEF Holding
<1>6. \A d \in Db : Database(d)
  BY <1>1, Nothing DEF Database, Settled, Hot, Unsynced, Old, Undoable
<1>7. \A n \in Name : Master(n)
  BY <1>2, Nothing DEF Master, Committed, Orphaned
<1>8. \A p \in Proc : Process(p)
  BY <1>3, Nothing DEF Process, IdleOK, CommitsOK, WritesOK, OwnsMaster, FinishesOK, UndoesOK,
                       Committing, Finishing, Undoing
<1>9. AllOrNone /\ CommitStays
  <2>1. Len(files) = 0
    OBVIOUS
  <2> QED
    BY <1>1, <2>1, Nothing DEF AllOrNone, CommitStays, Content
<1> QED
  BY <1>4, <1>5, <1>6, <1>7, <1>8, <1>9 DEF IInv

-----------------------------------------------------------------------------
(* What a step leaves alone.                                                *)

\* The disk, and the history of it.
stored == <<file, disk, jrnl, removed, mj, unlinked, files, done>>

LEMMA StoredKept ==
  ASSUME IInv, UNCHANGED stored
  PROVE  /\ \A d \in Db : Database(d)'
         /\ \A n \in Name : Master(n)'
         /\ AllOrNone' /\ CommitStays'
<1> USE DEF stored
<1>1. \A d \in Db : Database(d)'
  BY DEF IInv, Database, Settled, Hot, Exists, Unsynced, Old, Undoable, Has
<1>2. \A n \in Name : Master(n)'
  BY DEF IInv, Master, Committed, Orphaned, Has
<1>3. AllOrNone' /\ CommitStays'
  BY DEF IInv, AllOrNone, CommitStays, Content, Exists
<1> QED
  BY <1>1, <1>2, <1>3

\* A process that did nothing, and whose databases and master nobody touched.
LEMMA ProcessKept ==
  ASSUME IInv, NEW q \in Proc, h'[q] = h[q],
         \A d \in h[q].dbs : /\ jrnl'[d] = jrnl[d] /\ file'[d] = file[d]
                             /\ disk'[d] = disk[d] \/ disk'[d] = {file[d]},
         h[q].tx # 0 => files'[h[q].tx] = files[h[q].tx] /\ (h[q].tx \in done' => h[q].tx \in done),
         h[q].master # None /\ h[q].pc \in Committing =>
           /\ mj'[h[q].master] = mj[h[q].master]
           /\ \A p \in Proc : p # q => h'[p].master # h[q].master
           /\ \A d \in Db : /\ removed'[d].master # h[q].master
                            /\ jrnl'[d].master = h[q].master => d \in h[q].dbs,
         h[q].master # None /\ h[q].pc \in Finishing =>
           /\ mj'[h[q].master].on => mj[h[q].master].on
           /\ unlinked'[h[q].master].on => unlinked[h[q].master].on \/ h[q].pc = "directory",
         h[q].master # None /\ h[q].pc \in Undoing /\ mj'[h[q].master].on =>
           /\ mj'[h[q].master] = mj[h[q].master]
           /\ \A d \in Db : jrnl'[d].master = h[q].master => jrnl[d].master = h[q].master,
         h[q].pc = "drop" => (Hot(h[q].at)' => Hot(h[q].at))
  PROVE  Process(q)'
<1>1. Process(q) /\ Types
  BY DEF IInv
<1> HIDE DEF Hot
<1>2. IdleOK(q)'
  BY <1>1 DEF Process, IdleOK
<1>3. CommitsOK(q)'
  <2> SUFFICES ASSUME h[q].pc \in Committing PROVE CommitsOK(q)'
    BY DEF CommitsOK
  <2>1. CommitsOK(q) /\ h[q].tx # 0 /\ h[q].dbs \in SUBSET Db
    BY <1>1, HandleTyped DEF Process, CommitsOK
  <2>2. files'[h[q].tx] = files[h[q].tx] /\ h[q].tx \notin done' /\ files[h[q].tx] \subseteq h[q].dbs
    BY <2>1 DEF CommitsOK
  <2>3. \A d \in h[q].dbs : jrnl'[d].tx = h[q].tx /\ jrnl'[d].good
    BY <2>1 DEF CommitsOK
  <2>4. \A d \in h[q].dbs \ (files[h[q].tx] \ h[q].left) :
          d # h[q].at => ~jrnl'[d].synced /\ jrnl'[d].master = None
    BY <2>1 DEF CommitsOK
  <2>5. \A d \in files[h[q].tx] \ h[q].left :
          jrnl'[d].synced /\ jrnl'[d].master = h[q].master /\ Has(jrnl[d], d)'
    <3> TAKE d \in files[h[q].tx] \ h[q].left
    <3>1. d \in h[q].dbs /\ jrnl[d].synced /\ jrnl[d].master = h[q].master /\ Has(jrnl[d], d)
      BY <2>1, <2>2 DEF CommitsOK
    <3>2. jrnl'[d] = jrnl[d] /\ file'[d] = file[d] /\ (disk'[d] = disk[d] \/ disk'[d] = {file[d]})
      BY <3>1
    <3> QED
      BY <3>1, <3>2 DEF Has
  <2>6. \A d \in files[h[q].tx] : jrnl'[d] = jrnl[d]
    BY <2>2
  <2> QED
    BY <2>1, <2>2, <2>3, <2>4, <2>5, <2>6 DEF CommitsOK, Has
<1>4. WritesOK(q)'
  <2>1. h[q].pc \in {"journal", "wait", "write"} => h[q].at \in h[q].dbs
    BY <1>1 DEF Process, WritesOK, CommitsOK, Committing
  <2> QED
    BY <1>1, <2>1 DEF Process, WritesOK
<1>5. OwnsMaster(q)'
  BY <1>1 DEF Process, OwnsMaster
<1>6. FinishesOK(q)'
  BY <1>1, HandleTyped DEF Process, FinishesOK, Has, Finishing
<1>7. UndoesOK(q)'
  <2>1. Unwritten(q)' = Unwritten(q)
    BY DEF Unwritten
  <2>2. CASE h[q].pc \notin Undoing
    BY <2>2 DEF UndoesOK
  <2>3. CASE h[q].pc \in Undoing
    <3>1. UndoesOK(q) /\ h[q].dbs \in SUBSET Db
      BY <1>1, HandleTyped DEF Process
    <3>2. h[q].pc \in {"kids", "kid"} /\ mj'[h[q].master].on =>
            \A d \in mj'[h[q].master].kids \ h[q].kids : jrnl'[d].master # h[q].master
      <4>1. h[q].pc \in {"kids", "kid"} => h[q].master # None /\ h[q].master \in Name
        BY <3>1, <1>1, HandleTyped DEF UndoesOK, Undoing
      <4>2. h[q].master # None /\ mj[h[q].master].on => mj[h[q].master].kids \in SUBSET Db
        BY <1>1, HandleTyped, MasterTyped
      <4> QED
        BY <3>1, <2>3, <4>1, <4>2 DEF UndoesOK
    <3> QED
      BY <2>1, <2>3, <3>1, <3>2 DEF UndoesOK
  <2> QED
    BY <2>2, <2>3
<1> QED
  BY <1>2, <1>3, <1>4, <1>5, <1>6, <1>7 DEF Process

\* The other processes, when one changes what it is doing and takes up no master journal.
LEMMA OthersKept ==
  ASSUME IInv, UNCHANGED stored, NEW p \in Proc,
         \A q \in Proc : q # p => h'[q] = h[q],
         h'[p].master = h[p].master \/ h'[p].master = None
  PROVE  \A q \in Proc : q # p => Process(q)'
<1> USE DEF stored
<1> SUFFICES ASSUME NEW q \in Proc, q # p PROVE Process(q)'
  OBVIOUS
<1>1. h[q].master # None /\ h[q].pc \in Committing =>
        /\ \A o \in Proc : o # q => h'[o].master # h[q].master
        /\ \A d \in Db : removed[d].master # h[q].master /\ (jrnl[d].master = h[q].master => d \in h[q].dbs)
  BY DEF IInv, Process, OwnsMaster
<1>2. Hot(h[q].at)' => Hot(h[q].at)
  BY DEF Hot, Exists
<1> QED
  BY <1>1, <1>2, ProcessKept

\* A step of a process that changes nothing but what it is doing.
LEMMA OwnStep ==
  ASSUME IInv, UNCHANGED stored, UNCHANGED <<holder, faults>>, NEW p \in Proc, NEW r \in Handle,
         h' = [h EXCEPT ![p] = r], r.dbs = h[p].dbs, r.tx = h[p].tx \/ r.tx = 0,
         r.master = h[p].master \/ r.master = None,
         Process(p)'
  PROVE  IInv'
<1>1. Types /\ Holding
  BY DEF IInv
<1>2. h'[p] = r /\ \A q \in Proc : q # p => h'[q] = h[q]
  BY <1>1 DEF Types
<1>3. \A q \in Proc : Process(q)'
  BY <1>2, OthersKept
<1>4. Types'
  BY <1>1 DEF Types, stored, Begun, Version, Journal, Handle, MasterFile, Removed
<1>5. Holding'
  <2>1. \A q \in Proc : h'[q].dbs = h[q].dbs /\ (h'[q].tx = h[q].tx \/ h'[q].tx = 0)
    BY <1>2
  <2> QED
    BY <1>1, <2>1 DEF Holding, stored
<1> QED
  BY <1>3, <1>4, <1>5, StoredKept DEF IInv

-----------------------------------------------------------------------------
(* Steps of one process that touch no file.                                 *)

\* vdbeCommit of one database.
LEMMA StepCommitOne ==
  ASSUME IInv, NEW p \in Proc, CommitOne(p)
  PROVE  IInv'
<1> DEFINE r == [h[p] EXCEPT !.pc = "next"]
<1>1. Types /\ Process(p) /\ UNCHANGED stored /\ UNCHANGED <<holder, faults>>
  BY DEF IInv, CommitOne, stored, dbVars, jrnlVars, masterVars, histVars
<1>2. h' = [h EXCEPT ![p] = r] /\ h'[p] = r /\ h[p].pc = "open"
  BY <1>1 DEF CommitOne, Types
<1>3. r \in Handle /\ r.pc = "next" /\ r.tx = h[p].tx /\ r.dbs = h[p].dbs /\ r.left = h[p].left
      /\ r.at = h[p].at /\ r.master = h[p].master
  BY <1>1, HandleTyped DEF Handle, Committing
<1> HIDE DEF r
<1>4. \E d \in Db : h[p].dbs = {d}
  <2>1. h[p].dbs \in SUBSET Db /\ IsFiniteSet(h[p].dbs) /\ Cardinality(h[p].dbs) = 1
    BY <1>1, HandleTyped, MasterAssumption, FS_Subset DEF CommitOne
  <2>2. PICK d : h[p].dbs = {d}
    BY <2>1, FS_Singleton
  <2> QED
    BY <2>1, <2>2
<1>5. CommitsOK(p)'
  BY <1>1, <1>2, <1>3, <1>4 DEF Process, CommitsOK, stored, Has, Committing
<1>6. OwnsMaster(p)'
  BY <1>1, <1>2, <1>3 DEF Process, CommitsOK, OwnsMaster, Committing
<1>7. IdleOK(p)' /\ WritesOK(p)' /\ FinishesOK(p)' /\ UndoesOK(p)'
  BY <1>2, <1>3 DEF IdleOK, WritesOK, FinishesOK, UndoesOK, Finishing, Undoing
<1> QED
  BY <1>1, <1>2, <1>3, <1>5, <1>6, <1>7, OwnStep DEF Process

\* A rollback before anything was synced.
LEMMA StepRollback ==
  ASSUME IInv, NEW p \in Proc, Rollback(p)
  PROVE  IInv'
<1> DEFINE r == [h[p] EXCEPT !.pc = "rollback", !.master = None]
<1>1. Types /\ Process(p) /\ UNCHANGED stored /\ UNCHANGED <<holder, faults>>
  BY DEF IInv, Rollback, stored, dbVars, jrnlVars, masterVars, histVars
<1>2. h' = [h EXCEPT ![p] = r] /\ h'[p] = r /\ h[p].pc = "open"
  BY <1>1 DEF Rollback, Types
<1>3. r \in Handle /\ r.pc = "rollback" /\ r.tx = h[p].tx /\ r.dbs = h[p].dbs /\ r.left = h[p].left
      /\ r.at = h[p].at /\ r.master = None
  BY <1>1, HandleTyped DEF Handle, Undoing
<1> HIDE DEF r
<1>4. /\ h[p].tx # 0 /\ h[p].left = files[h[p].tx] /\ files[h[p].tx] \subseteq h[p].dbs /\ files[h[p].tx] # {}
      /\ \A d \in h[p].dbs : ~jrnl[d].synced
  BY <1>1, <1>2, Nothing, MasterAssumption, HandleTyped DEF Process, CommitsOK, Committing
<1>5. UndoesOK(p)'
  BY <1>1, <1>2, <1>3, <1>4 DEF UndoesOK, stored
<1>6. IdleOK(p)' /\ CommitsOK(p)' /\ OwnsMaster(p)' /\ WritesOK(p)' /\ FinishesOK(p)'
  BY <1>2, <1>3 DEF IdleOK, CommitsOK, OwnsMaster, WritesOK, FinishesOK, Finishing, Committing
<1> QED
  BY <1>1, <1>2, <1>3, <1>5, <1>6, OwnStep DEF Process

\* A commit that is BUSY is rolled back; the database it waited for was not written to.
LEMMA StepBusy ==
  ASSUME IInv, Risks = {}, NEW p \in Proc, Busy(p)
  PROVE  IInv'
<1> DEFINE r == [h[p] EXCEPT !.pc = "rollback", !.at = None, !.master = None]
<1>1. Types /\ Process(p) /\ UNCHANGED stored /\ UNCHANGED <<holder, faults>>
  BY DEF IInv, Busy, stored, dbVars, jrnlVars, masterVars, histVars
<1>2. h' = [h EXCEPT ![p] = r] /\ h'[p] = r /\ h[p].pc = "wait"
  BY <1>1 DEF Busy, Types
<1>3. r \in Handle /\ r.pc = "rollback" /\ r.tx = h[p].tx /\ r.dbs = h[p].dbs /\ r.left = h[p].left
      /\ r.at = None /\ r.master = None
  BY <1>1, HandleTyped DEF Handle, Undoing
<1> HIDE DEF r
<1>4. /\ h[p].tx # 0 /\ h[p].left \subseteq files[h[p].tx] /\ files[h[p].tx] \subseteq h[p].dbs
      /\ h[p].at \in h[p].left
      /\ file[h[p].at] = jrnl[h[p].at].old /\ disk[h[p].at] = {file[h[p].at]}
      /\ \A d \in h[p].dbs \ (files[h[p].tx] \ h[p].left) : d # h[p].at => ~jrnl[d].synced
  BY <1>1, <1>2 DEF Process, CommitsOK, WritesOK, Committing
<1>5. UndoesOK(p)'
  <2>1. Unwritten(p)' = h[p].left \union (h[p].dbs \ files[h[p].tx])
    BY <1>1, <1>2, <1>3, <1>4 DEF Unwritten, stored
  <2>2. \A d \in h[p].dbs \intersect (h[p].left \union (h[p].dbs \ files[h[p].tx])) :
          jrnl[d].synced => file[d] = jrnl[d].old /\ disk[d] = {file[d]}
    BY <1>4
  <2> QED
    BY <1>1, <1>2, <1>3, <1>4, <2>1, <2>2 DEF UndoesOK, stored
<1>6. IdleOK(p)' /\ CommitsOK(p)' /\ OwnsMaster(p)' /\ WritesOK(p)' /\ FinishesOK(p)'
  BY <1>2, <1>3 DEF IdleOK, CommitsOK, OwnsMaster, WritesOK, FinishesOK, Finishing, Committing
<1> QED
  BY <1>1, <1>2, <1>3, <1>5, <1>6, OwnStep DEF Process

\* One database, synced: the removal of its journal is to commit.
LEMMA StepNoMaster ==
  ASSUME IInv, NEW p \in Proc, NoMaster(p)
  PROVE  IInv'
<1> DEFINE r == [h[p] EXCEPT !.pc = "commit"]
<1>1. Types /\ Process(p) /\ UNCHANGED stored /\ UNCHANGED <<holder, faults>>
  BY DEF IInv, NoMaster, stored, dbVars, jrnlVars, masterVars, histVars
<1>2. h' = [h EXCEPT ![p] = r] /\ h'[p] = r /\ h[p].pc = "next" /\ h[p].left = {} /\ h[p].master = None
  BY <1>1 DEF NoMaster, Synced, Types
<1>3. r \in Handle /\ r.pc = "commit" /\ r.tx = h[p].tx /\ r.dbs = h[p].dbs /\ r.left = h[p].left
      /\ r.at = h[p].at /\ r.master = h[p].master
  BY <1>1, HandleTyped DEF Handle, Finishing
<1> HIDE DEF r
<1>4. CommitsOK(p) /\ h[p].pc \in Committing
  BY <1>1, <1>2 DEF Process, Committing
<1>5. PICK d \in Db : h[p].dbs = {d}
  BY <1>2, <1>4 DEF CommitsOK
<1>6. files[h[p].tx] = h[p].dbs
  BY <1>4, <1>5 DEF CommitsOK
<1>7. FinishesOK(p)'
  <2>1. /\ h[p].tx # 0 /\ h[p].tx \notin done
        /\ \A e \in h[p].dbs : /\ jrnl[e].tx = h[p].tx /\ jrnl[e].good /\ jrnl[e].synced
                              /\ jrnl[e].master = h[p].master /\ Has(jrnl[e], e)
    BY <1>2, <1>4, <1>6 DEF CommitsOK
  <2>2. \A e \in h[p].dbs : Has(jrnl[e], e)'
    BY <1>1, <2>1 DEF Has, stored
  <2>3. UNCHANGED <<files, done, jrnl>>
    BY <1>1 DEF stored
  <2>4. /\ h'[p].pc = "commit" /\ h'[p].tx = h[p].tx /\ h'[p].dbs = h[p].dbs /\ h'[p].left = {}
        /\ h'[p].master = None /\ files'[h'[p].tx] = h[p].dbs
    BY <1>2, <1>3, <1>6, <2>3
  <2>5. \A e \in h'[p].dbs : e \in h[p].dbs
    BY <2>4
  <2>6. \A e \in h'[p].dbs : /\ jrnl'[e].tx = h'[p].tx /\ jrnl'[e].good
                             /\ jrnl'[e].synced /\ jrnl'[e].master = h'[p].master /\ Has(jrnl[e], e)'
    BY <1>2, <2>1, <2>2, <2>3, <2>4
  <2> QED
    BY <1>5, <2>1, <2>3, <2>4, <2>6 DEF FinishesOK
<1>8. IdleOK(p)' /\ CommitsOK(p)' /\ OwnsMaster(p)' /\ WritesOK(p)' /\ UndoesOK(p)'
  BY <1>2, <1>3 DEF IdleOK, CommitsOK, OwnsMaster, WritesOK, UndoesOK, Undoing, Committing
<1> QED
  BY <1>1, <1>2, <1>3, <1>7, <1>8, OwnStep DEF Process

\* pager_delmaster returns: the process has nothing more to do, or goes on rolling back.
LEMMA Returned ==
  ASSUME IInv, UNCHANGED <<file, disk, jrnl, files>>, NEW p \in Proc, h[p].pc \in {"check", "kids", "kid"},
         h'[p] = Return(h[p])
  PROVE  /\ Return(h[p]) \in Handle /\ Return(h[p]).dbs = h[p].dbs /\ Return(h[p]).master = None
         /\ Return(h[p]).tx = h[p].tx \/ Return(h[p]).tx = 0
         /\ Process(p)'
<1>1. Types /\ Process(p)
  BY DEF IInv
<1>2. CASE h[p].dbs = {}
  <2>1. h'[p] = Idle /\ Return(h[p]) = Idle
    BY <1>2 DEF Return
  <2>2. Idle \in Handle
    BY DEF Idle, Handle
  <2>3. Process(p)'
    BY <2>1, Nothing DEF Process, IdleOK, CommitsOK, WritesOK, OwnsMaster, FinishesOK, UndoesOK,
                         Committing, Finishing, Undoing
  <2> QED
    BY <1>2, <2>1, <2>2, <2>3, Nothing
<1>3. CASE h[p].dbs # {}
  <2> DEFINE r == [h[p] EXCEPT !.pc = "rollback", !.master = None, !.kids = {}, !.at = None]
  <2>1. h'[p] = r /\ Return(h[p]) = r
    BY <1>3 DEF Return
  <2>2. r \in Handle /\ r.pc = "rollback" /\ r.tx = h[p].tx /\ r.dbs = h[p].dbs /\ r.left = h[p].left
        /\ r.at = None /\ r.master = None
    BY <1>1, HandleTyped DEF Handle, Undoing
  <2> HIDE DEF r
  <2>3. UndoesOK(p)'
    <3>1. UndoesOK(p) /\ h[p].pc \in Undoing
      BY <1>1 DEF Process, Undoing
    <3>2. Unwritten(p)' = Unwritten(p)
      BY <2>1, <2>2 DEF Unwritten
    <3>3. \A d \in h[p].dbs \intersect Unwritten(p) :
            jrnl[d].synced => file[d] = jrnl[d].old /\ disk[d] = {file[d]}
      BY <3>1 DEF UndoesOK
    <3> QED
      BY <1>3, <2>1, <2>2, <3>1, <3>2, <3>3 DEF UndoesOK
  <2>4. IdleOK(p)' /\ CommitsOK(p)' /\ OwnsMaster(p)' /\ WritesOK(p)' /\ FinishesOK(p)'
    BY <2>1, <2>2 DEF IdleOK, CommitsOK, OwnsMaster, WritesOK, FinishesOK, Finishing, Committing
  <2> QED
    BY <2>1, <2>2, <2>3, <2>4 DEF Process
<1> QED
  BY <1>2, <1>3

\* A further step of pager_delmaster: each name it passed is no longer in the journal.
LEMMA Looked ==
  ASSUME IInv, UNCHANGED stored, UNCHANGED <<holder, faults>>, NEW p \in Proc, NEW r \in Handle,
         h[p].pc \in {"check", "kids", "kid"}, r.pc \in {"kids", "kid"}, r.pc = "kid" => r.at \in Db,
         h' = [h EXCEPT ![p] = r], r.dbs = h[p].dbs, r.tx = h[p].tx, r.left = h[p].left,
         r.master = h[p].master,
         mj[h[p].master].on => \A d \in mj[h[p].master].kids \ r.kids : jrnl[d].master # h[p].master
  PROVE  IInv'
<1>1. Types /\ Process(p) /\ h'[p] = r
  BY DEF IInv, Types
<1>2. UndoesOK(p) /\ h[p].pc \in Undoing /\ r.pc \in Undoing
  BY <1>1 DEF Process, Undoing
<1>3. Unwritten(p)' = Unwritten(p)
  BY <1>1 DEF Unwritten, stored
<1>4. \A d \in h[p].dbs \intersect Unwritten(p) :
        jrnl[d].synced => file[d] = jrnl[d].old /\ disk[d] = {file[d]}
  BY <1>2 DEF UndoesOK
<1>5. UNCHANGED <<jrnl, file, disk, mj>>
  BY DEF stored
<1>6. UndoesOK(p)'
  BY <1>1, <1>2, <1>3, <1>4, <1>5 DEF UndoesOK
<1>7. IdleOK(p)' /\ CommitsOK(p)' /\ OwnsMaster(p)' /\ WritesOK(p)' /\ FinishesOK(p)'
  BY <1>1 DEF IdleOK, CommitsOK, OwnsMaster, WritesOK, FinishesOK, Finishing, Committing
<1> QED
  BY <1>6, <1>7, OwnStep DEF Process

\* The master journal is read, or is gone.
LEMMA StepOpenMaster ==
  ASSUME IInv, NEW p \in Proc, OpenMaster(p)
  PROVE  IInv'
<1>1. Types /\ UNCHANGED stored /\ UNCHANGED <<holder, faults>> /\ h[p].pc = "check"
  BY DEF IInv, OpenMaster, stored, dbVars, jrnlVars, masterVars, histVars
<1>2. CASE ~mj[h[p].master].on
  <2>1. h' = [h EXCEPT ![p] = Return(h[p])] /\ h'[p] = Return(h[p])
    BY <1>1, <1>2 DEF OpenMaster, Types
  <2> QED
    BY <1>1, <2>1, Returned, OwnStep DEF stored
<1>3. CASE mj[h[p].master].on
  <2> DEFINE r == [h[p] EXCEPT !.pc = "kids", !.kids = mj[h[p].master].kids]
  <2>1. h' = [h EXCEPT ![p] = r]
    BY <1>1, <1>3 DEF OpenMaster
  <2>2. h[p].master \in Name /\ mj[h[p].master].kids \in SUBSET Db
    <3>1. h[p].master # None
      BY <1>1 DEF IInv, Process, UndoesOK, Undoing
    <3> QED
      BY <1>1, <1>3, <3>1, HandleTyped, MasterTyped
  <2>3. r \in Handle /\ r.pc = "kids" /\ r.tx = h[p].tx /\ r.dbs = h[p].dbs /\ r.left = h[p].left
        /\ r.master = h[p].master /\ r.kids = mj[h[p].master].kids
    BY <1>1, <2>2, HandleTyped DEF Handle, Undoing
  <2> HIDE DEF r
  <2> QED
    BY <1>1, <2>1, <2>3, Looked
<1> QED
  BY <1>2, <1>3

\* The next name: there is no such journal, or it is to be opened.
LEMMA StepKidExists ==
  ASSUME IInv, NEW p \in Proc, NEW d \in Db, KidExists(p, d)
  PROVE  IInv'
<1>1. Types /\ UNCHANGED stored /\ UNCHANGED <<holder, faults>> /\ h[p].pc = "kids"
  BY DEF IInv, KidExists, stored, dbVars, jrnlVars, masterVars, histVars
<1>2. h[p].master # None /\ mj[h[p].master].on =>
        h[p].master # None /\ \A e \in mj[h[p].master].kids \ h[p].kids : jrnl[e].master # h[p].master
  BY <1>1 DEF IInv, Process, UndoesOK, Undoing
<1>3. h[p].master # None
  BY <1>1 DEF IInv, Process, UndoesOK, Undoing
<1> DEFINE r == IF jrnl[d].on THEN [h[p] EXCEPT !.pc = "kid", !.at = d]
                ELSE [h[p] EXCEPT !.kids = h[p].kids \ {d}]
<1>4. h' = [h EXCEPT ![p] = r]
  BY <1>1 DEF KidExists
<1>5. r \in Handle /\ r.pc \in {"kids", "kid"} /\ (r.pc = "kid" => r.at = d) /\ r.tx = h[p].tx
      /\ r.dbs = h[p].dbs /\ r.left = h[p].left /\ r.master = h[p].master
      /\ r.kids = IF jrnl[d].on THEN h[p].kids ELSE h[p].kids \ {d}
  BY <1>1, HandleTyped DEF Handle, Undoing
<1> HIDE DEF r
<1>6. ~jrnl[d].on => jrnl[d].master = None
  <2>1. jrnl[d] \in Journal \union {NoFile}
    BY <1>1 DEF Types
  <2> QED
    BY <1>1, <2>1, JournalTyped
<1> QED
  BY <1>1, <1>2, <1>3, <1>4, <1>5, <1>6, Looked

\* The journal is read: the master stays if it is named, or if the journal is gone by now.
LEMMA StepReadKid ==
  ASSUME IInv, NEW p \in Proc, ReadKid(p)
  PROVE  IInv'
<1>1. Types /\ UNCHANGED stored /\ UNCHANGED <<holder, faults>> /\ h[p].pc = "kid"
  BY DEF IInv, ReadKid, stored, dbVars, jrnlVars, masterVars, histVars
<1> DEFINE d == h[p].at
<1>2. CASE ~jrnl[d].on \/ jrnl[d].master = h[p].master
  <2>1. h' = [h EXCEPT ![p] = Return(h[p])] /\ h'[p] = Return(h[p])
    BY <1>1, <1>2 DEF ReadKid, Types
  <2> QED
    BY <1>1, <2>1, Returned, OwnStep DEF stored
<1>3. CASE ~(~jrnl[d].on \/ jrnl[d].master = h[p].master)
  <2> DEFINE r == [h[p] EXCEPT !.pc = "kids", !.kids = h[p].kids \ {d}, !.at = None]
  <2>1. h' = [h EXCEPT ![p] = r]
    BY <1>1, <1>3 DEF ReadKid
  <2>2. mj[h[p].master].on => \A e \in mj[h[p].master].kids \ h[p].kids : jrnl[e].master # h[p].master
    BY <1>1 DEF IInv, Process, UndoesOK, Undoing
  <2>3. r \in Handle /\ r.pc = "kids" /\ r.tx = h[p].tx /\ r.dbs = h[p].dbs /\ r.left = h[p].left
        /\ r.master = h[p].master /\ r.kids = h[p].kids \ {d}
    BY <1>1, HandleTyped DEF Handle, Undoing
  <2>4. jrnl[d].master # h[p].master
    BY <1>3
  <2> HIDE DEF r, d
  <2> QED
    BY <1>1, <2>1, <2>2, <2>3, <2>4, Looked
<1> QED
  BY <1>2, <1>3

\* The types of what a process is doing, when nothing else changes but who holds what.
LEMMA HandlesTyped ==
  ASSUME IInv, UNCHANGED stored, faults' \in Nat, Len(files) + faults' <= MaxTx,
         holder' \in [Db -> Proc \union {None}], h' \in [Proc -> Handle]
  PROVE  Types'
BY DEF IInv, Types, stored, Begun, Version, Journal, Handle

\* A process starts the recovery of a database nobody writes to.
LEMMA StepRecover ==
  ASSUME IInv, NEW p \in Proc, NEW d \in Db, Recover(p, d)
  PROVE  IInv'
<1> DEFINE r == [Idle EXCEPT !.pc = "rollback", !.dbs = {d}]
<1>1. Types /\ Holding /\ UNCHANGED stored /\ UNCHANGED faults /\ h[p] = Idle
  BY DEF IInv, Recover, stored, dbVars, jrnlVars, masterVars, histVars
<1>2. /\ h' = [h EXCEPT ![p] = r] /\ h'[p] = r /\ \A q \in Proc : q # p => h'[q] = h[q]
      /\ holder[d] = None /\ jrnl[d].on
      /\ holder'[d] = p /\ \A e \in Db : e # d => holder'[e] = holder[e]
      /\ holder' \in [Db -> Proc \union {None}]
  BY <1>1 DEF Recover, Types
<1>3. r \in Handle /\ r.pc = "rollback" /\ r.tx = 0 /\ r.dbs = {d} /\ r.left = {} /\ r.at = None
      /\ r.master = None
  BY DEF Handle, Undoing, Idle
<1> HIDE DEF r
<1>4. Types'
  BY <1>1, <1>2, <1>3, HandlesTyped DEF Types
<1>5. Holding'
  <2>1. UNCHANGED jrnl
    BY <1>1 DEF stored
  <2>2. \A e \in Db : holder[e] # p
    BY <1>1, Nothing DEF Holding
  <2> QED
    BY <1>1, <1>2, <1>3, <2>1, <2>2, MasterAssumption DEF Holding
<1>6. Process(p)'
  <2>1. UndoesOK(p)'
    BY <1>2, <1>3 DEF UndoesOK, Unwritten
  <2> QED
    BY <2>1, <1>2, <1>3 DEF Process, IdleOK, CommitsOK, OwnsMaster, WritesOK, FinishesOK, Finishing,
                            Committing
<1>7. \A q \in Proc : Process(q)'
  BY <1>1, <1>2, <1>3, <1>6, OthersKept
<1> QED
  BY <1>1, <1>4, <1>5, <1>7, StoredKept DEF IInv

\* A process dies: what it held is free, and its journals stay.
LEMMA StepCrash ==
  ASSUME IInv, NEW p \in Proc, Crash(p)
  PROVE  IInv'
<1>1. Types /\ Holding /\ UNCHANGED stored
  BY DEF IInv, Crash, stored, dbVars, jrnlVars, masterVars
<1>2. /\ h' = [h EXCEPT ![p] = Idle] /\ h'[p] = Idle /\ \A q \in Proc : q # p => h'[q] = h[q]
      /\ \A e \in Db : holder'[e] = IF holder[e] = p THEN None ELSE holder[e]
      /\ holder' \in [Db -> Proc \union {None}]
  BY <1>1 DEF Crash, Types
<1>3. Idle \in Handle
  BY DEF Idle, Handle
<1>4. Types'
  <2>1. faults' \in Nat /\ Len(files) + faults' <= MaxTx
    BY <1>1, MasterAssumption DEF Crash, Bounded, Types
  <2>2. h' \in [Proc -> Handle]
    BY <1>1, <1>2, <1>3 DEF Types
  <2> QED
    BY <1>1, <1>2, <2>1, <2>2, HandlesTyped
<1>5. Holding'
  <2>1. UNCHANGED jrnl
    BY <1>1 DEF stored
  <2> QED
    BY <1>1, <1>2, <2>1, Nothing, MasterAssumption DEF Holding
<1>6. Process(p)'
  BY <1>2, Nothing DEF Process, IdleOK, CommitsOK, WritesOK, OwnsMaster, FinishesOK, UndoesOK,
                       Committing, Finishing, Undoing
<1>7. \A q \in Proc : Process(q)'
  BY <1>1, <1>2, <1>6, Nothing, OthersKept
<1> QED
  BY <1>1, <1>4, <1>5, <1>7, StoredKept DEF IInv

-----------------------------------------------------------------------------
(* What a step that writes to files leaves alone.                            *)

\* The master journal is what it was, or was synced.
SameMaster(n) ==
  /\ unlinked'[n] = unlinked[n] /\ mj'[n].on = mj[n].on
  /\ mj[n].on => mj'[n].kids = mj[n].kids /\ (mj[n].synced => mj'[n].synced)

\* A database nobody touched, like the masters its journals name.
LEMMA DatabaseKept ==
  ASSUME IInv, NEW d \in Db, file'[d] = file[d], disk'[d] = disk[d], jrnl'[d] = jrnl[d],
         removed'[d] = removed[d],
         removed[d].on => /\ files'[removed[d].tx] = files[removed[d].tx]
                          /\ removed[d].tx \in done' => removed[d].tx \in done,
         jrnl[d].master # None => SameMaster(jrnl[d].master),
         removed[d].master # None => SameMaster(removed[d].master)
  PROVE  Database(d)'
<1>1. Database(d)
  BY DEF IInv
<1>2. Hot(d)' <=> Hot(d)
  BY DEF Hot, Exists, SameMaster
<1>3. Settled(d)' /\ Unsynced(d)'
  BY <1>1, <1>2 DEF Database, Settled, Unsynced, SameMaster
<1>4. Old(jrnl[d], d)' /\ Old(removed[d], d)'
  BY <1>1 DEF Database, Old, SameMaster
<1>5. Undoable(d)'
  BY <1>1 DEF Database, Undoable, Has, SameMaster
<1> QED
  BY <1>3, <1>4, <1>5 DEF Database

\* The journals that name a master journal.
Naming(n, d) == {J \in {jrnl[d], removed[d]} : J.master = n}

\* A master journal whose journals nobody touched, or whose removal is on the disk now.
LEMMA MasterKept ==
  ASSUME IInv, NEW n \in Name, mj'[n].on /\ unlinked'[n].on => mj[n].on,
         unlinked'[n].on =>
           /\ unlinked'[n] = unlinked[n]
           /\ \A d \in Db : jrnl'[d].master = n => jrnl[d].master = n,
         unlinked'[n].on /\ unlinked[n].commit =>
           /\ \A d \in Db : /\ Naming(n, d)' = Naming(n, d)
                            /\ Naming(n, d) # {} => file'[d] = file[d] /\ disk'[d] = disk[d]
           /\ \A t \in Begun : files'[t] = files[t] /\ (t \in done' => t \in done)
  PROVE  Master(n)'
<1>1. Master(n) /\ Types
  BY DEF IInv
<1>2. ~(mj'[n].on /\ unlinked'[n].on) /\ Orphaned(n)'
  BY <1>1 DEF Master, Orphaned
<1>3. Committed(n)'
  <2> SUFFICES ASSUME unlinked'[n].on, unlinked'[n].commit,
                      NEW d \in Db, NEW J \in {jrnl'[d], removed'[d]}, J.master = n
               PROVE  /\ file'[d] = [tx |-> J.old.tx \union {J.tx}, whole |-> TRUE] /\ disk'[d] = {file'[d]}
                      /\ J.good /\ J.tx \notin done'
                      /\ \A e \in files'[J.tx] : \E K \in {jrnl'[e], removed'[e]} : K.master = n /\ K.tx = J.tx
    BY DEF Committed, Has
  <2>1. unlinked[n].on /\ unlinked[n].commit
    OBVIOUS
  <2>2. J \in Naming(n, d)' /\ Naming(n, d)' = Naming(n, d)
    BY DEF Naming
  <2>3. J \in {jrnl[d], removed[d]} /\ file'[d] = file[d] /\ disk'[d] = disk[d]
    BY <2>2 DEF Naming
  <2>4. /\ Has(J, d) /\ J.good /\ J.tx \notin done
        /\ \A e \in files[J.tx] : \E K \in {jrnl[e], removed[e]} : K.master = n /\ K.tx = J.tx
    BY <1>1, <2>1, <2>3 DEF Master, Committed
  <2>5. J.tx \in Begun
    <3>1. J \in Journal \union {NoFile}
      BY <1>1, <2>3 DEF Types
    <3>2. J.on
      BY <1>1, <3>1, JournalTyped, MasterAssumption
    <3> QED
      BY <1>1, <3>1, <3>2, JournalTyped
  <2>6. files'[J.tx] = files[J.tx] /\ J.tx \notin done'
    BY <2>4, <2>5
  <2>7. ASSUME NEW e \in files[J.tx]
        PROVE  \E K \in {jrnl'[e], removed'[e]} : K.master = n /\ K.tx = J.tx
    <3>1. PICK K \in {jrnl[e], removed[e]} : K.master = n /\ K.tx = J.tx
      BY <2>4
    <3>2. e \in Db
      BY <1>1, <2>5 DEF Types, Begun
    <3>3. K \in Naming(n, e)'
      BY <3>1, <3>2 DEF Naming
    <3> QED
      BY <3>1, <3>3 DEF Naming
  <2> QED
    BY <2>3, <2>4, <2>6, <2>7 DEF Has
<1> QED
  BY <1>2, <1>3 DEF Master

\* Where every database still has its content, nothing was committed or taken back.
LEMMA ContentKept ==
  ASSUME IInv, \A d \in Db : Content(d)' = Content(d), UNCHANGED files, done' \subseteq Begun,
         \A t \in done' \ done : \A d \in files[t] : t \in Content(d).tx
  PROVE  AllOrNone' /\ CommitStays'
<1>1. \A t \in 1..Len(files) : files[t] \in SUBSET Db
  BY DEF IInv, Types
<1>2. \A t \in done : t \in 1..Len(files)
  BY DEF IInv, Types, Begun
<1>3. AllOrNone'
  BY <1>1 DEF IInv, AllOrNone
<1>4. CommitStays'
  <2> SUFFICES ASSUME NEW t \in done', NEW d \in files[t] PROVE t \in Content(d)'.tx
    BY DEF CommitStays
  <2>1. t \in Content(d).tx
    BY DEF IInv, CommitStays
  <2>2. d \in Db
    BY <1>1, <1>2 DEF Begun
  <2> QED
    BY <2>1, <2>2
<1> QED
  BY <1>3, <1>4

-----------------------------------------------------------------------------
(* The journals of a transaction.                                            *)

\* The journal gets the name of its master.
LEMMA StepNameJournal ==
  ASSUME IInv, NEW p \in Proc, NEW d \in Db, NameJournal(p, d)
  PROVE  IInv'
<1> DEFINE m == h[p].master
           r == [h[p] EXCEPT !.pc = "journal", !.at = d]
           J == [jrnl[d] EXCEPT !.master = m]
<1>1. /\ Types /\ Holding /\ Process(p) /\ Database(d) /\ h[p].pc = "next" /\ d \in h[p].left
      /\ UNCHANGED <<file, disk, removed, mj, unlinked, holder, files, done, faults>>
  BY DEF IInv, NameJournal, dbVars, masterVars, histVars
<1>2. CommitsOK(p) /\ OwnsMaster(p) /\ h[p].pc \in Committing
  BY <1>1 DEF Process, Committing
<1>3. /\ h[p].at = None /\ h[p].tx # 0 /\ d \in h[p].dbs /\ d \notin files[h[p].tx] \ h[p].left
      /\ h[p].left \subseteq files[h[p].tx]
  BY <1>1, <1>2 DEF CommitsOK
<1>4. ~jrnl[d].synced /\ jrnl[d].master = None /\ jrnl[d].tx = h[p].tx /\ jrnl[d].good
  BY <1>2, <1>3, MasterAssumption DEF CommitsOK
<1>5. jrnl[d] \in Journal /\ jrnl[d].on
  BY <1>1, <1>3, JournalTyped DEF Types, Holding
<1>6. /\ jrnl' = [jrnl EXCEPT ![d] = J] /\ h' = [h EXCEPT ![p] = r]
      /\ jrnl'[d] = J /\ h'[p] = r
      /\ \A e \in Db : e # d => jrnl'[e] = jrnl[e]
      /\ \A q \in Proc : q # p => h'[q] = h[q]
  BY <1>1, <1>4 DEF NameJournal, Types
<1>7. m \in Name \union {None} /\ h[p] \in Handle
  BY <1>1, HandleTyped
<1>8. J \in Journal /\ J.on /\ J.old = jrnl[d].old /\ J.master = m /\ ~J.synced /\ J.good
      /\ J.tx = jrnl[d].tx
  BY <1>4, <1>5, <1>7 DEF Journal
<1>9. r \in Handle /\ r.pc = "journal" /\ r.tx = h[p].tx /\ r.dbs = h[p].dbs /\ r.left = h[p].left
      /\ r.at = d /\ r.master = m
  BY <1>7 DEF Handle, Committing
<1>10. m # None => /\ mj[m].on /\ mj[m].synced /\ d \in mj[m].kids /\ m \in Name /\ ~unlinked[m].on
                   /\ \A q \in Proc : q # p => h[q].master # m
                   /\ \A e \in Db : removed[e].master # m /\ (jrnl[e].master = m => e \in h[p].dbs)
  <2>1. m # None => ~(mj[m].on /\ unlinked[m].on)
    BY <1>7 DEF IInv, Master
  <2> QED
    BY <1>1, <1>2, <1>3, <1>7, <2>1 DEF OwnsMaster
<1> HIDE DEF J, r, m
<1>11. \A q \in Proc : q # p => d \notin h[q].dbs /\ h[q].dbs \in SUBSET Db
  BY <1>1, <1>3, HandleTyped DEF Holding
<1>12. Types'
  BY <1>1, <1>6, <1>8, <1>9 DEF Types, Begun, Version, Journal, Handle, MasterFile, Removed
<1>13. Holding'
  <2>1. \A q \in Proc : h'[q].dbs = h[q].dbs /\ h'[q].tx = h[q].tx
    BY <1>6, <1>9
  <2>2. \A e \in Db : jrnl'[e].on = jrnl[e].on
    BY <1>5, <1>6, <1>8 DEF Journal
  <2> QED
    BY <1>1, <2>1, <2>2, HandleTyped DEF Holding
<1>14. \A e \in Db : Database(e)'
  <2>1. \A e \in Db : e # d => Database(e)'
    BY <1>1, <1>6, DatabaseKept DEF SameMaster
  <2>2. Settled(d)' /\ Unsynced(d)'
    BY <1>1, <1>4, <1>5, <1>6, <1>8, <1>10 DEF Database, Settled, Hot, Unsynced
  <2>3. Old(jrnl[d], d)'
    BY <1>1, <1>5, <1>6, <1>8, <1>10 DEF Database, Old
  <2>4. Old(removed[d], d)' /\ Undoable(d)'
    BY <1>1, <1>6, <1>8 DEF Database, Old, Undoable, Has
  <2> QED
    BY <2>1, <2>2, <2>3, <2>4 DEF Database
<1>15. \A n \in Name : Master(n)'
  <2> TAKE n \in Name
  <2>1. unlinked[n].on => n # m /\ n # None
    BY <1>10, MasterAssumption
  <2>2. unlinked[n].on => \A e \in Db : Naming(n, e)' = Naming(n, e) /\ (jrnl'[e].master = n => jrnl[e].master = n)
    BY <1>1, <1>4, <1>6, <1>8, <2>1 DEF Naming
  <2> QED
    BY <1>1, <2>2, MasterKept
<1>16. \A q \in Proc : q # p => Process(q)'
  <2> TAKE q \in Proc
  <2> SUFFICES ASSUME q # p PROVE Process(q)'
    OBVIOUS
  <2>1. \A e \in h[q].dbs : jrnl'[e] = jrnl[e]
    BY <1>6, <1>11
  <2>2. m # None => h[q].master # m
    BY <1>10
  <2>3. h[q].master # None /\ h[q].pc \in Committing =>
          /\ \A o \in Proc : o # q => h'[o].master # h[q].master
          /\ \A e \in Db : removed[e].master # h[q].master /\ (jrnl'[e].master = h[q].master => e \in h[q].dbs)
    <3>1. h[q].master # None /\ h[q].pc \in Committing =>
            /\ \A o \in Proc : o # q => h[o].master # h[q].master
            /\ \A e \in Db : removed[e].master # h[q].master /\ (jrnl[e].master = h[q].master => e \in h[q].dbs)
      BY DEF IInv, Process, OwnsMaster
    <3>2. \A o \in Proc : h'[o].master = h[o].master
      BY <1>6, <1>9 DEF m
    <3> QED
      BY <1>6, <1>8, <2>2, <3>1, <3>2
  <2>4. h[q].master # None => \A e \in Db : jrnl'[e].master = h[q].master => jrnl[e].master = h[q].master
    BY <1>6, <1>8, <2>2
  <2>5. h[q].pc = "drop" => h[q].at \in h[q].dbs
    BY DEF IInv, Process, UndoesOK, Undoing
  <2>6. h[q].pc = "drop" => (Hot(h[q].at)' => Hot(h[q].at))
    BY <1>1, <1>6, <2>1, <2>5 DEF Hot, Exists
  <2> QED
    BY <1>1, <1>6, <2>1, <2>3, <2>4, <2>6, ProcessKept
<1>17. Process(p)'
  <2>1. CommitsOK(p)'
    <3>1. \A e \in h[p].dbs : jrnl'[e].tx = h[p].tx /\ jrnl'[e].good
      BY <1>1, <1>2, <1>4, <1>6, <1>8, HandleTyped DEF CommitsOK
    <3>2. \A e \in h[p].dbs \ (files[h[p].tx] \ h[p].left) :
            e # d => ~jrnl'[e].synced /\ jrnl'[e].master = None
      BY <1>1, <1>2, <1>3, <1>6, HandleTyped, MasterAssumption DEF CommitsOK
    <3>3. \A e \in files[h[p].tx] \ h[p].left : jrnl'[e] = jrnl[e]
      BY <1>1, <1>2, <1>3, <1>6, HandleTyped DEF CommitsOK
    <3>4. \A e \in files[h[p].tx] \ h[p].left :
            jrnl'[e].synced /\ jrnl'[e].master = h[p].master /\ Has(jrnl[e], e)'
      BY <1>1, <1>2, <3>3 DEF CommitsOK, Has
    <3> QED
      BY <1>1, <1>2, <1>3, <1>6, <1>9, <3>1, <3>2, <3>4 DEF CommitsOK, m
  <2>2. WritesOK(p)'
    BY <1>1, <1>6, <1>8, <1>9 DEF WritesOK
  <2>3. OwnsMaster(p)'
    BY <1>1, <1>2, <1>3, <1>6, <1>8, <1>9, <1>10 DEF OwnsMaster, m
  <2>4. IdleOK(p)' /\ FinishesOK(p)' /\ UndoesOK(p)'
    BY <1>6, <1>9 DEF IdleOK, FinishesOK, UndoesOK, Finishing, Undoing
  <2> QED
    BY <2>1, <2>2, <2>3, <2>4 DEF Process
<1>18. \A e \in Db : Content(e)' = Content(e)
  <2>1. Content(d)' = Content(d)
    BY <1>1, <1>4, <1>5, <1>6, <1>8, <1>10 DEF Content, Exists, Database, Unsynced
  <2>2. \A e \in Db : e # d => Content(e)' = Content(e)
    BY <1>1, <1>6 DEF Content, Exists
  <2> QED
    BY <2>1, <2>2
<1>19. AllOrNone' /\ CommitStays'
  BY <1>1, <1>18, ContentKept DEF Types
<1> QED
  BY <1>12, <1>13, <1>14, <1>15, <1>16, <1>17, <1>19 DEF IInv

\* Where removals reach the disk in order, a sync brings all of them there.
LEMMA Synchronized ==
  ASSUME IInv, Risks = {}, NEW journals, NEW masters, Sync(journals, masters)
  PROVE  /\ removed' = [d \in Db |-> NoFile] /\ unlinked' = [n \in Name |-> NoFile]
         /\ disk' = [d \in Db |-> IF removed[d].on THEN {file[d]} ELSE disk[d]]
BY DEF Sync, Ordered

\* It leaves a database as it is.
LEMMA DatabaseSynced ==
  ASSUME IInv, NEW d \in Db, file'[d] = file[d], jrnl'[d] = jrnl[d], UNCHANGED mj,
         removed'[d] = NoFile, unlinked' = [n \in Name |-> NoFile],
         disk'[d] = IF removed[d].on THEN {file[d]} ELSE disk[d]
  PROVE  Database(d)'
<1>1. Database(d) /\ jrnl[d] \in Journal \union {NoFile} /\ Types
  BY DEF IInv, Types
<1>2. Settled(d)' /\ Unsynced(d)' /\ Undoable(d)'
  BY <1>1, Nothing DEF Database, Settled, Hot, Exists, Unsynced, Undoable
<1>3. jrnl[d].master \in Name \union {None}
  BY <1>1, JournalTyped
<1>4. jrnl[d].master # None => ~unlinked'[jrnl[d].master].on
  BY <1>3, Nothing
<1>5. Old(jrnl[d], d)' /\ Old(removed[d], d)'
  BY <1>1, <1>4, Nothing DEF Database, Old
<1> QED
  BY <1>2, <1>5 DEF Database

\* The journal is on the disk, with the name of its master.
LEMMA StepSyncJournal ==
  ASSUME IInv, Risks = {}, NEW p \in Proc, SyncJournal(p)
  PROVE  IInv'
<1>0. h[p].at \in Db
  BY HandleTyped DEF IInv, SyncJournal, Process, WritesOK
<1>a. PICK d \in Db : d = h[p].at
  BY <1>0
<1> DEFINE m == h[p].master
           r == [h[p] EXCEPT !.pc = "wait"]
           J == [jrnl[d] EXCEPT !.synced = TRUE]
<1>1. /\ Types /\ Holding /\ Process(p) /\ h[p].pc = "journal"
      /\ UNCHANGED <<file, mj, holder, files, done, faults>>
      /\ removed' = [e \in Db |-> NoFile] /\ unlinked' = [n \in Name |-> NoFile]
      /\ disk' = [e \in Db |-> IF removed[e].on THEN {file[e]} ELSE disk[e]]
  BY <1>a, Synchronized DEF IInv, SyncJournal, histVars
<1>2. CommitsOK(p) /\ OwnsMaster(p) /\ WritesOK(p) /\ h[p].pc \in Committing
  BY <1>1 DEF Process, Committing
<1>3. /\ h[p].tx # 0 /\ d \in h[p].dbs /\ d \in h[p].left /\ ~jrnl[d].synced /\ jrnl[d].master = m
      /\ jrnl[d].tx = h[p].tx /\ jrnl[d].good
      /\ h[p].left \subseteq files[h[p].tx]
  BY <1>a, <1>1, <1>2 DEF CommitsOK, WritesOK
<1>4. d \in Db /\ h[p].dbs \in SUBSET Db
  BY <1>1, <1>3, HandleTyped
<1>5. jrnl[d] \in Journal /\ jrnl[d].on
  BY <1>1, <1>3, <1>4, JournalTyped DEF Types, Holding
<1>6. /\ jrnl' = [jrnl EXCEPT ![d] = J] /\ h' = [h EXCEPT ![p] = r]
      /\ jrnl'[d] = J /\ h'[p] = r
      /\ \A e \in Db : e # d => jrnl'[e] = jrnl[e]
      /\ \A q \in Proc : q # p => h'[q] = h[q]
  BY <1>a, <1>1, <1>4 DEF SyncJournal, Types
<1>7. m \in Name \union {None} /\ h[p] \in Handle
  BY <1>1, HandleTyped
<1>8. J \in Journal /\ J.on /\ J.old = jrnl[d].old /\ J.master = m /\ J.synced /\ J.good
      /\ J.tx = jrnl[d].tx
  BY <1>3, <1>5 DEF Journal
<1>9. r \in Handle /\ r.pc = "wait" /\ r.tx = h[p].tx /\ r.dbs = h[p].dbs /\ r.left = h[p].left
      /\ r.at = d /\ r.master = m
  BY <1>a, <1>7 DEF Handle, Committing
<1>10. m # None => /\ mj[m].on /\ mj[m].synced /\ d \in mj[m].kids /\ mj[m].kids = h[p].dbs /\ m \in Name
                   /\ \A q \in Proc : q # p => h[q].master # m
                   /\ \A e \in Db : removed[e].master # m /\ (jrnl[e].master = m => e \in h[p].dbs)
  BY <1>1, <1>2, <1>3, <1>7 DEF OwnsMaster
<1>11. \A e \in Db : Database(e)
  BY DEF IInv
<1>12. jrnl[d].old = file[d] /\ disk'[d] = {file[d]}
  BY <1>1, <1>3, <1>4, <1>5, <1>11 DEF Database, Unsynced, Settled, Hot
<1> HIDE DEF J, r, m
<1>13. \A q \in Proc : q # p => d \notin h[q].dbs /\ h[q].dbs \in SUBSET Db
  BY <1>1, <1>3, <1>4, HandleTyped DEF Holding
<1>14. Types'
  <2>1. \A e \in Db : disk'[e] \in SUBSET Version /\ file'[e] \in disk'[e]
    BY <1>1 DEF Types
  <2>2. jrnl' \in [Db -> Journal \union {NoFile}]
    BY <1>1, <1>6, <1>8 DEF Types
  <2>3. h' \in [Proc -> Handle]
    BY <1>1, <1>6, <1>9 DEF Types
  <2> QED
    BY <1>1, <2>1, <2>2, <2>3, Nothing DEF Types, Begun, Version, Journal, Handle, MasterFile, Removed
<1>15. Holding'
  <2>1. \A q \in Proc : h'[q].dbs = h[q].dbs /\ h'[q].tx = h[q].tx
    BY <1>6, <1>9
  <2>2. \A e \in Db : jrnl'[e].on = jrnl[e].on
    BY <1>5, <1>6, <1>8 DEF Journal
  <2> QED
    BY <1>1, <2>1, <2>2, HandleTyped DEF Holding
<1>16. \A e \in Db : Database(e)'
  <2>1. \A e \in Db : e # d => Database(e)'
    BY <1>1, <1>6, DatabaseSynced
  <2>2. Settled(d)' /\ Unsynced(d)' /\ Undoable(d)' /\ Old(removed[d], d)'
    BY <1>1, <1>4, <1>6, <1>8, <1>12, Nothing DEF Settled, Unsynced, Undoable, Old
  <2>3. Old(jrnl[d], d)'
    <3>1. m # None => ~unlinked'[m].on
      BY <1>1, <1>10, Nothing
    <3> QED
      BY <1>1, <1>4, <1>5, <1>6, <1>8, <1>10, <1>11, <3>1 DEF Database, Old
  <2> QED
    BY <1>4, <2>1, <2>2, <2>3 DEF Database
<1>17. \A n \in Name : Master(n)'
  BY <1>1, MasterKept, Nothing
<1>18. \A q \in Proc : q # p => Process(q)'
  <2> TAKE q \in Proc
  <2> SUFFICES ASSUME q # p PROVE Process(q)'
    OBVIOUS
  <2>1. \A e \in h[q].dbs : jrnl'[e] = jrnl[e] /\ (disk'[e] = disk[e] \/ disk'[e] = {file[e]})
    BY <1>1, <1>6, <1>13
  <2>2. \A e \in Db : jrnl'[e].master = jrnl[e].master /\ removed'[e].master = None
    BY <1>1, <1>3, <1>6, <1>8, Nothing
  <2>3. h[q].master # None /\ h[q].pc \in Committing =>
          /\ \A o \in Proc : o # q => h'[o].master # h[q].master
          /\ \A e \in Db : removed'[e].master # h[q].master /\ (jrnl'[e].master = h[q].master => e \in h[q].dbs)
    <3>1. h[q].master # None /\ h[q].pc \in Committing =>
            /\ \A o \in Proc : o # q => h[o].master # h[q].master
            /\ \A e \in Db : jrnl[e].master = h[q].master => e \in h[q].dbs
      BY DEF IInv, Process, OwnsMaster
    <3>2. \A o \in Proc : h'[o].master = h[o].master
      BY <1>6, <1>9 DEF m
    <3> QED
      BY <2>2, <3>1, <3>2
  <2>4. h[q].master # None => ~unlinked'[h[q].master].on
    BY <1>1, HandleTyped, Nothing
  <2>5. h[q].pc = "drop" => h[q].at \in h[q].dbs
    BY DEF IInv, Process, UndoesOK, Undoing
  <2>6. h[q].pc = "drop" => (Hot(h[q].at)' => Hot(h[q].at))
    <3>1. h[q].pc = "drop" => h'[q].at = h[q].at /\ jrnl'[h[q].at] = jrnl[h[q].at]
      BY <1>6, <2>1, <2>5
    <3> QED
      BY <1>1, <3>1 DEF Hot, Exists
  <2> QED
    BY <1>1, <1>6, <2>1, <2>2, <2>3, <2>4, <2>6, ProcessKept
<1>19. Process(p)'
  <2>1. CommitsOK(p)'
    <3>1. \A e \in h[p].dbs : jrnl'[e].tx = h[p].tx /\ jrnl'[e].good
      BY <1>2, <1>3, <1>4, <1>6, <1>8 DEF CommitsOK
    <3>2. \A e \in h[p].dbs \ (files[h[p].tx] \ h[p].left) :
            e # d => ~jrnl'[e].synced /\ jrnl'[e].master = None
      BY <1>a, <1>2, <1>4, <1>6 DEF CommitsOK
    <3>3. \A e \in files[h[p].tx] \ h[p].left : e \in Db /\ jrnl'[e] = jrnl[e]
      BY <1>2, <1>3, <1>4, <1>6 DEF CommitsOK
    <3>4. \A e \in files[h[p].tx] \ h[p].left :
            jrnl'[e].synced /\ jrnl'[e].master = h[p].master /\ Has(jrnl[e], e)'
      BY <1>1, <1>2, <3>3 DEF CommitsOK, Has
    <3> QED
      BY <1>1, <1>2, <1>3, <1>6, <1>9, <3>1, <3>2, <3>4 DEF CommitsOK, m
  <2>2. WritesOK(p)'
    BY <1>1, <1>3, <1>6, <1>8, <1>9, <1>12 DEF WritesOK
  <2>3. OwnsMaster(p)'
    <3>1. m # None => \A e \in Db : removed'[e].master # m /\ (jrnl'[e].master = m => e \in h[p].dbs)
      BY <1>1, <1>3, <1>6, <1>10, Nothing
    <3>2. m # None => \A q \in Proc : q # p => h'[q].master # m
      BY <1>6, <1>10
    <3> QED
      BY <1>1, <1>6, <1>9, <1>10, <3>1, <3>2 DEF OwnsMaster
  <2>4. IdleOK(p)' /\ FinishesOK(p)' /\ UndoesOK(p)'
    BY <1>6, <1>9 DEF IdleOK, FinishesOK, UndoesOK, Finishing, Undoing
  <2> QED
    BY <2>1, <2>2, <2>3, <2>4 DEF Process
<1>20. \A e \in Db : Content(e)' = Content(e)
  <2>1. Content(d)' = Content(d)
    BY <1>1, <1>3, <1>4, <1>5, <1>6, <1>8, <1>12 DEF Content, Exists
  <2>2. \A e \in Db : e # d => Content(e)' = Content(e)
    BY <1>1, <1>6 DEF Content, Exists
  <2> QED
    BY <2>1, <2>2
<1>21. AllOrNone' /\ CommitStays'
  BY <1>1, <1>20, ContentKept DEF Types
<1> QED
  BY <1>14, <1>15, <1>16, <1>17, <1>18, <1>19, <1>21 DEF IInv

\* The removal of the master journal is on the disk: the transaction is committed for good.
LEMMA StepSyncDirectory ==
  ASSUME IInv, Risks = {}, NEW p \in Proc, SyncDirectory(p)
  PROVE  IInv'
<1> DEFINE t == h[p].tx
           r == [h[p] EXCEPT !.pc = "commit"]
<1>1. /\ Types /\ Holding /\ Process(p) /\ h[p].pc = "directory"
      /\ UNCHANGED <<file, jrnl, mj, holder, files, faults>> /\ done' = done \union {t}
      /\ removed' = [e \in Db |-> NoFile] /\ unlinked' = [n \in Name |-> NoFile]
      /\ disk' = [e \in Db |-> IF removed[e].on THEN {file[e]} ELSE disk[e]]
  BY Synchronized DEF IInv, SyncDirectory
<1>2. FinishesOK(p) /\ h[p].pc \in Finishing
  BY <1>1 DEF Process, Finishing
<1>3. /\ t # 0 /\ t \in Begun /\ t \notin done /\ files[t] \subseteq h[p].dbs /\ h[p].master # None
      /\ h[p].dbs \in SUBSET Db /\ h[p].master \in Name /\ ~mj[h[p].master].on
      /\ \A d \in files[t] : jrnl[d].master = h[p].master /\ jrnl[d].tx = t /\ Has(jrnl[d], d)
  BY <1>1, <1>2, HandleTyped DEF FinishesOK
<1>4. /\ h' = [h EXCEPT ![p] = r] /\ h'[p] = r /\ \A q \in Proc : q # p => h'[q] = h[q]
  BY <1>1 DEF SyncDirectory, Types
<1>5. r \in Handle /\ r.pc = "commit" /\ r.tx = t /\ r.dbs = h[p].dbs /\ r.left = h[p].left
      /\ r.at = h[p].at /\ r.master = h[p].master
  BY <1>1, HandleTyped DEF Handle, Finishing
<1> HIDE DEF r
<1>6. Types'
  <2>1. \A e \in Db : disk'[e] \in SUBSET Version /\ file'[e] \in disk'[e]
    BY <1>1 DEF Types
  <2>2. h' \in [Proc -> Handle]
    BY <1>1, <1>4, <1>5 DEF Types
  <2> QED
    BY <1>1, <1>3, <2>1, <2>2, Nothing DEF Types, Begun, Version, Journal, Handle, MasterFile, Removed
<1>7. Holding'
  <2>1. \A q \in Proc : h'[q].dbs = h[q].dbs /\ h'[q].tx = h[q].tx
    BY <1>4, <1>5
  <2> QED
    BY <1>1, <2>1 DEF Holding
<1>8. \A e \in Db : Database(e)'
  BY <1>1, DatabaseSynced
<1>9. \A n \in Name : Master(n)'
  BY <1>1, MasterKept, Nothing DEF Master
<1>10. \A q \in Proc : q # p => Process(q)'
  <2> TAKE q \in Proc
  <2> SUFFICES ASSUME q # p PROVE Process(q)'
    OBVIOUS
  <2>1. \A e \in h[q].dbs : disk'[e] = disk[e] \/ disk'[e] = {file[e]}
    BY <1>1, HandleTyped
  <2>2. \A e \in Db : removed'[e].master = None
    BY <1>1, Nothing
  <2>3. h[q].master # None /\ h[q].pc \in Committing =>
          /\ \A o \in Proc : o # q => h'[o].master # h[q].master
          /\ \A e \in Db : removed'[e].master # h[q].master /\ (jrnl'[e].master = h[q].master => e \in h[q].dbs)
    <3>1. h[q].master # None /\ h[q].pc \in Committing =>
            /\ \A o \in Proc : o # q => h[o].master # h[q].master
            /\ \A e \in Db : jrnl[e].master = h[q].master => e \in h[q].dbs
      BY DEF IInv, Process, OwnsMaster
    <3>2. \A o \in Proc : h'[o].master = h[o].master
      BY <1>4, <1>5
    <3> QED
      BY <1>1, <2>2, <3>1, <3>2
  <2>4. h[q].master # None => ~unlinked'[h[q].master].on
    BY <1>1, HandleTyped, Nothing
  <2>5. h[q].tx # 0 => (h[q].tx \in done' => h[q].tx \in done)
    BY <1>1, <1>3 DEF Holding
  <2>6. Hot(h[q].at)' => Hot(h[q].at)
    BY <1>1, <1>4 DEF Hot, Exists
  <2> QED
    BY <1>1, <1>4, <2>1, <2>2, <2>3, <2>4, <2>5, <2>6, ProcessKept
<1>11. Process(p)'
  <2>1. FinishesOK(p)'
    <3>1. \A e \in h[p].dbs \intersect files[t] :
            jrnl[e].synced /\ jrnl[e].master = h[p].master /\ Has(jrnl[e], e)'
      BY <1>1, <1>2, <1>3 DEF FinishesOK, Has
    <3>2. ~unlinked'[h[p].master].on
      BY <1>1, <1>3, Nothing
    <3> QED
      BY <1>1, <1>2, <1>3, <1>4, <1>5, <3>1, <3>2 DEF FinishesOK
  <2>2. IdleOK(p)' /\ CommitsOK(p)' /\ WritesOK(p)' /\ OwnsMaster(p)' /\ UndoesOK(p)'
    BY <1>4, <1>5 DEF IdleOK, CommitsOK, WritesOK, OwnsMaster, UndoesOK, Committing, Undoing
  <2> QED
    BY <2>1, <2>2 DEF Process
<1>12. AllOrNone' /\ CommitStays'
  <2>1. \A e \in Db : Content(e)' = Content(e)
    BY <1>1 DEF Content, Exists
  <2>2. \A d \in files[t] : t \in Content(d).tx
    <3> TAKE d \in files[t]
    <3>1. Content(d) = file[d]
      BY <1>3 DEF Content, Exists
    <3>2. Has(jrnl[d], d) /\ jrnl[d].tx = t
      BY <1>3
    <3>3. file[d].tx = jrnl[d].old.tx \union {t}
      BY <3>2 DEF Has
    <3> QED
      BY <3>1, <3>3
  <2>3. done' \subseteq Begun
    BY <1>1, <1>3 DEF Types
  <2> QED
    BY <1>1, <2>1, <2>2, <2>3, ContentKept
<1> QED
  BY <1>6, <1>7, <1>8, <1>9, <1>10, <1>11, <1>12 DEF IInv

-----------------------------------------------------------------------------
(* The database files.                                                       *)

\* A process writes to a database it holds, one that has a journal to bring it back; or
\* writes what is there already.
LEMMA FileStep ==
  ASSUME IInv, NEW p \in Proc, NEW d \in h[p].dbs,
         UNCHANGED <<jrnl, removed, mj, unlinked, holder, files, done, faults>>,
         NEW c \in SUBSET Version, NEW v \in c,
         file' = [file EXCEPT ![d] = v], disk' = [disk EXCEPT ![d] = c],
         Hot(d) \/ (v = file[d] /\ (disk[d] = {file[d]} => c = disk[d])),
         NEW r \in Handle, h' = [h EXCEPT ![p] = r], r.dbs = h[p].dbs, r.tx = h[p].tx,
         r.master \in {None, h[p].master, jrnl[d].master},
         Process(p)'
  PROVE  IInv'
<1>1. Types /\ Holding /\ Database(d) /\ d \in Db /\ h[p].dbs \in SUBSET Db
  BY HandleTyped DEF IInv
<1>2. /\ file'[d] = v /\ disk'[d] = c /\ h'[p] = r /\ v \in Version
      /\ \A e \in Db : e # d => file'[e] = file[e] /\ disk'[e] = disk[e]
      /\ \A q \in Proc : q # p => h'[q] = h[q]
  BY <1>1 DEF Types
<1>3. \A q \in Proc : q # p => d \notin h[q].dbs /\ h[q].dbs \in SUBSET Db
  BY <1>1, HandleTyped DEF Holding
<1>4. /\ jrnl[d] \in Journal \union {NoFile} /\ removed[d] \in Journal \union {NoFile}
      /\ jrnl[d].master \in Name \union {None}
      /\ ~removed[d].on => removed[d].master = None
  BY <1>1, JournalTyped DEF Types
<1>5. Hot(d) => /\ ~removed[d].on /\ removed[d].master = None
                /\ \A n \in Name : unlinked[n].on => jrnl[d].master # n
  <2>1. Hot(d) => ~removed[d].on
    BY <1>1 DEF Hot, Database, Undoable
  <2>2. Hot(d) => \A n \in Name : unlinked[n].on => jrnl[d].master # n
    BY MasterAssumption DEF Hot, Exists, IInv, Master
  <2> QED
    BY <1>4, <2>1, <2>2
<1>6. Types'
  <2>1. file' \in [Db -> Version] /\ disk' \in [Db -> SUBSET Version] /\ h' \in [Proc -> Handle]
    BY <1>1 DEF Types
  <2>2. \A e \in Db : file'[e] \in disk'[e]
    BY <1>1, <1>2 DEF Types
  <2> QED
    BY <1>1, <2>1, <2>2 DEF Types, Begun, Version, Journal, Handle, MasterFile, Removed
<1>7. Holding'
  <2>1. \A q \in Proc : h'[q].dbs = h[q].dbs /\ h'[q].tx = h[q].tx
    BY <1>2
  <2> QED
    BY <1>1, <2>1 DEF Holding
<1>8. \A e \in Db : Database(e)'
  <2>1. \A e \in Db : e # d => Database(e)'
    BY <1>2, DatabaseKept DEF SameMaster
  <2>2. Unsynced(d)'
    BY <1>1, <1>2 DEF Hot, Database, Unsynced
  <2>3. Old(jrnl[d], d)' /\ Old(removed[d], d)'
    BY <1>1 DEF Database, Old
  <2>4. Settled(d)' /\ Undoable(d)'
    <3>1. CASE Hot(d)
      <4>1. Hot(d)' /\ ~removed'[d].on
        BY <1>5, <3>1 DEF Hot, Exists
      <4> QED
        BY <4>1 DEF Settled, Undoable
    <3>2. CASE v = file[d] /\ (disk[d] = {file[d]} => c = disk[d])
      <4>1. Hot(d)' <=> Hot(d)
        BY DEF Hot, Exists
      <4>2. file'[d] = file[d] /\ (disk[d] = {file[d]} => disk'[d] = {file'[d]})
        BY <1>2, <3>2
      <4> QED
        BY <1>1, <4>1, <4>2 DEF Database, Settled, Undoable, Has
    <3> QED
      BY <3>1, <3>2
  <2> QED
    BY <2>1, <2>2, <2>3, <2>4 DEF Database
<1>9. \A n \in Name : Master(n)'
  <2> TAKE n \in Name
  <2>1. unlinked[n].on /\ unlinked[n].commit /\ Naming(n, d) # {} => file'[d] = file[d] /\ disk'[d] = disk[d]
    <3> SUFFICES ASSUME unlinked[n].on, unlinked[n].commit, Naming(n, d) # {}
                 PROVE  file'[d] = file[d] /\ disk'[d] = disk[d]
      OBVIOUS
    <3>1. PICK J \in {jrnl[d], removed[d]} : J.master = n
      BY DEF Naming
    <3>2. Has(J, d)
      BY <1>1, <3>1 DEF IInv, Master, Committed
    <3>3. ~Hot(d)
      BY <1>5, <3>1, MasterAssumption
    <3> QED
      BY <1>2, <3>2, <3>3 DEF Has
  <2>2. \A e \in Db : Naming(n, e)' = Naming(n, e)
    BY DEF Naming
  <2> QED
    BY <1>2, <2>1, <2>2, MasterKept
<1>10. \A q \in Proc : q # p => Process(q)'
  <2> TAKE q \in Proc
  <2> SUFFICES ASSUME q # p PROVE Process(q)'
    OBVIOUS
  <2>1. \A e \in h[q].dbs : file'[e] = file[e] /\ disk'[e] = disk[e]
    BY <1>2, <1>3
  <2>2. h[q].master # None /\ h[q].pc \in Committing =>
          /\ \A o \in Proc : o # q => h'[o].master # h[q].master
          /\ \A e \in Db : removed[e].master # h[q].master /\ (jrnl[e].master = h[q].master => e \in h[q].dbs)
    <3>1. h[q].master # None /\ h[q].pc \in Committing =>
            /\ \A o \in Proc : o # q => h[o].master # h[q].master
            /\ \A e \in Db : removed[e].master # h[q].master /\ (jrnl[e].master = h[q].master => e \in h[q].dbs)
      BY DEF IInv, Process, OwnsMaster
    <3>2. \A o \in Proc : o # p => h'[o].master = h[o].master
      BY <1>2
    <3>3. h[q].master # None /\ h[q].pc \in Committing => r.master # h[q].master
      BY <1>1, <1>3, <3>1
    <3> QED
      BY <1>2, <3>1, <3>2, <3>3
  <2>3. Hot(h[q].at)' => Hot(h[q].at)
    BY <1>2 DEF Hot, Exists
  <2> QED
    BY <1>2, <2>1, <2>2, <2>3, ProcessKept
<1>11. AllOrNone' /\ CommitStays'
  <2>1. Content(d)' = Content(d)
    <3>1. CASE Hot(d)
      BY <3>1 DEF Hot, Content, Exists
    <3>2. CASE v = file[d]
      BY <1>2, <3>2 DEF Content, Exists
    <3> QED
      BY <3>1, <3>2
  <2>2. \A e \in Db : Content(e)' = Content(e)
    BY <1>2, <2>1 DEF Content, Exists
  <2> QED
    BY <1>1, <2>2, ContentKept DEF Types
<1> QED
  BY <1>6, <1>7, <1>8, <1>9, <1>10, <1>11 DEF IInv

\* Pages are written, behind a journal that is on the disk.
LEMMA StepWritePages ==
  ASSUME IInv, NEW p \in Proc, WritePages(p)
  PROVE  IInv'
<1>1. /\ Types /\ Holding /\ Process(p) /\ h[p].pc = "wait"
      /\ UNCHANGED <<jrnl, removed, mj, unlinked, holder, files, done, faults>>
  BY DEF IInv, WritePages, jrnlVars, masterVars, histVars
<1>2. CommitsOK(p) /\ OwnsMaster(p) /\ WritesOK(p) /\ h[p].pc \in Committing
  BY <1>1 DEF Process, Committing
<1>3. PICK d \in Db : d = h[p].at
  BY <1>1, <1>2, HandleTyped DEF WritesOK
<1> DEFINE v == [file[d] EXCEPT !.whole = FALSE]
           c == disk[d] \union {v, New(p, d)}
           r == [h[p] EXCEPT !.pc = "write"]
<1>4. /\ d \in h[p].left /\ d \in files[h[p].tx] /\ d \in h[p].dbs
      /\ jrnl[d].synced /\ jrnl[d].good /\ jrnl[d].master = h[p].master
      /\ file[d] = jrnl[d].old /\ h[p].tx # 0
  BY <1>1, <1>2, <1>3 DEF CommitsOK, WritesOK
<1>5. /\ file' = [file EXCEPT ![d] = v] /\ disk' = [disk EXCEPT ![d] = c] /\ file'[d] = v
      /\ \A e \in Db : e # d => file'[e] = file[e] /\ disk'[e] = disk[e]
  BY <1>1, <1>3 DEF WritePages, Types
<1>6. h' = [h EXCEPT ![p] = r] /\ h'[p] = r
  BY <1>1 DEF WritePages, Types
<1>7. v \in Version /\ v.tx = file[d].tx /\ c \in SUBSET Version /\ v \in c
  <2>1. file[d] \in Version /\ disk[d] \in SUBSET Version /\ h[p].tx \in Begun
    BY <1>1, <1>4, HandleTyped DEF Types
  <2>2. v \in Version /\ v.tx = file[d].tx
    BY <2>1 DEF Version
  <2>3. New(p, d) \in Version
    BY <2>1 DEF New, Version
  <2> QED
    BY <2>1, <2>2, <2>3
<1>8. r \in Handle /\ r.pc = "write" /\ r.tx = h[p].tx /\ r.dbs = h[p].dbs /\ r.left = h[p].left
      /\ r.at = h[p].at /\ r.master = h[p].master
  BY <1>1, HandleTyped DEF Handle, Committing
<1>9. Hot(d)
  BY <1>1, <1>2, <1>4 DEF Hot, Exists, OwnsMaster, Holding
<1> HIDE DEF v, c, r
<1>10. Process(p)'
  <2>1. CommitsOK(p)'
    <3>1. \A e \in files[h[p].tx] \ h[p].left :
            jrnl[e].synced /\ jrnl[e].master = h[p].master /\ Has(jrnl[e], e)'
      <4> TAKE e \in files[h[p].tx] \ h[p].left
      <4>1. e \in Db /\ e # d
        BY <1>1, <1>2, <1>4, HandleTyped DEF CommitsOK
      <4>2. jrnl[e].synced /\ jrnl[e].master = h[p].master /\ Has(jrnl[e], e)
        BY <1>2 DEF CommitsOK
      <4> QED
        BY <1>1, <1>5, <4>1, <4>2 DEF Has
    <3> QED
      BY <1>1, <1>2, <1>6, <1>8, <3>1 DEF CommitsOK
  <2>2. WritesOK(p)' /\ OwnsMaster(p)'
    <3>1. WritesOK(p)'
      BY <1>1, <1>3, <1>4, <1>5, <1>6, <1>7, <1>8 DEF WritesOK
    <3>2. \A q \in Proc : q # p => h'[q].master = h[q].master
      BY <1>1, <1>6 DEF Types
    <3>3. OwnsMaster(p)'
      BY <1>1, <1>2, <1>6, <1>8, <3>2 DEF OwnsMaster
    <3> QED
      BY <3>1, <3>3
  <2>3. IdleOK(p)' /\ FinishesOK(p)' /\ UndoesOK(p)'
    BY <1>6, <1>8 DEF IdleOK, FinishesOK, UndoesOK, Finishing, Undoing
  <2> QED
    BY <2>1, <2>2, <2>3 DEF Process
<1> QED
  BY <1>1, <1>4, <1>5, <1>6, <1>7, <1>8, <1>9, <1>10, FileStep

\* The database is synced.
LEMMA StepSyncFile ==
  ASSUME IInv, NEW p \in Proc, SyncFile(p)
  PROVE  IInv'
<1>1. /\ Types /\ Holding /\ Process(p) /\ h[p].pc = "write"
      /\ UNCHANGED <<jrnl, removed, mj, unlinked, holder, files, done, faults>>
  BY DEF IInv, SyncFile, jrnlVars, masterVars, histVars
<1>2. CommitsOK(p) /\ OwnsMaster(p) /\ WritesOK(p) /\ h[p].pc \in Committing
  BY <1>1 DEF Process, Committing
<1>3. PICK d \in Db : d = h[p].at
  BY <1>1, <1>2, HandleTyped DEF WritesOK
<1> DEFINE v == New(p, d)
           r == [h[p] EXCEPT !.pc = "next", !.left = h[p].left \ {d}, !.at = None]
<1>4. /\ d \in h[p].left /\ d \in files[h[p].tx] /\ d \in h[p].dbs
      /\ jrnl[d].synced /\ jrnl[d].good /\ jrnl[d].master = h[p].master /\ jrnl[d].tx = h[p].tx
      /\ file[d].tx = jrnl[d].old.tx /\ h[p].tx # 0
  BY <1>1, <1>2, <1>3 DEF CommitsOK, WritesOK
<1>5. /\ file' = [file EXCEPT ![d] = v] /\ file'[d] = v
      /\ \A e \in Db : e # d => file'[e] = file[e]
  BY <1>1, <1>3 DEF SyncFile, Types
<1>6. h' = [h EXCEPT ![p] = r] /\ h'[p] = r
  BY <1>1, <1>3 DEF SyncFile, Types
<1>7. /\ disk' = [disk EXCEPT ![d] = {v}] /\ disk'[d] = {v}
      /\ \A e \in Db : e # d => disk'[e] = disk[e]
  BY <1>1, <1>3, <1>5 DEF SyncFile, Types
<1>8. v = [tx |-> jrnl[d].old.tx \union {jrnl[d].tx}, whole |-> TRUE] /\ v \in Version
  <2>1. file[d] \in Version /\ h[p].tx \in Begun
    BY <1>1, <1>4, HandleTyped DEF Types
  <2> QED
    BY <1>4, <2>1 DEF New, Version
<1>9. r \in Handle /\ r.pc = "next" /\ r.tx = h[p].tx /\ r.dbs = h[p].dbs /\ r.left = h[p].left \ {d}
      /\ r.at = None /\ r.master = h[p].master
  BY <1>1, HandleTyped DEF Handle, Committing
<1>10. Hot(d)
  BY <1>1, <1>2, <1>4 DEF Hot, Exists, OwnsMaster, Holding
<1> HIDE DEF v, r
<1>11. Process(p)'
  <2>1. CommitsOK(p)'
    <3>1. \A e \in files[h[p].tx] \ r.left :
            jrnl[e].synced /\ jrnl[e].master = h[p].master /\ Has(jrnl[e], e)'
      <4> TAKE e \in files[h[p].tx] \ r.left
      <4>1. CASE e = d
        BY <1>1, <1>4, <1>5, <1>7, <1>8, <4>1 DEF Has
      <4>2. CASE e # d
        <5>1. e \in Db /\ e \in files[h[p].tx] \ h[p].left
          BY <1>1, <1>2, <1>9, <4>2, HandleTyped DEF CommitsOK
        <5>2. jrnl[e].synced /\ jrnl[e].master = h[p].master /\ Has(jrnl[e], e)
          BY <1>2, <5>1 DEF CommitsOK
        <5> QED
          BY <1>1, <1>5, <1>7, <4>2, <5>1, <5>2 DEF Has
      <4> QED
        BY <4>1, <4>2
    <3>2. \A e \in h[p].dbs \ (files[h[p].tx] \ r.left) : ~jrnl[e].synced /\ jrnl[e].master = None
      BY <1>2, <1>3, <1>4, <1>9 DEF CommitsOK
    <3> QED
      BY <1>1, <1>2, <1>6, <1>9, <3>1, <3>2 DEF CommitsOK
  <2>2. OwnsMaster(p)'
    <3>1. \A q \in Proc : q # p => h'[q].master = h[q].master
      BY <1>1, <1>6 DEF Types
    <3> QED
      BY <1>1, <1>2, <1>6, <1>9, <3>1 DEF OwnsMaster
  <2>3. IdleOK(p)' /\ WritesOK(p)' /\ FinishesOK(p)' /\ UndoesOK(p)'
    BY <1>6, <1>9 DEF IdleOK, WritesOK, FinishesOK, UndoesOK, Finishing, Undoing
  <2> QED
    BY <2>1, <2>2, <2>3 DEF Process
<1> QED
  BY <1>1, <1>4, <1>5, <1>6, <1>7, <1>8, <1>9, <1>10, <1>11, FileStep

\* A journal is played back, unless it was cut short or its master is missing.
LEMMA StepPlayback ==
  ASSUME IInv, NEW p \in Proc, NEW d \in Db, Playback(p, d)
  PROVE  IInv'
<1> DEFINE n == jrnl[d].master
           play == n = None \/ Exists(n)
           r == [h[p] EXCEPT !.pc = "drop", !.at = d, !.master = IF play THEN n ELSE None]
           v == IF play /\ jrnl[d].good THEN jrnl[d].old ELSE file[d]
           c == IF play /\ jrnl[d].good THEN Overwritten(disk[d], jrnl[d].old) ELSE disk[d]
<1>1. /\ Types /\ Holding /\ Process(p) /\ Database(d) /\ h[p].pc = "rollback"
      /\ d \in h[p].dbs \ Unwritten(p)
      /\ UNCHANGED <<jrnl, removed, mj, unlinked, holder, files, done, faults>>
  BY DEF IInv, Playback, jrnlVars, masterVars, histVars
<1>2. h' = [h EXCEPT ![p] = r] /\ h'[p] = r /\ \A q \in Proc : q # p => h'[q] = h[q]
  BY <1>1 DEF Playback, Types
<1>3. /\ file' = [file EXCEPT ![d] = v] /\ disk' = [disk EXCEPT ![d] = c]
      /\ file'[d] = v /\ disk'[d] = c
      /\ \A e \in Db : e # d => file'[e] = file[e] /\ disk'[e] = disk[e]
  BY <1>1 DEF Playback, Types, dbVars
<1>4. jrnl[d] \in Journal \union {NoFile} /\ jrnl[d].on /\ n \in Name \union {None}
      /\ jrnl[d].old \in Version
  BY <1>1, JournalTyped DEF Types, Holding
<1>5. c \in SUBSET Version /\ v \in c
  <2>1. file[d] \in Version /\ disk[d] \in SUBSET Version /\ file[d] \in disk[d]
    BY <1>1 DEF Types
  <2>2. Overwritten(disk[d], jrnl[d].old) \in SUBSET Version /\ jrnl[d].old \in Overwritten(disk[d], jrnl[d].old)
    <3>1. [jrnl[d].old EXCEPT !.whole = FALSE] \in Version
      BY <1>4 DEF Version
    <3> QED
      BY <1>4, <2>1, <3>1 DEF Overwritten
  <2> QED
    BY <2>1, <2>2
<1>6. r \in Handle /\ r.pc = "drop" /\ r.tx = h[p].tx /\ r.dbs = h[p].dbs /\ r.left = h[p].left
      /\ r.at = d /\ r.master \in {None, n}
  BY <1>1, <1>4, HandleTyped DEF Handle, Undoing
<1>7. Hot(d) \/ (v = file[d] /\ (disk[d] = {file[d]} => c = disk[d]))
  <2>1. CASE play /\ jrnl[d].good /\ ~jrnl[d].synced
    <3>1. jrnl[d].old = file[d]
      BY <1>1, <1>4, <2>1 DEF Database, Unsynced
    <3> QED
      BY <2>1, <3>1 DEF Overwritten
  <2>2. CASE play /\ jrnl[d].good /\ jrnl[d].synced
    BY <1>4, <2>2 DEF Hot
  <2>3. CASE ~(play /\ jrnl[d].good)
    BY <2>3
  <2> QED
    BY <1>4, <2>1, <2>2, <2>3, JournalTyped
<1>8. Hot(d)' => file'[d] = jrnl'[d].old
  <2>1. Hot(d)' => play /\ jrnl[d].good
    BY <1>1 DEF Hot, Exists
  <2> QED
    BY <1>1, <1>3, <2>1
<1> HIDE DEF v, c, r
<1>9. Process(p)'
  <2>1. UndoesOK(p)'
    <3>1. UndoesOK(p) /\ h[p].pc \in Undoing
      BY <1>1 DEF Process, Undoing
    <3>2. Unwritten(p)' = Unwritten(p)
      BY <1>1, <1>2, <1>6 DEF Unwritten
    <3>3. \A e \in h[p].dbs \intersect Unwritten(p) :
            jrnl[e].synced => file'[e] = jrnl[e].old /\ disk'[e] = {file'[e]}
      <4> TAKE e \in h[p].dbs \intersect Unwritten(p)
      <4>1. e # d /\ e \in Db
        BY <1>1, HandleTyped
      <4>2. jrnl[e].synced => file[e] = jrnl[e].old /\ disk[e] = {file[e]}
        BY <3>1 DEF UndoesOK
      <4> QED
        BY <1>3, <4>1, <4>2
    <3>4. h'[p].pc = "drop" /\ h'[p].at = d /\ h'[p].dbs = h[p].dbs /\ h'[p].left = h[p].left
          /\ h'[p].tx = h[p].tx
      BY <1>2, <1>6
    <3>5. (Hot(h[p].at) => file[h[p].at] = jrnl[h[p].at].old)'
      BY <1>8, <3>4 DEF Hot, Exists
    <3> QED
      BY <1>1, <3>1, <3>2, <3>3, <3>4, <3>5 DEF UndoesOK
  <2>2. IdleOK(p)' /\ CommitsOK(p)' /\ WritesOK(p)' /\ OwnsMaster(p)' /\ FinishesOK(p)'
    BY <1>2, <1>6 DEF IdleOK, CommitsOK, WritesOK, OwnsMaster, FinishesOK, Committing, Finishing
  <2> QED
    BY <2>1, <2>2 DEF Process
<1> QED
  BY <1>1, <1>2, <1>3, <1>5, <1>6, <1>7, <1>9, FileStep

-----------------------------------------------------------------------------
(* The master journals.                                                      *)

\* A process changes one master journal, which nobody else is committing with.
LEMMA MasterStep ==
  ASSUME IInv, NEW p \in Proc, NEW n \in Name,
         UNCHANGED <<file, disk, jrnl, removed, holder, files, done, faults>>,
         NEW M \in MasterFile, mj' = [mj EXCEPT ![n] = M],
         NEW U \in Removed \union {NoFile}, unlinked' = [unlinked EXCEPT ![n] = U],
         NEW r \in Handle, h' = [h EXCEPT ![p] = r], r.dbs = h[p].dbs, r.tx = h[p].tx \/ r.tx = 0,
         r.master \in {None, n, h[p].master},
         \A q \in Proc : q # p /\ h[q].master = n => h[q].pc \in Undoing /\ ~M.on,
         M.on => mj[n].on \/ \A d \in Db : jrnl[d].master # n,
         \A d \in Db : n \in {jrnl[d].master, removed[d].master} => Database(d)',
         Master(n)', Process(p)', AllOrNone', CommitStays'
  PROVE  IInv'
<1>1. Types /\ Holding
  BY DEF IInv
<1>2. /\ mj'[n] = M /\ unlinked'[n] = U /\ h'[p] = r
      /\ \A k \in Name : k # n => mj'[k] = mj[k] /\ unlinked'[k] = unlinked[k]
      /\ \A q \in Proc : q # p => h'[q] = h[q]
  BY <1>1 DEF Types
<1>3. Types'
  <2>1. h' \in [Proc -> Handle] /\ mj' \in [Name -> MasterFile] /\ unlinked' \in [Name -> Removed \union {NoFile}]
    BY <1>1 DEF Types
  <2> QED
    BY <1>1, <2>1 DEF Types, Begun, Version, Journal, Handle, MasterFile, Removed
<1>4. Holding'
  <2>1. \A q \in Proc : h'[q].dbs = h[q].dbs /\ (h'[q].tx = h[q].tx \/ h'[q].tx = 0)
    BY <1>2
  <2> QED
    BY <1>1, <2>1 DEF Holding
<1>5. \A d \in Db : Database(d)'
  <2> TAKE d \in Db
  <2>1. jrnl[d].master \in Name \union {None} /\ removed[d].master \in Name \union {None}
    BY <1>1, JournalTyped DEF Types
  <2> QED
    BY <1>2, <2>1, DatabaseKept DEF SameMaster
<1>6. \A k \in Name : Master(k)'
  <2> TAKE k \in Name
  <2>1. \A d \in Db : Naming(k, d)' = Naming(k, d)
    BY DEF Naming
  <2> QED
    BY <1>2, <2>1, MasterKept
<1>7. \A q \in Proc : q # p => Process(q)'
  <2> TAKE q \in Proc
  <2> SUFFICES ASSUME q # p PROVE Process(q)'
    OBVIOUS
  <2>1. h[q].master \in Name \union {None} /\ Process(q)
    BY <1>1, HandleTyped DEF IInv
  <2>2. h[q].master # None /\ h[q].pc \notin Undoing =>
          h[q].master # n /\ mj'[h[q].master] = mj[h[q].master] /\ unlinked'[h[q].master] = unlinked[h[q].master]
    BY <1>2, <2>1
  <2>3. h[q].master # None /\ h[q].pc \in Committing =>
          /\ \A o \in Proc : o # q => h'[o].master # h[q].master
          /\ \A d \in Db : removed[d].master # h[q].master /\ (jrnl[d].master = h[q].master => d \in h[q].dbs)
    <3>1. h[q].master # None /\ h[q].pc \in Committing =>
            /\ \A o \in Proc : o # q => h[o].master # h[q].master
            /\ \A d \in Db : removed[d].master # h[q].master /\ (jrnl[d].master = h[q].master => d \in h[q].dbs)
      BY <2>1 DEF Process, OwnsMaster
    <3>2. h[q].pc \in Committing => h[q].pc \notin Undoing
      BY DEF Committing, Undoing
    <3> QED
      BY <1>2, <2>2, <3>1, <3>2
  <2>4. h[q].pc \in Committing \union Finishing => h[q].pc \notin Undoing
    BY DEF Committing, Finishing, Undoing
  <2>5. h[q].master # None /\ mj'[h[q].master].on => mj'[h[q].master] = mj[h[q].master]
    BY <1>2, <2>1
  <2>6. h[q].pc = "drop" => (Hot(h[q].at)' => Hot(h[q].at))
    <3>1. h[q].pc = "drop" => h[q].at \in h[q].dbs
      BY <2>1 DEF Process, UndoesOK, Undoing
    <3>2. h[q].pc = "drop" => h[q].at \in Db
      BY <1>1, <3>1, HandleTyped
    <3>3. \A d \in Db : jrnl[d].master \in Name \union {None}
      BY <1>1, JournalTyped DEF Types
    <3>4. \A d \in Db : jrnl[d].master # None /\ mj'[jrnl[d].master].on => mj[jrnl[d].master].on
      BY <1>2, <3>3
    <3> QED
      BY <1>2, <3>2, <3>4 DEF Hot, Exists
  <2> QED
    BY <1>2, <2>2, <2>3, <2>4, <2>5, <2>6, ProcessKept
<1> QED
  BY <1>2, <1>3, <1>4, <1>5, <1>6, <1>7 DEF IInv

\* A process writes a master journal with the names of its journals.
LEMMA StepCreateMaster ==
  ASSUME IInv, NEW p \in Proc, NEW n \in Name, CreateMaster(p, n)
  PROVE  IInv'
<1> DEFINE M == [on |-> TRUE, kids |-> h[p].dbs, synced |-> FALSE]
           r == [h[p] EXCEPT !.pc = "master", !.master = n]
<1>1. /\ Types /\ Process(p) /\ h[p].pc = "open" /\ Unused(n)
      /\ UNCHANGED <<file, disk, jrnl, removed, unlinked, holder, files, done, faults>>
      /\ mj' = [mj EXCEPT ![n] = M] /\ h' = [h EXCEPT ![p] = r]
  BY DEF IInv, CreateMaster, dbVars, jrnlVars, histVars
<1>2. /\ mj'[n] = M /\ h'[p] = r
      /\ \A k \in Name : k # n => mj'[k] = mj[k]
      /\ \A q \in Proc : q # p => h'[q] = h[q]
  BY <1>1 DEF Types
<1>3. unlinked' = [unlinked EXCEPT ![n] = unlinked[n]] /\ unlinked[n] \in Removed \union {NoFile} /\ ~unlinked[n].on
  BY <1>1 DEF Types, Unused
<1>4. M \in MasterFile /\ M.on /\ M.kids = h[p].dbs
  BY <1>1, HandleTyped DEF MasterFile
<1>5. r \in Handle /\ r.pc = "master" /\ r.tx = h[p].tx /\ r.dbs = h[p].dbs /\ r.left = h[p].left
      /\ r.at = h[p].at /\ r.master = n
  BY <1>1, HandleTyped DEF Handle, Committing
<1>6. n # None /\ \A d \in Db : jrnl[d].master # n /\ removed[d].master # n
  BY <1>1, MasterAssumption DEF Unused
<1> HIDE DEF M, r
<1>7. Master(n)'
  BY <1>1, <1>3 DEF Master, Committed, Orphaned
<1>8. Process(p)'
  <2>1. CommitsOK(p) /\ h[p].left = files[h[p].tx]
    BY <1>1 DEF Process, CommitsOK, Committing
  <2>2. CommitsOK(p)'
    BY <1>1, <1>2, <1>5, <1>6, <2>1 DEF CommitsOK, Committing
  <2>3. OwnsMaster(p)'
    <3>1. \A q \in Proc : q # p => h'[q].master # n
      BY <1>1, <1>2 DEF Unused
    <3> QED
      BY <1>1, <1>2, <1>4, <1>5, <1>6, <3>1 DEF OwnsMaster
  <2>4. IdleOK(p)' /\ WritesOK(p)' /\ FinishesOK(p)' /\ UndoesOK(p)'
    BY <1>2, <1>5 DEF IdleOK, WritesOK, FinishesOK, UndoesOK, Finishing, Undoing
  <2> QED
    BY <2>2, <2>3, <2>4 DEF Process
<1>9. AllOrNone' /\ CommitStays'
  <2>1. \A d \in Db : Content(d)' = Content(d)
    <3> TAKE d \in Db
    <3>1. jrnl[d].master \in Name \union {None}
      BY <1>1, JournalTyped DEF Types
    <3> QED
      BY <1>1, <1>2, <1>6, <3>1 DEF Content, Exists
  <2> QED
    BY <1>1, <2>1, ContentKept DEF Types
<1>10. \A q \in Proc : h[q].master # n
  BY <1>1 DEF Unused
<1> QED
  BY <1>1, <1>3, <1>4, <1>5, <1>6, <1>7, <1>8, <1>9, <1>10, MasterStep

\* The master journal is synced.
LEMMA StepSyncMaster ==
  ASSUME IInv, NEW p \in Proc, SyncMaster(p)
  PROVE  IInv'
<1>1. /\ Types /\ Process(p) /\ h[p].pc = "master"
      /\ UNCHANGED <<file, disk, jrnl, removed, unlinked, holder, files, done, faults>>
  BY DEF IInv, SyncMaster, dbVars, jrnlVars, histVars
<1>2. CommitsOK(p) /\ OwnsMaster(p) /\ h[p].pc \in Committing /\ h[p].master # None
  BY <1>1 DEF Process, CommitsOK, Committing
<1>3. PICK n \in Name : n = h[p].master
  BY <1>1, <1>2, HandleTyped
<1> DEFINE M == [mj[n] EXCEPT !.synced = TRUE]
           r == [h[p] EXCEPT !.pc = "next"]
<1>4. mj' = [mj EXCEPT ![n] = M] /\ h' = [h EXCEPT ![p] = r]
  BY <1>3 DEF SyncMaster
<1>5. /\ mj'[n] = M /\ h'[p] = r
      /\ \A k \in Name : k # n => mj'[k] = mj[k]
      /\ \A q \in Proc : q # p => h'[q] = h[q]
  BY <1>1, <1>4 DEF Types
<1>6. unlinked' = [unlinked EXCEPT ![n] = unlinked[n]]
  BY <1>1 DEF Types
<1>7. /\ mj[n].on /\ mj[n].kids = h[p].dbs
      /\ \A q \in Proc : q # p => h[q].master # n
      /\ \A d \in Db : removed[d].master # n /\ (jrnl[d].master = n => d \in h[p].dbs)
  BY <1>2, <1>3 DEF OwnsMaster
<1>8. M \in MasterFile /\ M.on /\ M.kids = h[p].dbs /\ M.synced
  BY <1>1, <1>7, Nothing DEF MasterFile, Removed, Types
<1>9. unlinked[n] \in Removed \union {NoFile}
  BY <1>1 DEF Types
<1>10. r \in Handle /\ r.pc = "next" /\ r.tx = h[p].tx /\ r.dbs = h[p].dbs /\ r.left = h[p].left
      /\ r.at = h[p].at /\ r.master = n
  BY <1>1, <1>3, HandleTyped DEF Handle, Committing
<1> HIDE DEF M, r
<1>11. \A k \in Name : SameMaster(k)
  <2>1. mj[n].on \in BOOLEAN /\ M.on \in BOOLEAN
    BY <1>1, <1>8, MasterTyped, Nothing DEF MasterFile, Removed
  <2> QED
    BY <1>1, <1>5, <1>7, <1>8, <2>1 DEF SameMaster
<1>12. \A d \in Db : Database(d)'
  <2> TAKE d \in Db
  <2>1. jrnl[d].master \in Name \union {None} /\ removed[d].master \in Name \union {None}
    BY <1>1, JournalTyped DEF Types
  <2> QED
    BY <1>1, <1>11, <2>1, DatabaseKept
<1>13. Master(n)'
  <2>1. mj'[n].on = mj[n].on /\ \A d \in Db : Naming(n, d)' = Naming(n, d)
    BY <1>1, <1>5, <1>7, <1>8 DEF Naming
  <2> QED
    BY <1>1, <2>1, MasterKept
<1>14. Process(p)'
  <2>1. CommitsOK(p)'
    <3>1. \A d \in files[h[p].tx] \ h[p].left :
            jrnl[d].synced /\ jrnl[d].master = h[p].master /\ Has(jrnl[d], d)'
      BY <1>1, <1>2 DEF CommitsOK, Has
    <3> QED
      BY <1>1, <1>2, <1>3, <1>5, <1>10, <3>1 DEF CommitsOK
  <2>2. OwnsMaster(p)'
    BY <1>1, <1>5, <1>7, <1>8, <1>10 DEF OwnsMaster
  <2>3. IdleOK(p)' /\ WritesOK(p)' /\ FinishesOK(p)' /\ UndoesOK(p)'
    BY <1>5, <1>10 DEF IdleOK, WritesOK, FinishesOK, UndoesOK, Finishing, Undoing
  <2> QED
    BY <2>1, <2>2, <2>3 DEF Process
<1>15. AllOrNone' /\ CommitStays'
  <2>1. \A d \in Db : Content(d)' = Content(d)
    <3> TAKE d \in Db
    <3>1. jrnl[d].master \in Name \union {None}
      BY <1>1, JournalTyped DEF Types
    <3>2. Exists(jrnl[d].master)' <=> Exists(jrnl[d].master)
      BY <1>1, <1>11, <3>1 DEF Exists, SameMaster
    <3> QED
      BY <1>1, <3>2 DEF Content
  <2> QED
    BY <1>1, <2>1, ContentKept DEF Types
<1> QED
  BY <1>1, <1>4, <1>6, <1>7, <1>8, <1>9, <1>10, <1>12, <1>13, <1>14, <1>15, MasterStep

\* The removal of the master journal commits the transaction in all its databases.
LEMMA StepRemoveMaster ==
  ASSUME IInv, NEW p \in Proc, RemoveMaster(p)
  PROVE  IInv'
<1>1. /\ Types /\ Holding /\ Process(p) /\ h[p].pc = "next" /\ h[p].left = {} /\ h[p].master # None
      /\ UNCHANGED <<file, disk, jrnl, removed, holder, files, done, faults>>
  BY DEF IInv, RemoveMaster, Synced, dbVars, jrnlVars, histVars
<1>2. CommitsOK(p) /\ OwnsMaster(p) /\ h[p].pc \in Committing
  BY <1>1 DEF Process, Committing
<1>3. PICK n \in Name : n = h[p].master
  BY <1>1, HandleTyped
<1>4. PICK t \in Begun : t = h[p].tx
  BY <1>1, <1>2, HandleTyped DEF CommitsOK
<1> DEFINE M == NoFile
           U == [on |-> TRUE, kids |-> mj[n].kids, synced |-> TRUE, commit |-> TRUE]
           r == [h[p] EXCEPT !.pc = "directory"]
<1>5. /\ mj' = [mj EXCEPT ![n] = M] /\ unlinked' = [unlinked EXCEPT ![n] = U]
      /\ h' = [h EXCEPT ![p] = r]
  BY <1>3 DEF RemoveMaster, DeleteMaster
<1>6. /\ mj'[n] = M /\ unlinked'[n] = U /\ h'[p] = r
      /\ \A k \in Name : k # n => mj'[k] = mj[k] /\ unlinked'[k] = unlinked[k]
      /\ \A q \in Proc : q # p => h'[q] = h[q]
  BY <1>1, <1>5 DEF Types
<1>7. /\ mj[n].on /\ mj[n].kids = h[p].dbs /\ h[p].dbs \in SUBSET Db
      /\ \A q \in Proc : q # p => h[q].master # n
      /\ \A d \in Db : removed[d].master # n /\ (jrnl[d].master = n => d \in h[p].dbs)
  BY <1>1, <1>2, <1>3, HandleTyped DEF OwnsMaster
<1>8. ~M.on /\ M \in MasterFile /\ U.on /\ U.kids = h[p].dbs /\ U.synced /\ U.commit /\ U \in Removed
  BY <1>7, Nothing DEF MasterFile, Removed
<1>9. r \in Handle /\ r.pc = "directory" /\ r.tx = t /\ r.dbs = h[p].dbs /\ r.left = h[p].left
      /\ r.at = h[p].at /\ r.master = n
  BY <1>1, <1>3, <1>4, HandleTyped DEF Handle, Finishing
<1> HIDE DEF M, U, r
<1>10. /\ t \notin done /\ files[t] # {} /\ files[t] \subseteq h[p].dbs
       /\ \A d \in files[t] : /\ jrnl[d].synced /\ jrnl[d].good /\ jrnl[d].master = n /\ jrnl[d].tx = t
                              /\ Has(jrnl[d], d) /\ jrnl[d].on /\ d \in Db
       /\ \A d \in h[p].dbs \ files[t] : ~jrnl[d].synced /\ jrnl[d].master = None
  <2>1. h[p].at = None /\ None \notin Db
    BY <1>1, <1>2, MasterAssumption DEF CommitsOK
  <2> QED
    BY <1>1, <1>2, <1>3, <1>4, <1>7, <2>1 DEF CommitsOK, Holding
<1>11. \A d \in Db : jrnl[d].master = n => d \in files[t]
  BY <1>1, <1>3, <1>7, <1>10
<1>12. \A d \in Db : n \in {jrnl[d].master, removed[d].master} => Database(d)'
  <2> SUFFICES ASSUME NEW d \in Db, jrnl[d].master = n PROVE Database(d)'
    BY <1>7
  <2>1. Database(d) /\ d \in files[t] /\ jrnl[d].on /\ jrnl[d].synced /\ Has(jrnl[d], d)
    BY <1>10, <1>11 DEF IInv
  <2>2. ~removed[d].on
    BY <2>1 DEF Database, Undoable
  <2>3. Settled(d)' /\ Unsynced(d)' /\ Undoable(d)' /\ Old(removed[d], d)'
    BY <1>1, <2>1, <2>2 DEF Settled, Unsynced, Undoable, Old, Has
  <2>4. Old(jrnl[d], d)'
    BY <1>1, <1>6, <1>8, <1>10, <2>1 DEF Database, Old
  <2> QED
    BY <2>3, <2>4 DEF Database
<1>13. Master(n)'
  <2>1. ~mj'[n].on /\ Orphaned(n)'
    BY <1>6, <1>8 DEF Orphaned
  <2>2. Committed(n)'
    <3> SUFFICES ASSUME NEW d \in Db, NEW J \in {jrnl'[d], removed'[d]}, J.master = n
                 PROVE  /\ Has(J, d)' /\ J.good /\ J.tx \notin done'
                        /\ \A e \in files'[J.tx] : \E K \in {jrnl'[e], removed'[e]} : K.master = n /\ K.tx = J.tx
      BY DEF Committed, Has
    <3>1. J = jrnl[d] /\ d \in files[t]
      BY <1>1, <1>7, <1>11
    <3> QED
      BY <1>1, <1>10, <3>1 DEF Has
  <2> QED
    BY <2>1, <2>2 DEF Master
<1>14. Process(p)'
  <2>1. FinishesOK(p)'
    <3>1. \A d \in h[p].dbs \intersect files[t] : Has(jrnl[d], d)'
      BY <1>1, <1>10 DEF Has
    <3>2. t # 0 /\ h[p].dbs # {} /\ \A d \in h[p].dbs : jrnl[d].tx = t /\ jrnl[d].good
      BY <1>2, <1>4, <1>10 DEF CommitsOK
    <3>3. h'[p].tx = t /\ h'[p].dbs = h[p].dbs /\ h'[p].left = {} /\ h'[p].master = n /\ h'[p].pc = "directory"
      BY <1>1, <1>6, <1>9
    <3> QED
      BY <1>1, <1>3, <1>6, <1>8, <1>10, <3>1, <3>2, <3>3 DEF FinishesOK
  <2>2. IdleOK(p)' /\ CommitsOK(p)' /\ WritesOK(p)' /\ OwnsMaster(p)' /\ UndoesOK(p)'
    BY <1>6, <1>9 DEF IdleOK, CommitsOK, WritesOK, OwnsMaster, UndoesOK, Committing, Undoing
  <2> QED
    BY <2>1, <2>2 DEF Process
<1>15. AllOrNone' /\ CommitStays'
  <2>1. \A d \in Db : jrnl[d].master # n => Content(d)' = Content(d)
    <3> TAKE d \in Db
    <3>1. jrnl[d].master \in Name \union {None}
      BY <1>1, JournalTyped DEF Types
    <3> QED
      BY <1>1, <1>6, <3>1 DEF Content, Exists
  <2>2. \A d \in Db : jrnl[d].master = n =>
          /\ Content(d).tx = jrnl[d].old.tx
          /\ Content(d)'.tx = jrnl[d].old.tx \union {t} /\ Content(d)'.whole
    <3> SUFFICES ASSUME NEW d \in Db, jrnl[d].master = n
                 PROVE  /\ Content(d).tx = jrnl[d].old.tx
                        /\ Content(d)'.tx = jrnl[d].old.tx \union {t} /\ Content(d)'.whole
      OBVIOUS
    <3>1. d \in files[t] /\ Has(jrnl[d], d) /\ jrnl[d].tx = t /\ jrnl[d].on /\ jrnl[d].good
      BY <1>10, <1>11
    <3>2. Content(d) = jrnl[d].old
      BY <1>1, <1>3, <1>7, <3>1 DEF Content, Exists
    <3>3. Content(d)' = file[d]
      BY <1>1, <1>3, <1>6, <1>8, <3>1 DEF Content, Exists
    <3>4. file[d].tx = jrnl[d].old.tx \union {t} /\ file[d].whole
      BY <3>1 DEF Has
    <3> QED
      BY <3>2, <3>3, <3>4
  <2>3. \A d \in Db : /\ Content(d)'.tx \in {Content(d).tx, Content(d).tx \union {t}}
                      /\ Content(d).whole => Content(d)'.whole
    <3> TAKE d \in Db
    <3>1. CASE jrnl[d].master # n
      BY <2>1, <3>1
    <3>2. CASE jrnl[d].master = n
      BY <2>2, <3>2
    <3> QED
      BY <3>1, <3>2
  <2>4. \A d \in files[t] : t \in Content(d)'.tx
    BY <1>10, <2>2
  <2>5. AllOrNone'
    <3>1. \A u \in 1..Len(files) : files[u] \in SUBSET Db
      BY <1>1 DEF Types
    <3>2. \A d \in Db : Content(d)'.whole
      BY <2>3 DEF IInv, AllOrNone
    <3>3. ASSUME NEW u \in 1..Len(files), NEW d \in files[u], NEW e \in files[u], u \in Content(d)'.tx
          PROVE  u \in Content(e)'.tx
      <4>1. CASE u = t
        BY <2>4, <4>1
      <4>2. CASE u # t
        BY <2>3, <3>1, <3>3, <4>2 DEF IInv, AllOrNone
      <4> QED
        BY <4>1, <4>2
    <3> QED
      BY <1>1, <3>2, <3>3 DEF AllOrNone
  <2>6. CommitStays'
    BY <1>1, <2>3 DEF IInv, CommitStays, Types, Begun
  <2> QED
    BY <2>5, <2>6
<1> QED
  BY <1>1, <1>4, <1>5, <1>7, <1>8, <1>9, <1>12, <1>13, <1>14, <1>15, MasterStep

\* A master journal none of its journals names is removed after a rollback.
LEMMA StepRemoveOrphan ==
  ASSUME IInv, NEW p \in Proc, RemoveOrphan(p)
  PROVE  IInv'
<1>1. /\ Types /\ Process(p) /\ h[p].pc = "kids" /\ h[p].kids = {}
      /\ UNCHANGED <<file, disk, jrnl, removed, holder, files, done, faults>>
      /\ h' = [h EXCEPT ![p] = Return(h[p])] /\ h'[p] = Return(h[p])
  BY DEF IInv, RemoveOrphan, dbVars, jrnlVars, histVars, Types
<1>2. UndoesOK(p) /\ h[p].pc \in Undoing /\ h[p].master # None
  BY <1>1 DEF Process, UndoesOK, Undoing
<1>3. PICK n \in Name : n = h[p].master
  BY <1>1, <1>2, HandleTyped
<1>4. CASE ~mj[n].on
  <2>1. UNCHANGED stored
    BY <1>1, <1>3, <1>4 DEF RemoveOrphan, masterVars, stored
  <2> QED
    BY <1>1, <2>1, Returned, OwnStep
<1>5. CASE mj[n].on
  <2> DEFINE M == NoFile
             U == [on |-> TRUE, kids |-> mj[n].kids, synced |-> TRUE, commit |-> FALSE]
             r == Return(h[p])
  <2>1. mj' = [mj EXCEPT ![n] = M] /\ unlinked' = [unlinked EXCEPT ![n] = U]
    BY <1>3, <1>5 DEF RemoveOrphan, DeleteMaster
  <2>2. /\ mj'[n] = M /\ unlinked'[n] = U
        /\ \A k \in Name : k # n => mj'[k] = mj[k] /\ unlinked'[k] = unlinked[k]
        /\ mj[n].kids \in SUBSET Db
    BY <1>1, <1>5, <2>1, MasterTyped DEF Types
  <2>3. ~M.on /\ M \in MasterFile /\ U.on /\ U.kids = mj[n].kids /\ U.synced /\ ~U.commit
        /\ U \in Removed
    BY <2>2, Nothing DEF MasterFile, Removed
  <2>4. /\ r \in Handle /\ r.dbs = h[p].dbs /\ (r.tx = h[p].tx \/ r.tx = 0)
        /\ r.master = None /\ Process(p)'
    BY <1>1, Returned
  <2> HIDE DEF M, U, r
  <2>5. \A d \in Db : jrnl[d].master # n
    <3> SUFFICES ASSUME NEW d \in Db, jrnl[d].master = n PROVE FALSE
      OBVIOUS
    <3>1. jrnl[d].on
      BY <1>1, <1>2, <1>3, JournalTyped DEF Types
    <3>2. d \in mj[n].kids
      BY <1>2, <1>3, <1>5, <3>1 DEF IInv, Database, Old
    <3> QED
      BY <1>1, <1>2, <1>3, <1>5, <3>2 DEF UndoesOK
  <2>6. \A q \in Proc : q # p /\ h[q].master = n => h[q].pc \in Undoing
    <3> SUFFICES ASSUME NEW q \in Proc, q # p, h[q].master = n PROVE h[q].pc \in Undoing
      OBVIOUS
    <3>1. Process(q) /\ h[q].pc \in {"idle"} \union Committing \union Finishing \union Undoing
      BY <1>1, HandleTyped DEF IInv
    <3>2. h[q].pc # "idle"
      BY <1>2, <1>3, <3>1, Nothing DEF Process, IdleOK
    <3>3. h[q].pc \notin Committing
      BY <1>2, <1>3, <3>1 DEF Process, OwnsMaster
    <3>4. h[q].pc \notin Finishing
      BY <1>2, <1>3, <1>5, <3>1 DEF Process, FinishesOK
    <3> QED
      BY <3>1, <3>2, <3>3, <3>4
  <2>7. \A d \in Db : n \in {jrnl[d].master, removed[d].master} => Database(d)'
    <3> SUFFICES ASSUME NEW d \in Db, removed[d].master = n PROVE Database(d)'
      BY <2>5
    <3>1. Database(d) /\ jrnl[d].master \in Name \union {None} /\ jrnl[d].master # n
      BY <1>1, <2>5, JournalTyped DEF IInv, Types
    <3>2. removed[d].on /\ removed[d] \in Journal
      BY <1>1, <1>2, <1>3, JournalTyped DEF Types
    <3>3. Settled(d)' /\ Unsynced(d)'
      BY <1>1, <2>2, <3>1, <3>2 DEF Database, Settled, Unsynced
    <3>4. Old(jrnl[d], d)'
      BY <1>1, <2>2, <3>1 DEF Database, Old
    <3>5. Old(removed[d], d)'
      BY <1>1, <1>2, <1>3, <1>5, <2>2, <2>3, <3>1, <3>2 DEF Database, Old
    <3>6. Undoable(d)'
      BY <1>1, <1>2, <1>3, <1>5, <2>2, <2>3, <3>1, <3>2 DEF Database, Undoable
    <3> QED
      BY <3>3, <3>4, <3>5, <3>6 DEF Database
  <2>8. Master(n)'
    BY <1>1, <2>2, <2>3, <2>5 DEF Master, Committed, Orphaned
  <2>9. AllOrNone' /\ CommitStays'
    <3>1. \A d \in Db : Content(d)' = Content(d)
      <4> TAKE d \in Db
      <4>1. jrnl[d].master \in Name \union {None} /\ jrnl[d].master # n
        BY <1>1, <2>5, JournalTyped DEF Types
      <4> QED
        BY <1>1, <2>2, <4>1 DEF Content, Exists
    <3> QED
      BY <1>1, <3>1, ContentKept DEF Types
  <2>10. h' = [h EXCEPT ![p] = r]
    BY <1>1 DEF r
  <2> QED
    BY <1>1, <2>1, <2>3, <2>4, <2>5, <2>6, <2>7, <2>8, <2>9, <2>10, MasterStep
<1> QED
  BY <1>4, <1>5

-----------------------------------------------------------------------------
(* The removal of a journal.                                                 *)

\* A process removes the journal of a database it holds, and gives the database back.
LEMMA DeleteStep ==
  ASSUME IInv, NEW p \in Proc, NEW d \in h[p].dbs, DeleteJournal(d),
         UNCHANGED <<file, disk, mj, unlinked, files, done, faults>>,
         holder' = [holder EXCEPT ![d] = None],
         NEW r \in Handle, h' = [h EXCEPT ![p] = r], r.dbs = h[p].dbs \ {d},
         r.tx = h[p].tx \/ r.tx = 0, r.master \in {None, h[p].master},
         jrnl[d].synced => Undoable(d)' /\ (Content(d)' = Content(d) \/ (AllOrNone' /\ CommitStays')),
         Process(p)'
  PROVE  IInv'
<1> DEFINE J == jrnl[d]
<1>1. Types /\ Holding /\ Database(d) /\ d \in Db /\ h[p].dbs \in SUBSET Db
  BY HandleTyped DEF IInv
<1>2. /\ J \in Journal /\ J.on /\ J.master \in Name \union {None}
      /\ removed[d] \in Journal \union {NoFile}
      /\ ~removed[d].on => removed[d].master = None
  BY <1>1, JournalTyped DEF Types, Holding
<1>3. /\ jrnl'[d] = NoFile /\ removed'[d] = (IF J.synced THEN J ELSE removed[d])
      /\ \A e \in Db : e # d => jrnl'[e] = jrnl[e] /\ removed'[e] = removed[e]
      /\ jrnl' \in [Db -> Journal \union {NoFile}] /\ removed' \in [Db -> Journal \union {NoFile}]
  BY <1>1, <1>2 DEF DeleteJournal, Types
<1>4. /\ h'[p] = r /\ \A q \in Proc : q # p => h'[q] = h[q]
      /\ holder'[d] = None /\ \A e \in Db : e # d => holder'[e] = holder[e]
      /\ holder' \in [Db -> Proc \union {None}] /\ h' \in [Proc -> Handle]
  BY <1>1 DEF Types
<1>5. J.synced => ~removed[d].on /\ removed[d].master = None
  BY <1>1, <1>2 DEF Database, Undoable
<1>6. ~J.synced => J.good /\ J.old = file[d] /\ (J.master # None => mj[J.master].on)
  BY <1>1, <1>2 DEF Database, Unsynced
<1>7. \A q \in Proc : q # p => d \notin h[q].dbs /\ h[q].dbs \in SUBSET Db
  BY <1>1, HandleTyped DEF Holding
<1>8. Types'
  BY <1>1, <1>3, <1>4 DEF Types, Begun, Version, Journal, Handle, MasterFile, Removed
<1>9. Holding'
  <2>1. \A q \in Proc : h'[q].tx = h[q].tx \/ h'[q].tx = 0
    BY <1>4
  <2>2. \A q \in Proc : h'[q].dbs = h[q].dbs \ {d}
    BY <1>4, <1>7
  <2>3. \A q \in Proc : \A e \in Db : e \in h'[q].dbs <=> holder'[e] = q
    BY <1>1, <1>4, <2>2, MasterAssumption DEF Holding
  <2>4. \A q \in Proc : \A e \in h'[q].dbs : jrnl'[e].on
    BY <1>1, <1>3, <2>2, HandleTyped DEF Holding
  <2>5. \A q, o \in Proc : q # o /\ h'[q].tx # 0 => h'[q].tx # h'[o].tx
    BY <1>1, <2>1 DEF Holding
  <2> QED
    BY <2>3, <2>4, <2>5 DEF Holding
<1>10. \A e \in Db : Database(e)'
  <2>1. \A e \in Db : e # d => Database(e)'
    BY <1>3, DatabaseKept DEF SameMaster
  <2>2. Unsynced(d)' /\ Old(jrnl[d], d)'
    BY <1>3, Nothing DEF Unsynced, Old
  <2>3. Old(removed[d], d)'
    BY <1>1, <1>3 DEF Database, Old
  <2>4. Settled(d)' /\ Undoable(d)'
    <3>1. CASE J.synced
      BY <1>2, <1>3, <3>1 DEF Settled
    <3>2. CASE ~J.synced
      <4>1. ~removed[d].on => disk[d] = {file[d]}
        BY <1>1, <3>2 DEF Database, Settled, Hot
      <4>2. ~jrnl'[d].on /\ removed'[d] = removed[d]
        BY <1>3, <3>2, Nothing
      <4> QED
        BY <1>1, <4>1, <4>2 DEF Database, Settled, Undoable, Has
    <3> QED
      BY <3>1, <3>2
  <2> QED
    BY <2>1, <2>2, <2>3, <2>4 DEF Database
<1>11. \A n \in Name : Master(n)'
  <2> TAKE n \in Name
  <2>1. n # None
    BY MasterAssumption
  <2>2. \A e \in Db : jrnl'[e].master = n => jrnl[e].master = n
    BY <1>3, <2>1, Nothing
  <2>3. unlinked[n].on => Naming(n, d)' = Naming(n, d)
    <3>1. CASE J.synced
      BY <1>3, <1>5, <2>1, <3>1, Nothing DEF Naming
    <3>2. CASE ~J.synced
      <4>1. unlinked[n].on => J.master # n
        BY <1>6, <2>1, <3>2 DEF IInv, Master
      <4> QED
        BY <1>3, <2>1, <3>2, <4>1, Nothing DEF Naming
    <3> QED
      BY <3>1, <3>2
  <2>4. unlinked[n].on => \A e \in Db : Naming(n, e)' = Naming(n, e)
    BY <1>3, <2>3 DEF Naming
  <2> QED
    BY <2>2, <2>4, MasterKept
<1>12. \A q \in Proc : q # p => Process(q)'
  <2> TAKE q \in Proc
  <2> SUFFICES ASSUME q # p PROVE Process(q)'
    OBVIOUS
  <2>1. \A e \in h[q].dbs : jrnl'[e] = jrnl[e]
    BY <1>3, <1>7
  <2>2. h[q].master # None => \A e \in Db : jrnl'[e].master = h[q].master => jrnl[e].master = h[q].master
    BY <1>3, Nothing
  <2>3. h[q].master # None /\ h[q].pc \in Committing =>
          /\ \A o \in Proc : o # q => h'[o].master # h[q].master
          /\ \A e \in Db : removed'[e].master # h[q].master /\ (jrnl'[e].master = h[q].master => e \in h[q].dbs)
    <3>1. h[q].master # None /\ h[q].pc \in Committing =>
            /\ \A o \in Proc : o # q => h[o].master # h[q].master
            /\ \A e \in Db : removed[e].master # h[q].master /\ (jrnl[e].master = h[q].master => e \in h[q].dbs)
      BY DEF IInv, Process, OwnsMaster
    <3>2. \A o \in Proc : h'[o].master = h[o].master \/ h'[o].master = None
      BY <1>4
    <3>3. \A e \in Db : \/ removed'[e] = removed[e]
                        \/ e = d /\ removed'[e] = jrnl[d]
      BY <1>3
    <3> QED
      BY <1>1, <1>7, <2>2, <3>1, <3>2, <3>3
  <2>4. h[q].pc = "drop" => (Hot(h[q].at)' => Hot(h[q].at))
    <3>1. h[q].pc = "drop" => h[q].at \in h[q].dbs
      BY DEF IInv, Process, UndoesOK, Undoing
    <3>2. h[q].pc = "drop" => h'[q].at = h[q].at /\ jrnl'[h[q].at] = jrnl[h[q].at]
      BY <1>4, <2>1, <3>1
    <3> QED
      BY <3>2 DEF Hot, Exists
  <2> QED
    BY <1>4, <2>1, <2>2, <2>3, <2>4, ProcessKept
<1>13. AllOrNone' /\ CommitStays'
  <2>1. ~J.synced => Content(d)' = Content(d)
    BY <1>3, <1>6, Nothing DEF Content, Exists
  <2>2. \A e \in Db : e # d => Content(e)' = Content(e)
    BY <1>3 DEF Content, Exists
  <2>3. CASE Content(d)' = Content(d)
    <3>1. \A e \in Db : Content(e)' = Content(e)
      BY <2>2, <2>3
    <3> QED
      BY <1>1, <3>1, ContentKept DEF Types
  <2> QED
    BY <2>1, <2>3
<1> QED
  BY <1>8, <1>9, <1>10, <1>11, <1>12, <1>13, <1>4 DEF IInv

\* What is left to roll back when the journal of one database is gone.
LEMMA UndoneOne ==
  ASSUME IInv, NEW p \in Proc, h[p].pc \in Undoing, NEW d \in h[p].dbs, DeleteJournal(d),
         UNCHANGED <<file, disk, files>>,
         NEW r, h'[p] = r, r.pc \in {"rollback", "check"}, r.dbs = h[p].dbs \ {d},
         r.left = h[p].left \ {d}, r.tx = h[p].tx,
         r.pc = "rollback" => r.dbs # {}, r.pc = "check" => r.master # None
  PROVE  Process(p)'
<1>1. Types /\ UndoesOK(p) /\ h[p].dbs \in SUBSET Db
  BY HandleTyped DEF IInv, Process
<1>2. Unwritten(p)' \subseteq Unwritten(p) \ {d}
  BY DEF Unwritten
<1>3. \A e \in r.dbs : jrnl'[e] = jrnl[e]
  BY <1>1 DEF DeleteJournal, Types
<1>4. \A e \in r.dbs \intersect Unwritten(p)' :
        jrnl'[e].synced => file[e] = jrnl'[e].old /\ disk[e] = {file[e]}
  BY <1>1, <1>2, <1>3 DEF UndoesOK
<1>5. UndoesOK(p)'
  BY <1>1, <1>4 DEF UndoesOK
<1>6. IdleOK(p)' /\ CommitsOK(p)' /\ WritesOK(p)' /\ OwnsMaster(p)' /\ FinishesOK(p)'
  BY DEF IdleOK, CommitsOK, WritesOK, OwnsMaster, FinishesOK, Committing, Finishing
<1> QED
  BY <1>5, <1>6 DEF Process

\* A process that has done all it had to.
LEMMA DoneOne ==
  ASSUME NEW p \in Proc, h'[p] = Idle
  PROVE  Process(p)'
BY Nothing DEF Process, IdleOK, CommitsOK, WritesOK, OwnsMaster, FinishesOK, UndoesOK,
               Committing, Finishing, Undoing

\* What a process has left to do, without one of its databases.
LEMMA WithoutOne ==
  ASSUME IInv, NEW p \in Proc, NEW d \in h[p].dbs, NEW pc \in {"commit", "rollback", "check"}
  PROVE  LET r == Without(h[p], d, pc)
         IN  /\ r \in Handle /\ r.dbs = h[p].dbs \ {d} /\ r.master \in {None, h[p].master}
             /\ r.tx = h[p].tx \/ r.tx = 0
             /\ \/ r = Idle /\ h[p].dbs = {d}
                \/ /\ r.pc = pc /\ r.tx = h[p].tx /\ r.left = h[p].left /\ r.master = h[p].master
                   /\ pc = "check" \/ h[p].dbs # {d}
<1>1. h[p] \in Handle /\ h[p].dbs \in SUBSET Db
  BY HandleTyped DEF IInv
<1>2. CASE h[p].dbs = {d} /\ pc # "check"
  <2>1. Without(h[p], d, pc) = Idle /\ Idle \in Handle
    BY <1>2 DEF Without, Idle, Handle
  <2> QED
    BY <1>2, <2>1, Nothing
<1>3. CASE ~(h[p].dbs = {d} /\ pc # "check")
  <2> DEFINE r == [h[p] EXCEPT !.pc = pc, !.dbs = h[p].dbs \ {d}, !.at = None]
  <2>1. Without(h[p], d, pc) = r
    BY <1>3 DEF Without
  <2>2. r \in Handle /\ r.dbs = h[p].dbs \ {d} /\ r.master = h[p].master /\ r.tx = h[p].tx
        /\ r.pc = pc /\ r.left = h[p].left
    BY <1>1 DEF Handle, Finishing, Undoing
  <2> HIDE DEF r
  <2> QED
    BY <1>3, <2>1, <2>2
<1> QED
  BY <1>2, <1>3

\* The removal of a journal: with a master the transaction was committed before; without
\* one, this commits it.
LEMMA StepCommitFile ==
  ASSUME IInv, NEW p \in Proc, NEW d \in Db, CommitFile(p, d)
  PROVE  IInv'
<1>1. /\ Types /\ Holding /\ Process(p) /\ Database(d) /\ h[p].pc = "commit" /\ d \in h[p].dbs
      /\ DeleteJournal(d) /\ holder' = [holder EXCEPT ![d] = None]
      /\ UNCHANGED <<file, disk, mj, unlinked, files, done, faults>>
      /\ h[p].dbs \in SUBSET Db
  BY HandleTyped DEF IInv, CommitFile, dbVars, masterVars, histVars
<1>2. FinishesOK(p) /\ h[p].pc \in Finishing
  BY <1>1 DEF Process, Finishing
<1>3. PICK t \in Begun : t = h[p].tx
  BY <1>1, <1>2, HandleTyped DEF FinishesOK
<1>4. PICK r \in Handle : r = Without(h[p], d, "commit")
  BY <1>1, WithoutOne
<1>5. h' = [h EXCEPT ![p] = r] /\ h'[p] = r
  BY <1>1, <1>4 DEF CommitFile, Types
<1>6. /\ r.dbs = h[p].dbs \ {d} /\ r.master \in {None, h[p].master}
      /\ r.tx = h[p].tx \/ r.tx = 0
      /\ \/ r = Idle /\ h[p].dbs = {d}
         \/ r.pc = "commit" /\ r.tx = h[p].tx /\ r.left = h[p].left /\ r.master = h[p].master /\ h[p].dbs # {d}
  BY <1>1, <1>4, WithoutOne
<1>7. Process(p)'
  <2>1. CASE r = Idle
    BY <1>5, <2>1, DoneOne
  <2>2. CASE r.pc = "commit" /\ r.tx = h[p].tx /\ r.left = h[p].left /\ r.master = h[p].master /\ h[p].dbs # {d}
    <3>1. \A e \in r.dbs : jrnl'[e] = jrnl[e] /\ e \in h[p].dbs
      BY <1>1, <1>6 DEF DeleteJournal, Types
    <3>2. \A e \in r.dbs \intersect files[t] :
            jrnl'[e].synced /\ jrnl'[e].master = h[p].master /\ Has(jrnl[e], e)'
      BY <1>1, <1>2, <1>3, <3>1 DEF FinishesOK, Has
    <3>3. h[p].master # None
      BY <1>1, <1>2, <2>2 DEF FinishesOK
    <3>4. FinishesOK(p)'
      <4>1. h'[p].tx = t /\ h'[p].dbs = r.dbs /\ h'[p].left = {} /\ h'[p].master = h[p].master
            /\ h'[p].pc = "commit"
        BY <1>2, <1>3, <1>5, <2>2 DEF FinishesOK
      <4>2. /\ r.dbs # {} /\ t # 0 /\ files[t] # {} /\ ~mj[h[p].master].on /\ ~unlinked[h[p].master].on
            /\ \A e \in r.dbs : jrnl'[e].tx = t /\ jrnl'[e].good
            /\ \A e \in r.dbs \ files[t] : ~jrnl'[e].synced
        BY <1>1, <1>2, <1>3, <1>6, <2>2, <3>1, <3>3 DEF FinishesOK
      <4> QED
        BY <1>1, <3>2, <3>3, <4>1, <4>2 DEF FinishesOK
    <3>5. IdleOK(p)' /\ CommitsOK(p)' /\ WritesOK(p)' /\ OwnsMaster(p)' /\ UndoesOK(p)'
      BY <1>5, <2>2 DEF IdleOK, CommitsOK, WritesOK, OwnsMaster, UndoesOK, Committing, Undoing
    <3> QED
      BY <3>4, <3>5 DEF Process
  <2> QED
    BY <1>6, <2>1, <2>2
<1>8. jrnl[d].synced => Undoable(d)' /\ (Content(d)' = Content(d) \/ (AllOrNone' /\ CommitStays'))
  <2> SUFFICES ASSUME jrnl[d].synced
               PROVE  Undoable(d)' /\ (Content(d)' = Content(d) \/ (AllOrNone' /\ CommitStays'))
    OBVIOUS
  <2>1. /\ d \in files[t] /\ jrnl[d].master = h[p].master /\ jrnl[d].tx = t /\ jrnl[d].good /\ jrnl[d].on
        /\ Has(jrnl[d], d)
    BY <1>1, <1>2, <1>3 DEF FinishesOK, Holding
  <2>2. /\ jrnl'[d] = NoFile /\ removed'[d] = jrnl[d]
        /\ \A e \in Db : e # d => jrnl'[e] = jrnl[e]
    BY <1>1 DEF DeleteJournal, Types
  <2>3. Content(d)' = file[d]
    BY <1>1, <2>2, Nothing DEF Content
  <2>4. CASE h[p].master # None
    <3>1. ~mj[h[p].master].on /\ ~unlinked[h[p].master].on
      BY <1>1, <1>2, <2>4 DEF FinishesOK
    <3>2. Undoable(d)'
      BY <1>1, <2>1, <2>2, <2>4, <3>1, Nothing DEF Undoable, Has
    <3>3. Content(d) = file[d]
      BY <2>1, <2>4, <3>1 DEF Content, Exists
    <3> QED
      BY <2>3, <3>2, <3>3
  <2>5. CASE h[p].master = None
    <3>1. files[t] = h[p].dbs /\ t \notin done /\ files[t] = {d}
      BY <1>1, <1>2, <1>3, <2>5 DEF FinishesOK
    <3>2. Undoable(d)'
      BY <1>1, <2>1, <2>2, <2>5, <3>1, Nothing DEF Undoable, Has
    <3>3. Content(d) = jrnl[d].old
      BY <2>1, <2>5 DEF Content
    <3>4. Content(d)'.tx = Content(d).tx \union {t} /\ Content(d)'.whole
      BY <2>1, <2>3, <3>3 DEF Has
    <3>5. \A e \in Db : e # d => Content(e)' = Content(e)
      BY <1>1, <2>2 DEF Content, Exists
    <3>6. \A e \in Db : /\ Content(e)'.tx = Content(e).tx \/ Content(e)'.tx = Content(e).tx \union {t}
                        /\ Content(e)'.whole
      BY <3>4, <3>5 DEF IInv, AllOrNone
    <3>7. ASSUME NEW u \in 1..Len(files), NEW e \in files[u], NEW f \in files[u], u \in Content(e)'.tx
          PROVE  u \in Content(f)'.tx
      <4>1. e \in Db /\ f \in Db
        BY <1>1 DEF Types
      <4>2. CASE u = t
        BY <3>1, <3>7, <4>2
      <4>3. CASE u # t
        BY <3>6, <3>7, <4>1, <4>3 DEF IInv, AllOrNone
      <4> QED
        BY <4>2, <4>3
    <3>8. AllOrNone'
      BY <1>1, <3>6, <3>7 DEF AllOrNone
    <3>9. CommitStays'
      BY <1>1, <3>6 DEF IInv, CommitStays, Types, Begun
    <3> QED
      BY <3>2, <3>8, <3>9
  <2> QED
    BY <2>4, <2>5
<1> QED
  BY <1>1, <1>5, <1>6, <1>7, <1>8, DeleteStep

\* A rollback of a database that was not written to.
LEMMA StepForgetFile ==
  ASSUME IInv, NEW p \in Proc, NEW d \in Db, ForgetFile(p, d)
  PROVE  IInv'
<1>1. /\ Types /\ Holding /\ Process(p) /\ Database(d) /\ h[p].pc = "rollback"
      /\ d \in h[p].dbs /\ d \in Unwritten(p)
      /\ DeleteJournal(d) /\ holder' = [holder EXCEPT ![d] = None]
      /\ UNCHANGED <<file, disk, mj, unlinked, files, done, faults>>
      /\ h[p].dbs \in SUBSET Db
  BY HandleTyped DEF IInv, ForgetFile, dbVars, masterVars, histVars
<1>2. UndoesOK(p) /\ h[p].pc \in Undoing
  BY <1>1 DEF Process, Undoing
<1>3. PICK o \in Handle : o = Without(h[p], d, "rollback")
  BY <1>1, WithoutOne
<1>4. /\ o.dbs = h[p].dbs \ {d} /\ o.master \in {None, h[p].master}
      /\ o.tx = h[p].tx \/ o.tx = 0
      /\ \/ o = Idle /\ h[p].dbs = {d}
         \/ o.pc = "rollback" /\ o.tx = h[p].tx /\ o.left = h[p].left /\ o.master = h[p].master /\ h[p].dbs # {d}
  BY <1>1, <1>3, WithoutOne
<1> DEFINE r == [o EXCEPT !.left = o.left \ {d}]
<1>5. h' = [h EXCEPT ![p] = r] /\ h'[p] = r
  BY <1>1, <1>3 DEF ForgetFile, Types
<1>6. r \in Handle /\ r.pc = o.pc /\ r.dbs = o.dbs /\ r.tx = o.tx /\ r.master = o.master
      /\ r.left = o.left \ {d} /\ (o = Idle => r = Idle)
  <2>1. o = Idle => r = Idle
    BY DEF Idle
  <2> QED
    BY <2>1 DEF Handle
<1> HIDE DEF r
<1>7. Process(p)'
  <2>1. CASE o = Idle
    BY <1>5, <1>6, <2>1, DoneOne
  <2>2. CASE o # Idle
    <3>1. r.pc = "rollback" /\ r.dbs = h[p].dbs \ {d} /\ r.dbs # {} /\ r.left = h[p].left \ {d}
          /\ r.tx = h[p].tx
      BY <1>1, <1>4, <1>6, <2>2
    <3> QED
      BY <1>1, <1>2, <1>5, <3>1, UndoneOne
  <2> QED
    BY <2>1, <2>2
<1>8. jrnl[d].synced => Undoable(d)' /\ Content(d)' = Content(d)
  <2> SUFFICES ASSUME jrnl[d].synced PROVE Undoable(d)' /\ Content(d)' = Content(d)
    OBVIOUS
  <2>1. file[d] = jrnl[d].old /\ disk[d] = {file[d]}
    BY <1>1, <1>2 DEF UndoesOK
  <2>2. jrnl'[d] = NoFile /\ removed'[d] = jrnl[d]
    BY <1>1 DEF DeleteJournal, Types
  <2>3. Undoable(d)'
    BY <1>1, <2>1, <2>2, Nothing DEF Undoable
  <2>4. Content(d)' = Content(d)
    BY <1>1, <2>1, <2>2, Nothing DEF Content
  <2> QED
    BY <2>3, <2>4
<1> QED
  BY <1>1, <1>4, <1>5, <1>6, <1>7, <1>8, DeleteStep

\* A journal that was played back, or was not to be, is removed.
LEMMA StepDropJournal ==
  ASSUME IInv, NEW p \in Proc, DropJournal(p)
  PROVE  IInv'
<1>1. /\ Types /\ Holding /\ Process(p) /\ h[p].pc = "drop"
      /\ UNCHANGED <<file, disk, mj, unlinked, files, done, faults>>
      /\ h[p].dbs \in SUBSET Db
  BY HandleTyped DEF IInv, DropJournal, dbVars, masterVars, histVars
<1>2. UndoesOK(p) /\ h[p].pc \in Undoing
  BY <1>1 DEF Process, Undoing
<1>3. PICK d \in Db : d = h[p].at
  BY <1>1, <1>2 DEF UndoesOK
<1>4. /\ d \in h[p].dbs \ Unwritten(p) /\ (Hot(d) => file[d] = jrnl[d].old)
      /\ DeleteJournal(d) /\ holder' = [holder EXCEPT ![d] = None]
      /\ jrnl[d] \in Journal /\ Database(d)
  BY <1>1, <1>2, <1>3, JournalTyped DEF UndoesOK, DropJournal, IInv, Holding, Types
<1> DEFINE pc == IF h[p].master = None THEN "rollback" ELSE "check"
<1>5. PICK r \in Handle : r = Without(h[p], d, pc)
  BY <1>4, WithoutOne
<1>6. h' = [h EXCEPT ![p] = r] /\ h'[p] = r
  BY <1>1, <1>3, <1>5 DEF DropJournal, Types
<1>7. /\ r.dbs = h[p].dbs \ {d} /\ r.master \in {None, h[p].master}
      /\ r.tx = h[p].tx \/ r.tx = 0
      /\ \/ r = Idle /\ h[p].dbs = {d}
         \/ /\ r.pc = pc /\ r.tx = h[p].tx /\ r.left = h[p].left /\ r.master = h[p].master
            /\ pc = "check" \/ h[p].dbs # {d}
  BY <1>4, <1>5, WithoutOne
<1>8. Process(p)'
  <2>1. CASE r = Idle /\ h[p].dbs = {d}
    BY <1>6, <2>1, DoneOne
  <2>2. CASE /\ r.pc = pc /\ r.tx = h[p].tx /\ r.left = h[p].left /\ r.master = h[p].master
             /\ pc = "check" \/ h[p].dbs # {d}
    <3>1. h[p].left \ {d} = h[p].left
      BY <1>1, <1>2, <1>4 DEF UndoesOK, Unwritten
    <3>2. r.pc \in {"rollback", "check"} /\ r.left = h[p].left \ {d}
          /\ (r.pc = "rollback" => r.dbs # {}) /\ (r.pc = "check" => r.master # None)
      BY <1>4, <1>7, <2>2, <3>1
    <3> QED
      BY <1>1, <1>2, <1>4, <1>6, <1>7, <2>2, <3>2, UndoneOne
  <2> QED
    BY <1>7, <2>1, <2>2
<1>9. jrnl[d].synced => Undoable(d)' /\ Content(d)' = Content(d)
  <2> SUFFICES ASSUME jrnl[d].synced PROVE Undoable(d)' /\ Content(d)' = Content(d)
    OBVIOUS
  <2>1. jrnl[d].on /\ jrnl[d].master \in Name \union {None} /\ jrnl[d].good \in BOOLEAN
    BY <1>1, <1>4, JournalTyped DEF Types
  <2>2. jrnl'[d] = NoFile /\ removed'[d] = jrnl[d]
    BY <1>1, <1>4 DEF DeleteJournal, Types
  <2>3. ~Hot(d) => disk[d] = {file[d]}
    BY <1>4, <2>1 DEF Database, Settled, Undoable
  <2>4. \A n \in Name : unlinked[n].on /\ ~unlinked[n].commit => jrnl[d].master # n
    BY DEF IInv, Master, Orphaned
  <2>5. Undoable(d)'
    BY <1>1, <1>4, <2>1, <2>2, <2>3, <2>4, Nothing DEF Undoable, Hot, Exists
  <2>6. Content(d)' = Content(d)
    BY <1>1, <1>4, <2>1, <2>2, Nothing DEF Content, Hot, Exists
  <2> QED
    BY <2>5, <2>6
<1> QED
  BY <1>1, <1>4, <1>6, <1>7, <1>8, <1>9, DeleteStep

-----------------------------------------------------------------------------
(* A new transaction.                                                        *)

\* It changes files that nobody writes to or has to recover.
LEMMA StepBegin ==
  ASSUME IInv, NEW p \in Proc, NEW dbs \in (SUBSET Db) \ {{}}, NEW changed \in (SUBSET dbs) \ {{}},
         Begin(p, dbs, changed)
  PROVE  IInv'
<1> DEFINE t == Len(files) + 1
           r == [Idle EXCEPT !.pc = "open", !.tx = t, !.dbs = dbs, !.left = changed]
<1>1. /\ Types /\ Holding /\ h[p] = Idle /\ Bounded
      /\ UNCHANGED <<file, disk, removed, mj, unlinked, done, faults>>
      /\ \A d \in dbs : d \in Db /\ holder[d] = None /\ ~jrnl[d].on
      /\ files' = Append(files, changed) /\ changed \in SUBSET Db
  BY DEF IInv, Begin, dbVars, masterVars
<1>2. /\ h' = [h EXCEPT ![p] = r] /\ h'[p] = r /\ \A q \in Proc : q # p => h'[q] = h[q]
  BY <1>1 DEF Begin, Types
<1>3. /\ jrnl' = [d \in Db |-> IF d \in dbs THEN NewJournal(file[d], t) ELSE jrnl[d]]
      /\ \A d \in dbs : jrnl'[d] = NewJournal(file[d], t)
      /\ \A d \in Db \ dbs : jrnl'[d] = jrnl[d]
      /\ holder' = [d \in Db |-> IF d \in dbs THEN p ELSE holder[d]]
  BY <1>1 DEF Begin
<1>4. /\ t \in Nat \ {0} /\ t \notin Begun /\ Begun' = Begun \union {t} /\ files'[t] = changed
      /\ \A u \in Begun : files'[u] = files[u] /\ u # t
      /\ Len(files') = t /\ files' \in Seq(SUBSET Db)
  BY <1>1 DEF Types, Begun
<1>5. /\ Version \subseteq Version' /\ Journal \subseteq Journal' /\ Handle \subseteq Handle'
  BY <1>4 DEF Version, Journal, Handle
<1>6. \A d \in dbs : LET J == NewJournal(file[d], t)
                     IN  /\ J \in Journal' /\ J.on /\ J.old = file[d] /\ J.master = None
                         /\ ~J.synced /\ J.good /\ J.tx = t
  BY <1>1, <1>4, <1>5 DEF NewJournal, Journal, Types
<1>7. r \in Handle' /\ r.pc = "open" /\ r.tx = t /\ r.dbs = dbs /\ r.left = changed /\ r.at = None
      /\ r.master = None
  BY <1>1, <1>4 DEF Handle, Idle, Committing
<1>8. \A d \in dbs : jrnl[d] \in Journal \union {NoFile} /\ jrnl[d].master = None
  BY <1>1, JournalTyped DEF Types
<1> HIDE DEF t, r
<1>9. \A q \in Proc : q # p => h[q].dbs \in SUBSET Db /\ h[q].dbs \intersect dbs = {}
  BY <1>1, HandleTyped, MasterAssumption DEF Holding
<1>10. Types'
  <2>1. Len(files') + faults' <= MaxTx
    BY <1>1, <1>4, MasterAssumption DEF Bounded, Types, t
  <2>2. h' \in [Proc -> Handle']
    BY <1>1, <1>2, <1>5, <1>7 DEF Types
  <2>3. jrnl' \in [Db -> Journal' \union {NoFile}] /\ removed' \in [Db -> Journal' \union {NoFile}]
    BY <1>1, <1>3, <1>5, <1>6 DEF Types
  <2>4. file' \in [Db -> Version'] /\ disk' \in [Db -> SUBSET Version'] /\ \A d \in Db : file'[d] \in disk'[d]
    BY <1>1, <1>5 DEF Types
  <2>5. holder' \in [Db -> Proc \union {None}]
    BY <1>1, <1>3 DEF Types
  <2>6. done' \subseteq Begun' /\ faults' \in Nat
    BY <1>1, <1>4 DEF Types
  <2> QED
    BY <1>1, <1>4, <2>1, <2>2, <2>3, <2>4, <2>5, <2>6 DEF Types
<1>11. Holding'
  <2>1. \A q \in Proc : \A d \in Db : d \in h'[q].dbs <=> holder'[d] = q
    BY <1>1, <1>2, <1>3, <1>7, Nothing, MasterAssumption DEF Holding
  <2>2. \A q \in Proc : \A d \in h'[q].dbs : jrnl'[d].on
    <3> TAKE q \in Proc
    <3>1. CASE q = p
      BY <1>2, <1>3, <1>6, <1>7, <3>1
    <3>2. CASE q # p
      BY <1>1, <1>2, <1>3, <1>9, <3>2 DEF Holding
    <3> QED
      BY <3>1, <3>2
  <2>3. \A q \in Proc : h[q].tx # t
    BY <1>1, <1>4, HandleTyped
  <2>4. \A q, o \in Proc : q # o /\ h'[q].tx # 0 => h'[q].tx # h'[o].tx
    BY <1>1, <1>2, <1>7, <2>3, Nothing DEF Holding
  <2> QED
    BY <2>1, <2>2, <2>4 DEF Holding
<1>12. \A d \in Db : removed[d].on => files'[removed[d].tx] = files[removed[d].tx]
  BY <1>1, <1>4, JournalTyped DEF Types
<1>13. \A d \in Db : Database(d)'
  <2> TAKE d \in Db
  <2>1. CASE d \notin dbs
    BY <1>1, <1>3, <1>12, <2>1, DatabaseKept DEF SameMaster
  <2>2. CASE d \in dbs
    <3> DEFINE J == NewJournal(file[d], t)
    <3>1. /\ jrnl'[d] = J /\ J.on /\ J.old = file[d] /\ J.master = None /\ ~J.synced /\ J.good /\ J.tx = t
          /\ Database(d) /\ ~jrnl[d].on
      BY <1>1, <1>3, <1>6, <2>2 DEF IInv
    <3>2. file[d].whole /\ t \notin file[d].tx
      <4>1. Content(d) = file[d]
        BY <3>1 DEF Content
      <4>2. file[d] \in Version
        BY <1>1 DEF Types
      <4> QED
        BY <1>4, <4>1, <4>2 DEF IInv, AllOrNone, Version
    <3> HIDE DEF J
    <3>3. Settled(d)' /\ Unsynced(d)'
      BY <1>1, <3>1 DEF Database, Settled, Hot, Unsynced
    <3>4. Old(jrnl[d], d)' /\ Old(removed[d], d)'
      BY <1>1, <3>1, <3>2 DEF Database, Old
    <3>5. Undoable(d)'
      BY <1>1, <1>12, <3>1 DEF Database, Undoable, Has
    <3> QED
      BY <3>3, <3>4, <3>5 DEF Database
  <2> QED
    BY <2>1, <2>2
<1>14. \A n \in Name : Master(n)'
  <2> TAKE n \in Name
  <2>1. n # None
    BY MasterAssumption
  <2>2. \A d \in Db : (jrnl'[d] = jrnl[d]) \/ (jrnl'[d].master = None /\ jrnl[d].master = None)
    BY <1>3, <1>6, <1>8
  <2>3. \A d \in Db : Naming(n, d)' = Naming(n, d) /\ (jrnl'[d].master = n => jrnl[d].master = n)
    BY <1>1, <2>1, <2>2 DEF Naming
  <2> QED
    BY <1>1, <1>4, <2>3, MasterKept
<1>15. \A q \in Proc : q # p => Process(q)'
  <2> TAKE q \in Proc
  <2> SUFFICES ASSUME q # p PROVE Process(q)'
    OBVIOUS
  <2>1. \A d \in h[q].dbs : jrnl'[d] = jrnl[d]
    BY <1>3, <1>9
  <2>2. \A d \in Db : jrnl'[d].master = jrnl[d].master
    BY <1>3, <1>6, <1>8
  <2>3. h[q].master # None /\ h[q].pc \in Committing =>
          /\ \A o \in Proc : o # q => h'[o].master # h[q].master
          /\ \A d \in Db : removed[d].master # h[q].master /\ (jrnl'[d].master = h[q].master => d \in h[q].dbs)
    <3>1. h[q].master # None /\ h[q].pc \in Committing =>
            /\ \A o \in Proc : o # q => h[o].master # h[q].master
            /\ \A d \in Db : removed[d].master # h[q].master /\ (jrnl[d].master = h[q].master => d \in h[q].dbs)
      BY DEF IInv, Process, OwnsMaster
    <3>2. \A o \in Proc : h'[o].master = h[o].master \/ h'[o].master = None
      BY <1>2, <1>7
    <3> QED
      BY <2>2, <3>1, <3>2
  <2>4. h[q].tx # 0 => files'[h[q].tx] = files[h[q].tx]
    BY <1>1, <1>4, HandleTyped
  <2>5. h[q].pc = "drop" => (Hot(h[q].at)' => Hot(h[q].at))
    <3>1. h[q].pc = "drop" => h[q].at \in h[q].dbs
      BY DEF IInv, Process, UndoesOK, Undoing
    <3>2. h[q].pc = "drop" => h'[q].at = h[q].at /\ jrnl'[h[q].at] = jrnl[h[q].at]
      BY <1>2, <2>1, <3>1
    <3> QED
      BY <1>1, <3>2 DEF Hot, Exists
  <2> QED
    BY <1>1, <1>2, <2>1, <2>2, <2>3, <2>4, <2>5, ProcessKept
<1>16. Process(p)'
  <2>1. CommitsOK(p)'
    <3>1. t \notin done /\ changed # {} /\ changed \subseteq dbs
      <4>1. done \subseteq Begun
        BY <1>1 DEF Types
      <4>2. changed # {} /\ changed \subseteq dbs
        OBVIOUS
      <4> QED
        BY <1>4, <4>1, <4>2
    <3>2. \A d \in dbs : jrnl'[d].tx = t /\ jrnl'[d].good /\ ~jrnl'[d].synced /\ jrnl'[d].master = None
      BY <1>3, <1>6
    <3> QED
      BY <1>1, <1>2, <1>4, <1>7, <3>1, <3>2 DEF CommitsOK
  <2>2. IdleOK(p)' /\ WritesOK(p)' /\ OwnsMaster(p)' /\ FinishesOK(p)' /\ UndoesOK(p)'
    BY <1>2, <1>7 DEF IdleOK, WritesOK, OwnsMaster, FinishesOK, UndoesOK, Finishing, Undoing
  <2> QED
    BY <2>1, <2>2 DEF Process
<1>17. \A d \in Db : Content(d)' = Content(d) /\ Content(d).tx \in SUBSET Begun
  <2> TAKE d \in Db
  <2>1. Content(d)' = Content(d)
    <3>1. CASE d \notin dbs
      BY <1>1, <1>3, <3>1 DEF Content, Exists
    <3>2. CASE d \in dbs
      BY <1>1, <1>3, <1>6, <3>2 DEF Content
    <3> QED
      BY <3>1, <3>2
  <2>2. Content(d) \in Version
    BY <1>1, JournalTyped DEF Content, Types
  <2> QED
    BY <2>1, <2>2 DEF Version
<1>18. AllOrNone'
  <2>1. \A d \in Db : Content(d)'.whole
    BY <1>17 DEF IInv, AllOrNone
  <2>2. ASSUME NEW u \in 1..Len(files'), NEW d \in files'[u], NEW e \in files'[u], u \in Content(d)'.tx
        PROVE  u \in Content(e)'.tx
    <3>1. d \in Db /\ e \in Db
      BY <1>4
    <3>2. u \in Begun /\ files'[u] = files[u]
      BY <1>4, <1>17, <2>2, <3>1
    <3> QED
      BY <1>17, <2>2, <3>1, <3>2 DEF IInv, AllOrNone, Begun
  <2> QED
    BY <2>1, <2>2 DEF AllOrNone
<1>19. CommitStays'
  <2>1. \A u \in done : u \in Begun /\ files'[u] = files[u] /\ files[u] \subseteq Db
    BY <1>1, <1>4 DEF Types, Begun
  <2> QED
    BY <1>1, <1>17, <2>1 DEF IInv, CommitStays
<1> QED
  BY <1>10, <1>11, <1>13, <1>14, <1>15, <1>16, <1>18, <1>19 DEF IInv

-----------------------------------------------------------------------------
(* A power failure.                                                          *)

\* What it leaves of the files, of the journals and of the master journals.
Fails(f, j, m) ==
  /\ \A d \in Db : f[d] \in disk[d] /\ j[d] \in JournalsLeft(d)
  /\ \A n \in Name : m[n] \in MastersLeft(n)
  /\ InOrder(f, j, m)
  /\ file' = f /\ disk' = [d \in Db |-> {f[d]}] /\ jrnl' = j /\ mj' = m
  /\ f = [d \in Db |-> f[d]] /\ j = [d \in Db |-> j[d]] /\ m = [n \in Name |-> m[n]]
  /\ removed' = [d \in Db |-> NoFile] /\ unlinked' = [n \in Name |-> NoFile]
  /\ holder' = [d \in Db |-> None] /\ h' = [p \in Proc |-> Idle]
  /\ UNCHANGED <<files, done>> /\ faults' = faults + 1 /\ Bounded

LEMMA Failed ==
  ASSUME Risks = {}, PowerFailure
  PROVE  \E f, j, m : Fails(f, j, m)
<1>1. PICK f \in Choices(Db, LAMBDA d : disk[d]), j \in Choices(Db, JournalsLeft),
           m \in Choices(Name, MastersLeft) :
        /\ Ordered => InOrder(f, j, m)
        /\ file' = f /\ disk' = [d \in Db |-> {f[d]}]
        /\ jrnl' = j /\ mj' = m
  BY DEF PowerFailure
<1>2. f = [d \in Db |-> f[d]] /\ \A d \in Db : f[d] \in disk[d]
  BY DEF Choices
<1>3. j = [d \in Db |-> j[d]] /\ \A d \in Db : j[d] \in JournalsLeft(d)
  BY DEF Choices
<1>4. m = [n \in Name |-> m[n]] /\ \A n \in Name : m[n] \in MastersLeft(n)
  BY DEF Choices
<1>5. Fails(f, j, m)
  BY <1>1, <1>2, <1>3, <1>4 DEF Fails, PowerFailure, Ordered
<1> QED
  BY <1>5

\* What it leaves of a journal: one that was synced, nothing, one whose removal is undone,
\* or something of one that was not synced.
LEMMA JournalLeft ==
  ASSUME IInv, NEW d \in Db, NEW J \in JournalsLeft(d)
  PROVE  /\ jrnl[d].on /\ jrnl[d].synced => J = jrnl[d]
         /\ ~(jrnl[d].on /\ jrnl[d].synced) =>
              \/ J \in {NoFile, removed[d]}
              \/ jrnl[d].on /\ J.on /\ J.master \in {None, jrnl[d].master} /\ J.old = jrnl[d].old
         /\ J \in Journal \union {NoFile} /\ (J.on => J.synced) /\ Old(J, d)
<1>1. Types /\ Database(d)
  BY DEF IInv
<1>2. jrnl[d] \in Journal \union {NoFile} /\ removed[d] \in Journal \union {NoFile}
  BY <1>1 DEF Types
<1>3. Old(jrnl[d], d) /\ Old(removed[d], d) /\ Old(NoFile, d) /\ (removed[d].on => removed[d].synced)
  BY <1>1, Nothing DEF Database, Undoable, Old
<1>4. CASE jrnl[d].on /\ jrnl[d].synced
  BY <1>2, <1>3, <1>4 DEF JournalsLeft
<1>5. CASE ~(jrnl[d].on /\ jrnl[d].synced)
  <2>1. CASE J \in {NoFile, removed[d]}
    BY <1>2, <1>3, <1>5, <2>1, Nothing
  <2>2. CASE J \notin {NoFile, removed[d]}
    <3>1. jrnl[d].on /\ J \in Torn(jrnl[d])
      BY <1>5, <2>2 DEF JournalsLeft
    <3>2. jrnl[d] \in Journal
      BY <1>1, <1>2, <3>1, JournalTyped
    <3>3. J \in Journal /\ J.on /\ J.synced /\ J.master \in {None, jrnl[d].master} /\ J.old = jrnl[d].old
          /\ J.tx = jrnl[d].tx
      BY <1>1, <3>1, <3>2, JournalTyped DEF Journal, Torn
    <3>4. Old(J, d)
      BY <1>3, <3>1, <3>3 DEF Old
    <3> QED
      BY <1>5, <3>1, <3>3, <3>4
  <2> QED
    BY <2>1, <2>2
<1> QED
  BY <1>4, <1>5

\* What it leaves of a master journal.
LEMMA MasterLeft ==
  ASSUME IInv, NEW n \in Name, NEW M \in MastersLeft(n)
  PROVE  /\ M \in MasterFile
         /\ ~mj[n].on => M \in {NoFile, unlinked[n]}
         /\ mj[n].on /\ mj[n].synced => M = mj[n]
<1>1. mj[n] \in MasterFile /\ unlinked[n] \in MasterFile /\ NoFile \in MasterFile
  BY DEF IInv, Types, MasterFile
<1>2. CASE ~mj[n].on \/ mj[n].synced
  BY <1>1, <1>2 DEF MastersLeft
<1>3. CASE mj[n].on /\ ~mj[n].synced
  <2>1. \A kids \in SUBSET mj[n].kids : [mj[n] EXCEPT !.synced = TRUE, !.kids = kids] \in MasterFile
    BY <1>1, <1>3, Nothing DEF MasterFile, Removed
  <2> QED
    BY <1>1, <1>3, <2>1 DEF MastersLeft
<1> QED
  BY <1>2, <1>3

\* If the removal of a master journal that committed is undone, all the databases of its
\* transaction are as they were before.
LEMMA TakenBack ==
  ASSUME IInv, NEW f, NEW j, NEW m, Fails(f, j, m),
         NEW n \in Name, unlinked[n].on, unlinked[n].commit, m[n].on,
         NEW d \in Db, NEW J \in {jrnl[d], removed[d]}, J.master = n
  PROVE  /\ Content(d)'.tx = J.old.tx /\ Content(d)'.whole /\ J.tx \notin Content(d)'.tx
         /\ Content(d).tx = Content(d)'.tx \union {J.tx}
         /\ J.tx \in Begun /\ J.tx \notin done
         /\ \A e \in files[J.tx] : \E K \in {jrnl[e], removed[e]} : K.master = n /\ K.tx = J.tx
<1>1. Types /\ Database(d) /\ Master(n) /\ n # None
  BY MasterAssumption DEF IInv
<1>2. /\ jrnl[d] \in Journal \union {NoFile} /\ removed[d] \in Journal \union {NoFile}
      /\ J \in Journal /\ J.on
  BY <1>1, JournalTyped DEF Types
<1>3. /\ Has(J, d) /\ J.good /\ J.tx \notin done
      /\ \A e \in files[J.tx] : \E K \in {jrnl[e], removed[e]} : K.master = n /\ K.tx = J.tx
  BY <1>1 DEF Master, Committed
<1>4. ~mj[n].on
  BY <1>1 DEF Master
<1>5. J.old.whole /\ J.tx \notin J.old.tx
  BY <1>1, <1>2 DEF Database, Old
<1>6. Content(d) = file[d] /\ j[d] = J
  <2>1. CASE J = jrnl[d]
    <3>1. jrnl[d].synced
      BY <1>1, <1>2, <1>4, <2>1 DEF Database, Unsynced
    <3>2. j[d] = J
      BY <1>2, <2>1, <3>1, JournalLeft DEF Fails
    <3>3. Content(d) = file[d]
      BY <1>1, <1>4, <2>1 DEF Content, Exists
    <3> QED
      BY <3>2, <3>3
  <2>2. CASE J = removed[d]
    <3>1. ~(jrnl[d].on /\ jrnl[d].synced)
      BY <1>1, <1>2, <2>2 DEF Database, Undoable
    <3>2. Content(d) = file[d]
      BY <1>1, <3>1 DEF Content, Database, Unsynced
    <3>3. j[d] = removed[d]
      BY <1>1, <1>2, <2>2 DEF Fails, InOrder
    <3> QED
      BY <2>2, <3>2, <3>3
  <2> QED
    BY <2>1, <2>2
<1>7. Content(d)' = J.old
  BY <1>1, <1>2, <1>3, <1>6 DEF Fails, Content, Exists
<1>8. J.tx \in Begun
  BY <1>1, <1>2, JournalTyped
<1>9. file[d].tx = J.old.tx \union {J.tx}
  BY <1>3 DEF Has
<1> QED
  BY <1>3, <1>5, <1>6, <1>7, <1>8, <1>9

\* A power failure leaves a database its content, or takes back one transaction in all
\* the databases it changed, one that was not known to be committed.
Kept(d) == Content(d)' = Content(d)

Back(d, t) ==
  /\ Content(d).tx = Content(d)'.tx \union {t} /\ Content(d)'.whole
  /\ t \notin done /\ \A e \in files[t] : t \notin Content(e)'.tx

LEMMA KeptOrBack ==
  ASSUME IInv, NEW f, NEW j, NEW m, Fails(f, j, m), NEW d \in Db
  PROVE  Kept(d) \/ \E t \in Begun : Back(d, t)
<1> DEFINE J == jrnl[d]
           R == removed[d]
<1>1. /\ Types /\ Database(d)
      /\ J \in Journal \union {NoFile} /\ R \in Journal \union {NoFile}
      /\ j[d] \in JournalsLeft(d) /\ jrnl'[d] = j[d] /\ file'[d] = f[d] /\ mj' = m
  BY DEF IInv, Types, Fails
<1>2. f[d] \in disk[d] /\ (disk[d] = {file[d]} => f[d] = file[d])
  BY DEF Fails
<1>3. \A n \in Name : /\ ~mj[n].on => m[n] \in {NoFile, unlinked[n]}
                      /\ mj[n].on /\ mj[n].synced => m[n] = mj[n]
  BY MasterLeft DEF Fails
<1>4. \A n \in Name : unlinked[n].on => Master(n)
  BY DEF IInv
<1>5. CASE J.on /\ J.synced
  <2>1. j[d] = J /\ ~R.on
    BY <1>1, <1>5, JournalLeft DEF Database, Undoable
  <2>2. CASE ~J.good
    <3>1. f[d] = file[d]
      BY <1>1, <1>2, <2>1, <2>2 DEF Database, Settled, Hot
    <3> QED
      BY <1>1, <2>1, <2>2, <3>1 DEF Content, Kept
  <2>3. CASE J.good /\ J.master = None
    BY <1>1, <1>5, <2>1, <2>3 DEF Content, Kept
  <2>4. CASE J.good /\ J.master # None
    <3>1. PICK n \in Name : n = J.master
      BY <1>1, <2>4, JournalTyped
    <3>2. CASE mj[n].on
      <4>1. m[n] = mj[n]
        BY <1>1, <1>3, <1>5, <2>4, <3>1, <3>2 DEF Database, Old
      <4> QED
        BY <1>1, <1>5, <2>1, <2>4, <3>1, <3>2, <4>1 DEF Content, Exists, Kept
    <3>3. CASE ~mj[n].on
      <4>1. f[d] = file[d]
        BY <1>1, <1>2, <2>1, <2>4, <3>1, <3>3 DEF Database, Settled, Hot, Exists
      <4>2. CASE ~m[n].on
        BY <1>1, <2>1, <2>4, <3>1, <3>3, <4>1, <4>2 DEF Content, Exists, Kept
      <4>3. CASE m[n].on
        <5>1. unlinked[n].on /\ unlinked[n].commit
          BY <1>3, <1>4, <3>1, <3>3, <4>3, Nothing DEF Master, Orphaned
        <5>2. \A e \in files[J.tx] : e \in Db
          BY <1>1, <1>5, JournalTyped DEF Types, Begun
        <5>3. Back(d, J.tx) /\ J.tx \in Begun
          BY <3>1, <4>3, <5>1, <5>2, TakenBack DEF Back
        <5> QED
          BY <5>3
      <4> QED
        BY <4>2, <4>3
    <3> QED
      BY <3>2, <3>3
  <2> QED
    BY <2>2, <2>3, <2>4
<1>6. CASE ~(J.on /\ J.synced)
  <2>1. Content(d) = file[d] /\ (J.on => J.old = file[d])
    BY <1>1, <1>6 DEF Content, Database, Unsynced
  <2>2. CASE j[d] # R \/ ~R.on
    <3>1. R.on => f[d] = file[d]
      BY <2>2 DEF Fails, InOrder
    <3>2. ~R.on => f[d] = file[d]
      BY <1>1, <1>2, <1>6 DEF Database, Settled, Hot
    <3>3. \/ ~j[d].on
          \/ j[d].on /\ J.on /\ j[d].old = J.old
      BY <1>1, <1>6, <2>2, JournalLeft, Nothing
    <3> QED
      BY <1>1, <2>1, <3>1, <3>2, <3>3 DEF Content, Kept
  <2>3. CASE j[d] = R /\ R.on
    <3>1. CASE ~R.good
      <4>1. f[d] = file[d]
        BY <1>1, <1>2, <2>3, <3>1 DEF Database, Undoable
      <4> QED
        BY <1>1, <2>1, <2>3, <3>1, <4>1 DEF Content, Kept
    <3>2. CASE R.good /\ R.master = None
      <4>1. Content(d)' = R.old
        BY <1>1, <2>3, <3>2 DEF Content
      <4>2. CASE file[d] = R.old
        BY <2>1, <4>1, <4>2 DEF Kept
      <4>3. CASE Has(R, d) /\ files[R.tx] = {d} /\ R.tx \notin done
        <5>1. file[d].tx = R.old.tx \union {R.tx} /\ R.old.whole /\ R.tx \notin R.old.tx /\ R.tx \in Begun
          BY <1>1, <2>3, <4>3, JournalTyped DEF Has, Database, Old
        <5>2. \A e \in files[R.tx] : R.tx \notin Content(e)'.tx
          BY <4>1, <4>3, <5>1
        <5>3. Back(d, R.tx)
          BY <2>1, <4>1, <4>3, <5>1, <5>2 DEF Back
        <5> QED
          BY <5>1, <5>3
      <4> QED
        BY <1>1, <2>3, <3>2, <4>2, <4>3 DEF Database, Undoable
    <3>3. CASE R.good /\ R.master # None
      <4>1. PICK n \in Name : n = R.master
        BY <1>1, <3>3, JournalTyped
      <4>2. CASE m[n].on
        <5>1. Content(d)' = R.old
          BY <1>1, <2>3, <3>3, <4>1, <4>2 DEF Content, Exists
        <5>2. CASE mj[n].on \/ (unlinked[n].on /\ ~unlinked[n].commit)
          <6>1. file[d] = R.old
            BY <1>1, <2>3, <3>3, <4>1, <5>2 DEF Database, Undoable
          <6> QED
            BY <2>1, <5>1, <6>1 DEF Kept
        <5>3. CASE ~mj[n].on /\ ~(unlinked[n].on /\ ~unlinked[n].commit)
          <6>1. unlinked[n].on /\ unlinked[n].commit
            BY <1>3, <4>2, <5>3, Nothing
          <6>2. \A e \in files[R.tx] : e \in Db
            BY <1>1, <2>3, JournalTyped DEF Types, Begun
          <6>3. Back(d, R.tx) /\ R.tx \in Begun
            BY <4>1, <4>2, <6>1, <6>2, TakenBack DEF Back
          <6> QED
            BY <6>3
        <5> QED
          BY <5>2, <5>3
      <4>3. CASE ~m[n].on
        <5>1. ~mj[n].on
          BY <1>1, <1>3, <2>3, <3>3, <4>1, <4>3 DEF Database, Old
        <5>2. CASE ~unlinked[n].on
          <6>1. f[d] = file[d]
            BY <1>1, <1>2, <2>3, <3>3, <4>1, <5>1, <5>2 DEF Database, Undoable
          <6> QED
            BY <1>1, <2>1, <2>3, <3>3, <4>1, <4>3, <6>1 DEF Content, Exists, Kept
        <5>3. CASE unlinked[n].on /\ unlinked[n].commit
          <6>1. f[d] = file[d]
            BY <1>2, <1>4, <4>1, <5>3 DEF Master, Committed, Has
          <6> QED
            BY <1>1, <2>1, <2>3, <3>3, <4>1, <4>3, <6>1 DEF Content, Exists, Kept
        <5>4. CASE unlinked[n].on /\ ~unlinked[n].commit
          <6>1. f[d] = file[d]
            BY <2>3, <3>3, <4>1, <4>3, <5>4 DEF Fails, InOrder
          <6> QED
            BY <1>1, <2>1, <2>3, <3>3, <4>1, <4>3, <6>1 DEF Content, Exists, Kept
        <5> QED
          BY <5>2, <5>3, <5>4
      <4> QED
        BY <4>2, <4>3
    <3> QED
      BY <1>1, <2>3, <3>1, <3>2, <3>3
  <2> QED
    BY <2>2, <2>3
<1> QED
  BY <1>5, <1>6

LEMMA StepPowerFailure ==
  ASSUME IInv, Risks = {}, PowerFailure
  PROVE  IInv'
<1>1. PICK f, j, m : Fails(f, j, m)
  BY Failed
<1>2. Types
  BY DEF IInv
<1>3. /\ \A d \in Db : /\ file'[d] = f[d] /\ disk'[d] = {f[d]} /\ jrnl'[d] = j[d] /\ removed'[d] = NoFile
                       /\ f[d] \in disk[d] /\ j[d] \in JournalsLeft(d) /\ holder'[d] = None
      /\ \A n \in Name : mj'[n] = m[n] /\ m[n] \in MastersLeft(n) /\ unlinked'[n] = NoFile
      /\ \A p \in Proc : h'[p] = Idle
      /\ UNCHANGED <<files, done>>
  BY <1>1 DEF Fails
<1>4. Types'
  <2>1. faults' \in Nat /\ Len(files') + faults' <= MaxTx
    BY <1>1, <1>2, MasterAssumption DEF Fails, Bounded, Types
  <2>2. file' \in [Db -> Version] /\ disk' \in [Db -> SUBSET Version] /\ \A d \in Db : file'[d] \in disk'[d]
    <3>1. \A d \in Db : f[d] \in Version
      BY <1>2, <1>3 DEF Types
    <3> QED
      BY <1>1, <1>3, <3>1 DEF Fails
  <2>3. jrnl' \in [Db -> Journal \union {NoFile}] /\ removed' \in [Db -> Journal \union {NoFile}]
    <3>1. \A d \in Db : j[d] \in Journal \union {NoFile}
      BY <1>3, JournalLeft
    <3> QED
      BY <1>1, <3>1 DEF Fails
  <2>4. mj' \in [Name -> MasterFile] /\ unlinked' \in [Name -> Removed \union {NoFile}]
    <3>1. \A n \in Name : m[n] \in MasterFile
      BY <1>3, MasterLeft
    <3> QED
      BY <1>1, <3>1 DEF Fails
  <2>5. holder' \in [Db -> Proc \union {None}] /\ h' \in [Proc -> Handle]
    <3>1. Idle \in Handle
      BY DEF Idle, Handle
    <3> QED
      BY <1>1, <3>1 DEF Fails
  <2>6. Begun' = Begun /\ Version' = Version /\ Journal' = Journal /\ Handle' = Handle
        /\ MasterFile' = MasterFile /\ Removed' = Removed
    BY <1>3 DEF Begun, Version, Journal, Handle, MasterFile, Removed
  <2> QED
    BY <1>2, <1>3, <2>1, <2>2, <2>3, <2>4, <2>5, <2>6 DEF Types
<1>5. Holding'
  BY <1>3, Nothing, MasterAssumption DEF Holding
<1>6. \A d \in Db : Database(d)'
  <2> TAKE d \in Db
  <2>1. j[d] \in Journal \union {NoFile} /\ (j[d].on => j[d].synced) /\ Old(j[d], d)
    BY <1>3, JournalLeft
  <2>2. Settled(d)' /\ Unsynced(d)' /\ Undoable(d)' /\ Old(removed[d], d)'
    BY <1>3, <2>1, Nothing DEF Settled, Unsynced, Undoable, Old
  <2>3. Old(jrnl[d], d)'
    <3> SUFFICES ASSUME j[d].on, j[d].master # None, m[j[d].master].on
                 PROVE  m[j[d].master].synced /\ d \in m[j[d].master].kids
      <4>1. j[d].master # None => ~unlinked'[j[d].master].on
        BY <1>2, <1>3, <2>1, JournalTyped, Nothing
      <4> QED
        BY <1>1, <1>3, <2>1, <4>1 DEF Old, Fails
    <3>1. PICK n \in Name : n = j[d].master
      BY <1>2, <2>1, JournalTyped
    <3>2. /\ ~mj[n].on => m[n] \in {NoFile, unlinked[n]}
          /\ mj[n].on /\ mj[n].synced => m[n] = mj[n]
      BY <1>3, MasterLeft
    <3>3. unlinked[n].on => unlinked[n].synced
      BY <1>2, MasterTyped
    <3> QED
      BY <2>1, <3>1, <3>2, <3>3, Nothing DEF Old
  <2> QED
    BY <2>2, <2>3 DEF Database
<1>7. \A n \in Name : Master(n)'
  BY <1>3, Nothing DEF Master, Committed, Orphaned
<1>8. \A p \in Proc : Process(p)'
  BY <1>3, DoneOne
<1>9. \A d \in Db : Kept(d) \/ \E t \in Begun : Back(d, t)
  BY <1>1, KeptOrBack
<1>10. \A d \in Db : Content(d)'.whole /\ Content(d)'.tx \subseteq Content(d).tx
  BY <1>9 DEF Kept, Back, IInv, AllOrNone
<1>11. \A t \in Begun : files[t] \subseteq Db
  BY <1>2 DEF Types, Begun
<1>12. AllOrNone'
  <2>1. ASSUME NEW t \in Begun, NEW d \in files[t], NEW e \in files[t], t \in Content(d)'.tx
        PROVE  t \in Content(e)'.tx
    <3>1. d \in Db /\ e \in Db
      BY <1>11
    <3>2. t \in Content(e).tx
      BY <1>10, <2>1, <3>1 DEF IInv, AllOrNone, Begun
    <3>3. CASE Kept(e)
      BY <3>2, <3>3 DEF Kept
    <3>4. CASE \E u \in Begun : Back(e, u)
      <4>1. PICK u \in Begun : Back(e, u)
        BY <3>4
      <4>2. u # t
        BY <2>1, <4>1 DEF Back
      <4> QED
        BY <3>2, <4>1, <4>2 DEF Back
    <3> QED
      BY <1>9, <3>1, <3>3, <3>4
  <2> QED
    BY <1>3, <1>10, <2>1 DEF AllOrNone, Begun
<1>13. CommitStays'
  <2> SUFFICES ASSUME NEW t \in done, NEW d \in files[t] PROVE t \in Content(d)'.tx
    BY <1>3 DEF CommitStays
  <2>1. t \in Begun /\ d \in Db
    BY <1>2, <1>11 DEF Types
  <2>2. t \in Content(d).tx
    BY DEF IInv, CommitStays
  <2>3. CASE Kept(d)
    BY <2>2, <2>3 DEF Kept
  <2>4. CASE \E u \in Begun : Back(d, u)
    BY <2>2, <2>4 DEF Back
  <2> QED
    BY <1>9, <2>1, <2>3, <2>4
<1> QED
  BY <1>4, <1>5, <1>6, <1>7, <1>8, <1>12, <1>13 DEF IInv

-----------------------------------------------------------------------------
(* The theorems.                                                             *)

\* Every step keeps the invariant.
LEMMA NextIInv ==
  ASSUME IInv, Risks = {}, [Next]_vars
  PROVE  IInv'
<1>1. CASE UNCHANGED vars
  <2>1. UNCHANGED stored /\ UNCHANGED <<holder, h, faults>>
    BY <1>1 DEF vars, stored
  <2>2. Types' /\ Holding'
    BY <2>1 DEF IInv, Types, Holding, stored, Begun, Version, Journal, Handle, MasterFile, Removed
  <2>3. \A p \in Proc : Process(p)'
    BY <2>1 DEF IInv, Process, IdleOK, CommitsOK, WritesOK, OwnsMaster, FinishesOK, UndoesOK,
                Has, Hot, Exists, Unwritten, stored
  <2> QED
    BY <2>1, <2>2, <2>3, StoredKept DEF IInv
<1>2. ASSUME NEW p \in Proc, Step(p) PROVE IInv'
  <2>1. CASE \E dbs \in (SUBSET Db) \ {{}} : \E changed \in (SUBSET dbs) \ {{}} : Begin(p, dbs, changed)
    BY <2>1, StepBegin
  <2>2. CASE CommitOne(p)
    BY <2>2, StepCommitOne
  <2>3. CASE SyncMaster(p)
    BY <2>3, StepSyncMaster
  <2>4. CASE \E n \in Name : CreateMaster(p, n)
    BY <2>4, StepCreateMaster
  <2>5. CASE SyncJournal(p)
    BY <2>5, StepSyncJournal
  <2>6. CASE Busy(p)
    BY <2>6, StepBusy
  <2>7. CASE WritePages(p)
    BY <2>7, StepWritePages
  <2>8. CASE SyncFile(p)
    BY <2>8, StepSyncFile
  <2>9. CASE NoMaster(p)
    BY <2>9, StepNoMaster
  <2>10. CASE RemoveMaster(p)
    BY <2>10, StepRemoveMaster
  <2>11. CASE SyncDirectory(p)
    BY <2>11, StepSyncDirectory
  <2>12. CASE \E d \in Db : NameJournal(p, d)
    BY <2>12, StepNameJournal
  <2>13. CASE \E d \in Db : CommitFile(p, d)
    BY <2>13, StepCommitFile
  <2>14. CASE \E d \in Db : ForgetFile(p, d)
    BY <2>14, StepForgetFile
  <2>15. CASE \E d \in Db : Playback(p, d)
    BY <2>15, StepPlayback
  <2>16. CASE \E d \in Db : Recover(p, d)
    BY <2>16, StepRecover
  <2>17. CASE \E d \in Db : KidExists(p, d)
    BY <2>17, StepKidExists
  <2>18. CASE Rollback(p)
    BY <2>18, StepRollback
  <2>19. CASE DropJournal(p)
    BY <2>19, StepDropJournal
  <2>20. CASE OpenMaster(p)
    BY <2>20, StepOpenMaster
  <2>21. CASE ReadKid(p)
    BY <2>21, StepReadKid
  <2>22. CASE RemoveOrphan(p)
    BY <2>22, StepRemoveOrphan
  <2>23. CASE Crash(p)
    BY <2>23, StepCrash
  <2> QED
    BY <1>2, <2>1, <2>2, <2>3, <2>4, <2>5, <2>6, <2>7, <2>8, <2>9, <2>10, <2>11, <2>12, <2>13,
       <2>14, <2>15, <2>16, <2>17, <2>18, <2>19, <2>20, <2>21, <2>22, <2>23 DEF Step
<1>3. CASE PowerFailure
  BY <1>3, StepPowerFailure
<1> QED
  BY <1>1, <1>2, <1>3 DEF Next, Quiet

\* The invariant, of all steps of the commits, recoveries, crashes and power failures, in
\* a file system that brings removals to the disk in order, where a commit that was BUSY
\* is rolled back.
THEOREM MasterInvariance ==
  ASSUME Risks = {}
  PROVE  Spec => []IInv
<1>1. Init => IInv
  BY InitIInv
<1>2. IInv /\ [Next]_vars => IInv'
  BY NextIInv
<1> QED
  BY <1>1, <1>2, PTL DEF Spec

\* Who holds which database, and that what may be on the disk is typed.
THEOREM MasterTypes ==
  ASSUME Risks = {}
  PROVE  Spec => []TypeOK
<1>1. IInv => TypeOK
  <2> SUFFICES ASSUME IInv PROVE TypeOK
    OBVIOUS
  <2>1. Types /\ Holding
    BY DEF IInv
  <2>2. \A d \in Db : file[d].tx \subseteq Tx /\ file[d] \in disk[d]
    <3>1. Begun \subseteq Tx
      BY <2>1, MasterAssumption DEF Types, Begun, Tx
    <3> QED
      BY <2>1, <3>1 DEF Types, Version
  <2>3. \A d \in Db : holder[d] # None => d \in h[holder[d]].dbs
    BY <2>1 DEF Types, Holding
  <2>4. \A p \in Proc : \A d \in h[p].dbs : holder[d] = p /\ jrnl[d].on
    BY <2>1, HandleTyped DEF Holding
  <2>5. \A p \in Proc : h[p].left \subseteq h[p].dbs
    <3> TAKE p \in Proc
    <3>1. Process(p) /\ h[p].pc \in {"idle"} \union Committing \union Finishing \union Undoing
      BY <2>1, HandleTyped DEF IInv
    <3> QED
      BY <3>1, Nothing DEF Process, IdleOK, CommitsOK, FinishesOK, UndoesOK
  <2>6. \A n \in Name : mj[n].on => mj[n].kids \subseteq Db
    BY <2>1, MasterTyped
  <2> QED
    BY <2>2, <2>3, <2>4, <2>5, <2>6 DEF TypeOK
<1> QED
  BY <1>1, MasterInvariance, PTL

\* "To ensure the transaction is committed atomicly" (vdbeaux.c:961): whatever crashes or
\* loses its power when, the databases are whole once recovered, and have a transaction
\* all or none of those it changed.
THEOREM CommitIsAtomic ==
  ASSUME Risks = {}
  PROVE  Spec => []AllOrNone
<1>1. IInv => AllOrNone
  BY DEF IInv
<1> QED
  BY <1>1, MasterInvariance, PTL

\* A transaction over several databases is never taken back once its commit has returned
\* from the sync of the directory (vdbeaux.c:1059), if a commit that was BUSY is rolled back
\* and not tried again.  Of a transaction in one database it says nothing.
THEOREM CommitIsDurable ==
  ASSUME Risks = {}
  PROVE  Spec => []CommitStays
<1>1. IInv => CommitStays
  BY DEF IInv
<1> QED
  BY <1>1, MasterInvariance, PTL

===============================================================================
