-------------------------------- MODULE Pager --------------------------------
(***************************************************************************)
(* pager.c: pages of a database file cached by several processes, with the *)
(* file locks of os_unix.c, a rollback journal, and what processes and     *)
(* power may do to them.  One handle per process, one transaction at a     *)
(* time, page 1 referenced as long as the handle is in use (btree.c holds  *)
(* it), the other pages only for the duration of a call.                   *)
(*                                                                         *)
(* Every system call is a step of its own, so that anything another        *)
(* process does may come between two of them, a crash included.            *)
(***************************************************************************)
EXTENDS Integers, Sequences, FiniteSets

CONSTANTS
  Proc,          \* the processes
  Writers,       \* those that may write
  SyncModes,     \* which of PRAGMA synchronous=FULL (TRUE) and NORMAL (FALSE)
  InitSizes,     \* pages of the file at the start, one of
  MaxPage,       \* bound: pages of the file
  CacheSize,     \* mxPage: pages a cache holds before it recycles one
  MaxTx,         \* bound: transactions, and faults, all processes together
  Risks          \* what callers and the file system may do, a set of:
                 \*  "nested"  other cursors keep pages in use when a change
                 \*            fails or is rolled back
                 \*  "together" several processes open a file that is still empty
                 \*  "lazy"    the file system may bring the removal of a file to
                 \*            the disk before data written earlier

ASSUME PagerAssumption ==
  /\ Writers \subseteq Proc
  /\ SyncModes \subseteq BOOLEAN
  /\ InitSizes \subseteq 0..MaxPage /\ MaxPage \in Nat \ {0}
  /\ CacheSize \in Nat \ {0} /\ MaxTx \in Nat \ {0}
  /\ Risks \subseteq {"nested", "together", "lazy"}

Page == 1..MaxPage

\* The content of a page is the number of the transaction that wrote it: 1 in the
\* file at the start.  A page past the end of the file reads as zeros.
Blank == 0
Val == 0..(MaxTx + 1)

NO_LOCK == 0
SHARED == 1
RESERVED == 2
PENDING == 3
EXCLUSIVE == 4
SYNCED == 5       \* of the pager only

Junk == -1        \* a sector whose write the power failure cut short

VARIABLES
  file,     \* the database file as read() sees it: its size and pages
  disk,     \* what a power failure may leave of it: per page, and its sizes
  jrnl,     \* the journal file, or NoJournal
  linked,   \* the directory entry of the journal is on the disk
  ghosts,   \* removed journals whose removal may not be on the disk, oldest first
  h,        \* the Pager of each process
  clock,    \* number of the last transaction
  before,   \* history: the content before the last commit
  spoiled,  \* history: a transaction was begun with a size that is not the file's
  faults,   \* how many crashes and power failures there have been
  fullSync  \* the synchronous mode, the same for all handles

vars == <<file, disk, jrnl, linked, ghosts, h, clock, before, spoiled, faults, fullSync>>

fileVars == <<file, disk>>
jrnlVars == <<jrnl, linked, ghosts>>
histVars == <<clock, before, spoiled>>

-------------------------------------------------------------------------------
(* The journal: the size of the file before the transaction, and records of   *)
(* pages.  Its headers, one per segment, count the records; what matters of   *)
(* them is how far they count.  count: as read() sees it (Junk: the first     *)
(* header is not whole); may: what the disk may hold of it; synced: how many  *)
(* of the records are on the disk.                                            *)

NoJournal == [size |-> 0, recs |-> <<>>, count |-> Junk, may |-> {}, synced |-> 0]

NewJournal(size) ==
  [size |-> size, recs |-> <<>>, count |-> 0, may |-> {Junk, 0}, synced |-> 0]

\* Mutant of Restores: records are restored unchecked.
RestoresUnchecked(j, k) == k <= j.count

\* pager_playback restores record k: the headers count it, and neither its checksum
\* nor one before it is wrong.
Restores(j, k) == k <= j.count /\ \A m \in 1..k : j.recs[m].val # Junk

Originals(j, i) == {k \in DOMAIN j.recs : j.recs[k].pg = i /\ Restores(j, k)}

\* A file of n pages; past its end there are zeros.
Sized(pages, n) == [size |-> n, page |-> [i \in Page |-> IF i <= n THEN pages[i] ELSE Blank]]

Store(f, i, v) ==
  [size |-> IF i > f.size THEN i ELSE f.size, page |-> [f.page EXCEPT ![i] = v]]

\* The content of the file once the journal, if there is one, has been played back:
\* cut to its size, with the original pages, unless its first header is not whole.
Restored(j, f) ==
  IF j.count = Junk THEN f
  ELSE Sized([i \in Page |-> IF Originals(j, i) = {} THEN f.page[i]
                             ELSE j.recs[CHOOSE k \in Originals(j, i) : TRUE].val],
             j.size)

Content == Restored(jrnl, file)

-------------------------------------------------------------------------------
(* What is on the disk.                                                       *)

Durable(f) == [size |-> {f.size}, page |-> [i \in Page |-> {f.page[i]}]]

\* Written, not synced: the old content or the new one may be on the disk.
Written(d, f) ==
  [size |-> d.size \union {f.size}, page |-> [i \in Page |-> d.page[i] \union {f.page[i]}]]

WriteFile(f) == file' = f /\ disk' = Written(disk, f)

\* fsync of the journal, and of its directory the first time.  Without the risk
\* "lazy" the removals that this brings to the disk take along what came before.
SyncJournalFile ==
  /\ jrnl' = [jrnl EXCEPT !.may = {jrnl.count}, !.synced = Len(jrnl.recs)]
  /\ linked' = TRUE
  /\ ghosts' = <<>>
  /\ disk' = IF "lazy" \notin Risks /\ ghosts # <<>> THEN Durable(file) ELSE disk
  /\ file' = file

\* sqlite3OsDelete does not sync the directory.
DeleteJournal ==
  /\ jrnl' = NoJournal
  /\ linked' = FALSE
  /\ ghosts' = IF jrnl = NoJournal \/ \E k \in DOMAIN ghosts : ghosts[k] = jrnl
               THEN ghosts ELSE Append(ghosts, jrnl)

-------------------------------------------------------------------------------
(* A process.  misled is a history: the call that read page 1 took for the    *)
(* number of pages what an earlier one had counted, and it has changed since. *)

NoPage == 0

Unopened ==
  [pc |-> "out", state |-> NO_LOCK, lock |-> NO_LOCK, resv |-> FALSE,
   cache |-> <<>>, dbSize |-> -1, orig |-> 0, inJournal |-> {}, hdr |-> 0, nRec |-> 0,
   needSync |-> FALSE, started |-> FALSE, dirtyCache |-> FALSE,
   job |-> "none", want |-> NoPage, victim |-> NoPage, played |-> 0, tx |-> 0,
   misled |-> FALSE]

Clean(v) == [val |-> v, dirty |-> FALSE, needSync |-> FALSE, inJournal |-> FALSE]

Init ==
  /\ \E n \in InitSizes : file = Sized([i \in Page |-> 1], n)
  /\ disk = Durable(file)
  /\ jrnl = NoJournal /\ linked = FALSE /\ ghosts = <<>>
  /\ h = [p \in Proc |-> Unopened]
  /\ clock = 1 /\ before = file /\ spoiled = FALSE
  /\ faults = 0
  /\ fullSync \in SyncModes

Others(p) == Proc \ {p}

\* sqlite3pager_pagecount
PageCount(p) == IF h[p].dbSize >= 0 THEN h[p].dbSize ELSE file.size

\* What sqlite3pager_get finds in a page that is not in the cache.
Fetch(p, i) == IF i > PageCount(p) \/ i > file.size THEN Blank ELSE file.page[i]

InUse(p) == h[p].pc = "idle"

-------------------------------------------------------------------------------
(* sqlite3pager_get of the first page.                                        *)

\* Mutant of LockShared: a lock is granted beside an exclusive one.
LockSharedAlways(p) ==
  /\ h[p].pc = "out"
  /\ h' = [h EXCEPT ![p].pc = "exists", ![p].lock = SHARED, ![p].state = SHARED]
  /\ UNCHANGED <<fileVars, jrnlVars, histVars, faults, fullSync>>

LockShared(p) ==
  /\ h[p].pc = "out"
  /\ \A q \in Others(p) : h[q].lock < PENDING
  /\ "together" \in Risks \/ file.size # 0 \/ \A q \in Others(p) : h[q].pc = "out"
  /\ h' = [h EXCEPT ![p].pc = "exists", ![p].lock = SHARED, ![p].state = SHARED]
  /\ UNCHANGED <<fileVars, jrnlVars, histVars, faults, fullSync>>

\* hasHotJournal, one call of the system after the other.
JournalExists(p) ==
  /\ h[p].pc = "exists"
  /\ h' = [h EXCEPT ![p].pc = IF jrnl = NoJournal THEN "first" ELSE "reserved"]
  /\ UNCHANGED <<fileVars, jrnlVars, histVars, faults, fullSync>>

CheckReservedLock(p) ==
  /\ h[p].pc = "reserved"
  /\ h' = IF \E q \in Others(p) : h[q].resv
          THEN [h EXCEPT ![p].pc = "first"]
          ELSE [h EXCEPT ![p].dbSize = PageCount(p),
                         ![p].pc = IF PageCount(p) = 0 THEN "stale" ELSE "hot"]
  /\ UNCHANGED <<fileVars, jrnlVars, histVars, faults, fullSync>>

\* The journal of an empty file is taken for an old one.
DeleteStale(p) ==
  /\ h[p].pc = "stale"
  /\ DeleteJournal
  /\ h' = [h EXCEPT ![p].pc = "first"]
  /\ UNCHANGED <<fileVars, histVars, faults, fullSync>>

\* Page 1 comes into the cache, and stays referenced.  lockBtree takes pages without
\* the header of page 1 for no database, and releases it.
ReadFirst(p) ==
  /\ h[p].pc = "first"
  /\ h' = IF PageCount(p) > 0 /\ Fetch(p, 1) = Blank THEN [h EXCEPT ![p] = Unopened]
          ELSE [h EXCEPT ![p].pc = "idle", ![p].dbSize = PageCount(p),
                         ![p].cache = [i \in {1} |-> Clean(Fetch(p, i))],
                         ![p].misled = (PageCount(p) # file.size)]
  /\ UNCHANGED <<fileVars, jrnlVars, histVars, faults, fullSync>>

\* Mutant of GiveUpHot: the handle believes that it has page 1.
GiveUpWithPage(p) ==
  h' = [h EXCEPT ![p] = [Unopened EXCEPT !.dbSize = h[p].dbSize, !.pc = "first",
                                         !.lock = SHARED, !.state = SHARED]]

\* BUSY at a hot journal: the lock is given back, but dbSize is not forgotten, and
\* sqlite3BtreeBeginTrans tries again with this handle (pager_reset runs only when
\* the last page is released, and there was none).
GiveUpHot(p) ==
  h' = [h EXCEPT ![p] = [Unopened EXCEPT !.dbSize = h[p].dbSize]]

\* The lock becomes EXCLUSIVE without ever being RESERVED.
LockHot(p) ==
  /\ h[p].pc = "hot"
  /\ IF \A q \in Others(p) : h[q].lock = NO_LOCK
     THEN h' = [h EXCEPT ![p].pc = "open", ![p].lock = EXCLUSIVE, ![p].state = EXCLUSIVE]
     ELSE GiveUpHot(p)
  /\ UNCHANGED <<fileVars, jrnlVars, histVars, faults, fullSync>>

OpenHot(p) ==
  /\ h[p].pc = "open"
  /\ IF jrnl = NoJournal THEN GiveUpHot(p)
     ELSE h' = [h EXCEPT ![p].pc = "trunc", ![p].job = "read"]
  /\ UNCHANGED <<fileVars, jrnlVars, histVars, faults, fullSync>>

-------------------------------------------------------------------------------
(* pager_playback: of a hot journal, or of the own one in a rollback.         *)

PlaybackTruncate(p) ==
  /\ h[p].pc = "trunc"
  /\ IF jrnl.count = Junk
     THEN /\ h' = [h EXCEPT ![p].pc = "play", ![p].played = 0]
          /\ UNCHANGED fileVars
     ELSE /\ h' = [h EXCEPT ![p].pc = "play", ![p].played = 0, ![p].dbSize = jrnl.size]
          /\ WriteFile(Sized(file.page, jrnl.size))
  /\ UNCHANGED <<jrnlVars, histVars, faults, fullSync>>

\* There is another record to restore.
MoreRecords(p) == h[p].played < Len(jrnl.recs) /\ Restores(jrnl, h[p].played + 1)

\* pager_playback_one_page, in state EXCLUSIVE.
PlaybackOnePage(p) ==
  /\ h[p].pc = "play" /\ MoreRecords(p)
  /\ LET rec == jrnl.recs[h[p].played + 1]
         c == h[p].cache
         cached == rec.pg \in DOMAIN c
         toFile == ~cached \/ ~c[rec.pg].needSync
     IN  /\ h' = [h EXCEPT ![p].played = h[p].played + 1,
                           ![p].cache = IF ~cached THEN c
                                        ELSE [c EXCEPT ![rec.pg].val = rec.val,
                                                       ![rec.pg].dirty = c[rec.pg].dirty /\ ~toFile]]
         /\ IF toFile THEN WriteFile(Store(file, rec.pg, rec.val)) ELSE UNCHANGED fileVars
  /\ UNCHANGED <<jrnlVars, histVars, faults, fullSync>>

\* The first half of pager_unwritelock: the journal goes, the cache is clean.
Unwrite(r) ==
  [r EXCEPT !.pc = "unlock", !.needSync = FALSE, !.dirtyCache = FALSE, !.nRec = 0, !.hdr = 0,
            !.inJournal = {}, !.played = 0,
            !.cache = [i \in DOMAIN r.cache |-> Clean(r.cache[i].val)]]

PlaybackEnd(p) ==
  /\ h[p].pc = "play" /\ ~MoreRecords(p)
  /\ DeleteJournal
  /\ h' = [h EXCEPT ![p] = Unwrite(h[p])]
  /\ UNCHANGED <<fileVars, histVars, faults, fullSync>>

\* The second half: SHARED again, and what the caller does then.
UnlockToShared(p) ==
  /\ h[p].pc = "unlock"
  /\ LET shared == [h[p] EXCEPT !.lock = SHARED, !.state = SHARED, !.resv = FALSE, !.job = "none"]
     IN  h' = [h EXCEPT ![p] =
                 CASE h[p].job = "read" -> [shared EXCEPT !.pc = "first"]
                   [] h[p].job # "read" /\ (h[p].job = "commit" \/ "nested" \in Risks) ->
                        [shared EXCEPT !.pc = "idle", !.dbSize = -1, !.orig = 0, !.tx = 0]
                   [] OTHER -> Unopened]
  /\ UNCHANGED <<fileVars, jrnlVars, histVars, faults, fullSync>>

\* The last page is released: pager_reset.
Release(p) ==
  /\ InUse(p)
  /\ h[p].state <= SHARED
  /\ h' = [h EXCEPT ![p] = Unopened]
  /\ UNCHANGED <<fileVars, jrnlVars, histVars, faults, fullSync>>

-------------------------------------------------------------------------------
(* sqlite3pager_get of another page.                                          *)

\* A page from the file takes a free place in the cache, or that of v.
Load(p, i, v) ==
  LET r == h[p]
  IN  [r EXCEPT !.pc = "idle", !.job = "none", !.want = NoPage, !.victim = NoPage,
                !.dbSize = PageCount(p),
                !.cache = [k \in (DOMAIN r.cache \ {v}) \union {i} |->
                             IF k = i
                             THEN [Clean(Fetch(p, i)) EXCEPT !.inJournal = i <= r.orig /\ i \in r.inJournal]
                             ELSE r.cache[k]]]

Recyclable(p) == DOMAIN h[p].cache \ {1}

\* A page is read up to the end of the file, a writer also takes the one after it.
Wanted(p, i) ==
  /\ InUse(p)
  /\ i \in Page \ DOMAIN h[p].cache
  /\ \/ i <= PageCount(p) + (IF h[p].state >= RESERVED THEN 1 ELSE 0)
     \/ h[p].misled /\ i <= file.size

Full(p) == Cardinality(DOMAIN h[p].cache) >= CacheSize /\ Recyclable(p) # {}

\* There is room, or a page that was not changed gives way.
Get(p, i) ==
  /\ Wanted(p, i)
  /\ \E v \in IF Full(p) THEN {k \in Recyclable(p) : ~h[p].cache[k].needSync} ELSE {NoPage} :
       /\ v # NoPage => ~h[p].cache[v].dirty
       /\ h' = [h EXCEPT ![p] = Load(p, i, v)]
  /\ UNCHANGED <<fileVars, jrnlVars, histVars, faults, fullSync>>

\* A changed page gives way whose original is safe in the journal.
Spill(p, i) ==
  /\ Wanted(p, i) /\ Full(p)
  /\ \E v \in Recyclable(p) :
       /\ h[p].cache[v].dirty /\ ~h[p].cache[v].needSync
       /\ h' = [h EXCEPT ![p].pc = "wait", ![p].job = "spill", ![p].want = i, ![p].victim = v]
  /\ UNCHANGED <<fileVars, jrnlVars, histVars, faults, fullSync>>

\* None of them is: the journal is synced first.
SpillSyncs(p, i) ==
  /\ Wanted(p, i) /\ Full(p)
  /\ \A v \in Recyclable(p) : h[p].cache[v].needSync
  /\ \E v \in Recyclable(p) :
       h' = [h EXCEPT ![p].pc = "sync", ![p].job = "spill", ![p].want = i, ![p].victim = v]
  /\ UNCHANGED <<fileVars, jrnlVars, histVars, faults, fullSync>>

-------------------------------------------------------------------------------
(* sqlite3pager_begin and sqlite3pager_write.                                 *)

\* (A transaction that finds a journal in its way is not one, for the bound.)
BeginReserved(p) ==
  /\ p \in Writers
  /\ clock + faults <= MaxTx \/ jrnl # NoJournal
  /\ InUse(p) /\ h[p].state = SHARED
  /\ \A q \in Others(p) : ~h[q].resv
  /\ h' = [h EXCEPT ![p].pc = "create", ![p].lock = RESERVED, ![p].resv = TRUE,
                    ![p].state = RESERVED, ![p].dirtyCache = FALSE]
  /\ UNCHANGED <<fileVars, jrnlVars, histVars, faults, fullSync>>

\* pager_open_journal: the journal must not exist yet.
CreateJournal(p) ==
  /\ h[p].pc = "create"
  /\ jrnl = NoJournal /\ clock + faults <= MaxTx
  /\ jrnl' = NewJournal(PageCount(p))
  /\ linked' = FALSE
  /\ h' = [h EXCEPT ![p] =
             [h[p] EXCEPT !.pc = "idle", !.dbSize = PageCount(p), !.orig = PageCount(p),
                          !.needSync = FALSE, !.started = FALSE, !.hdr = 0, !.nRec = 0,
                          !.inJournal = {}, !.tx = clock + 1]]
  /\ clock' = clock + 1
  /\ spoiled' = (spoiled \/ h[p].misled)
  /\ UNCHANGED <<fileVars, ghosts, before, faults, fullSync>>

\* It does: the lock is given up, but not the pages that are in use.
CannotCreate(p) ==
  /\ h[p].pc = "create"
  /\ jrnl # NoJournal
  /\ h' = [h EXCEPT ![p] =
             IF "nested" \in Risks
             THEN [h[p] EXCEPT !.pc = "idle", !.lock = NO_LOCK, !.resv = FALSE, !.state = NO_LOCK,
                               !.dbSize = PageCount(p)]
             ELSE Unopened]
  /\ UNCHANGED <<fileVars, jrnlVars, histVars, faults, fullSync>>

\* What sqlite3pager_write and its caller do to a page of the cache.
Change(r, i) ==
  LET c == r.cache[i]
      old == ~c.inJournal /\ i <= r.orig
      unsynced == IF c.inJournal THEN c.needSync ELSE IF old THEN TRUE ELSE ~r.started
  IN  [r EXCEPT !.dirtyCache = TRUE,
                !.nRec = IF old THEN r.nRec + 1 ELSE r.nRec,
                !.inJournal = IF old THEN r.inJournal \union {i} ELSE r.inJournal,
                !.needSync = r.needSync \/ unsynced,
                !.dbSize = IF r.dbSize < i THEN i ELSE r.dbSize,
                !.cache = [r.cache EXCEPT ![i] = [val |-> r.tx, dirty |-> TRUE,
                                                 needSync |-> unsynced, inJournal |-> TRUE]]]

\* The original goes to the journal, once.
Journalled(r, i) ==
  IF ~r.cache[i].inJournal /\ i <= r.orig
  THEN [jrnl EXCEPT !.recs = Append(jrnl.recs, [pg |-> i, val |-> r.cache[i].val])]
  ELSE jrnl

Write(p, i) ==
  /\ InUse(p) /\ h[p].state \in {RESERVED, EXCLUSIVE}
  /\ i \in DOMAIN h[p].cache
  /\ h[p].cache[i].val # h[p].tx
  /\ h' = [h EXCEPT ![p] = Change(h[p], i)]
  /\ jrnl' = Journalled(h[p], i)
  /\ UNCHANGED <<fileVars, linked, ghosts, histVars, faults, fullSync>>

-------------------------------------------------------------------------------
(* syncJournal: records, then their count, in FULL mode with a sync between.  *)

SyncRecords(p) ==
  /\ h[p].pc = "sync" /\ h[p].needSync
  /\ IF fullSync THEN SyncJournalFile ELSE UNCHANGED <<fileVars, jrnlVars>>
  /\ h' = [h EXCEPT ![p].pc = "count"]
  /\ UNCHANGED <<histVars, faults, fullSync>>

WriteCount(p) ==
  /\ h[p].pc = "count"
  /\ LET n == h[p].hdr + h[p].nRec
     IN  jrnl' = [jrnl EXCEPT !.count = n, !.may = jrnl.may \union {n}]
  /\ h' = [h EXCEPT ![p].pc = "header"]
  /\ UNCHANGED <<fileVars, linked, ghosts, histVars, faults, fullSync>>

\* Mutant of SyncHeader: the count of the records is not synced.
SyncForgotten(p) ==
  /\ h[p].pc = "header"
  /\ h' = [h EXCEPT ![p].pc = IF h[p].job = "spill" /\ fullSync THEN "segment" ELSE "wait",
                    ![p].started = TRUE, ![p].needSync = FALSE,
                    ![p].cache = [i \in DOMAIN h[p].cache |->
                                    [h[p].cache[i] EXCEPT !.needSync = FALSE]]]
  /\ UNCHANGED <<fileVars, jrnlVars, histVars, faults, fullSync>>

SyncHeader(p) ==
  /\ h[p].pc = "header"
  /\ SyncJournalFile
  /\ h' = [h EXCEPT ![p].pc = IF h[p].job = "spill" /\ fullSync THEN "segment" ELSE "wait",
                    ![p].started = TRUE, ![p].needSync = FALSE,
                    ![p].cache = [i \in DOMAIN h[p].cache |->
                                    [h[p].cache[i] EXCEPT !.needSync = FALSE]]]
  /\ UNCHANGED <<histVars, faults, fullSync>>

\* A spill in FULL mode never changes a header again that pages depend on.  The next
\* one counts nothing yet, which for playback is the same as a torn one.
NewSegment(p) ==
  /\ h[p].pc = "segment"
  /\ h' = [h EXCEPT ![p].pc = "wait", ![p].hdr = h[p].hdr + h[p].nRec, ![p].nRec = 0]
  /\ UNCHANGED <<fileVars, jrnlVars, histVars, faults, fullSync>>

SyncNotNeeded(p) ==
  /\ h[p].pc = "sync" /\ ~h[p].needSync
  /\ h' = [h EXCEPT ![p].pc = "wait"]
  /\ UNCHANGED <<fileVars, jrnlVars, histVars, faults, fullSync>>

-------------------------------------------------------------------------------
(* pager_write_pagelist.                                                      *)

\* The lock becomes PENDING at once, and EXCLUSIVE when the last reader has gone.
WaitExclusive(p) ==
  /\ h[p].pc = "wait"
  /\ h' = [h EXCEPT ![p] =
             IF h[p].state >= EXCLUSIVE \/ \A q \in Others(p) : h[q].lock = NO_LOCK
             THEN [h[p] EXCEPT !.pc = "write", !.lock = EXCLUSIVE, !.state = EXCLUSIVE]
             ELSE [h[p] EXCEPT !.lock = PENDING]]
  /\ UNCHANGED <<fileVars, jrnlVars, histVars, faults, fullSync>>

\* The busy handler gives up.  A commit can be tried again, a spill rolls back.
Busy(p) ==
  /\ h[p].pc = "wait" /\ h[p].state < EXCLUSIVE /\ h[p].lock = PENDING
  /\ h[p].job = "commit"
  /\ h' = [h EXCEPT ![p].pc = "idle", ![p].job = "none"]
  /\ UNCHANGED <<fileVars, jrnlVars, histVars, faults, fullSync>>

Dirty(p) == {i \in DOMAIN h[p].cache : h[p].cache[i].dirty}

WritePage(p) ==
  /\ h[p].pc = "write"
  /\ \E i \in IF h[p].job = "spill" THEN {h[p].victim} \intersect Dirty(p) ELSE Dirty(p) :
       /\ h' = [h EXCEPT ![p].cache[i].dirty = FALSE]
       /\ IF i <= h[p].dbSize THEN WriteFile(Store(file, i, h[p].cache[i].val))
                              ELSE UNCHANGED fileVars
  /\ UNCHANGED <<jrnlVars, histVars, faults, fullSync>>

\* The page that gave way is replaced.
Recycle(p) ==
  /\ h[p].pc = "write" /\ h[p].job = "spill"
  /\ h[p].victim \notin Dirty(p)
  /\ h' = [h EXCEPT ![p] = Load(p, h[p].want, h[p].victim)]
  /\ UNCHANGED <<fileVars, jrnlVars, histVars, faults, fullSync>>

-------------------------------------------------------------------------------
(* sqlite3pager_sync, sqlite3pager_commit, sqlite3pager_rollback.             *)

\* Nothing was changed: the journal goes without a sync.
CommitNothing(p) ==
  /\ InUse(p) /\ h[p].state >= RESERVED
  /\ ~h[p].dirtyCache
  /\ DeleteJournal
  /\ h' = [h EXCEPT ![p] = [Unwrite(h[p]) EXCEPT !.job = "commit"]]
  /\ UNCHANGED <<fileVars, histVars, faults, fullSync>>

\* The change counter on page 1 is incremented, then the journal is synced.
CommitBegin(p) ==
  /\ InUse(p) /\ h[p].state >= RESERVED
  /\ h[p].dirtyCache
  /\ h' = [h EXCEPT ![p] = [Change(h[p], 1) EXCEPT !.pc = "sync", !.job = "commit"]]
  /\ jrnl' = Journalled(h[p], 1)
  /\ UNCHANGED <<fileVars, linked, ghosts, histVars, faults, fullSync>>

SyncFile(p) ==
  /\ h[p].pc = "write" /\ h[p].job = "commit"
  /\ Dirty(p) = {}
  /\ disk' = Durable(file)
  /\ h' = [h EXCEPT ![p].pc = "synced", ![p].state = SYNCED]
  /\ UNCHANGED <<file, jrnlVars, histVars, faults, fullSync>>

\* The transaction is committed when its journal is gone.
CommitEnd(p) ==
  /\ h[p].pc = "synced"
  /\ before' = Content
  /\ DeleteJournal
  /\ h' = [h EXCEPT ![p] = Unwrite(h[p])]
  /\ UNCHANGED <<fileVars, clock, spoiled, faults, fullSync>>

\* pager_reload_cache
Reloaded(p) ==
  [i \in DOMAIN h[p].cache |->
     IF ~h[p].cache[i].dirty THEN h[p].cache[i]
     ELSE Clean(IF i <= h[p].orig /\ i <= file.size THEN file.page[i] ELSE Blank)]

\* Mutant of RollbackReserved: also where the file was changed already.
RollbackByReload(p) ==
  /\ InUse(p) \/ (h[p].pc = "wait" /\ h[p].job = "spill" /\ h[p].lock = PENDING)
  /\ h[p].state >= RESERVED
  /\ DeleteJournal
  /\ h' = [h EXCEPT ![p] = [Unwrite([h[p] EXCEPT !.cache = Reloaded(p)]) EXCEPT !.job = "rollback"]]
  /\ UNCHANGED <<fileVars, histVars, faults, fullSync>>

RollbackReserved(p) ==
  /\ InUse(p) \/ (h[p].pc = "wait" /\ h[p].job = "spill" /\ h[p].lock = PENDING)
  /\ h[p].state = RESERVED
  /\ DeleteJournal
  /\ h' = [h EXCEPT ![p] = [Unwrite([h[p] EXCEPT !.cache = Reloaded(p)]) EXCEPT !.job = "rollback"]]
  /\ UNCHANGED <<fileVars, histVars, faults, fullSync>>

RollbackExclusive(p) ==
  /\ InUse(p) \/ h[p].pc = "synced"
  /\ h[p].state >= EXCLUSIVE
  /\ h' = [h EXCEPT ![p].pc = "trunc", ![p].job = "rollback"]
  /\ UNCHANGED <<fileVars, jrnlVars, histVars, faults, fullSync>>

-------------------------------------------------------------------------------
(* Faults.                                                                    *)

\* A process dies; the operating system keeps what it wrote and drops its locks.
\* Only the death of a process with a transaction counts towards the bound: readers
\* leave nothing behind, and a recovery may be cut short any number of times.
Crash(p) ==
  /\ h[p] # Unopened
  /\ LET counts == h[p].state > SHARED /\ h[p].job # "read"
     IN  /\ counts => clock + faults <= MaxTx
         /\ faults' = IF counts THEN faults + 1 ELSE faults
  /\ h' = [h EXCEPT ![p] = Unopened]
  /\ UNCHANGED <<fileVars, jrnlVars, histVars, fullSync>>

\* Journal j when its headers count n records, and those in bad are torn.
Left(j, n, bad) ==
  [size |-> j.size, count |-> n, may |-> {n}, synced |-> Len(j.recs),
   recs |-> [k \in DOMAIN j.recs |->
               IF k \in bad THEN [pg |-> j.recs[k].pg, val |-> Junk] ELSE j.recs[k]]]

\* What may be on the disk of a journal.
OnDisk(j) == {Left(j, n, bad) : n \in j.may, bad \in SUBSET (j.synced + 1..Len(j.recs))}

\* The journals the directory may show.
Shown ==
  (UNION {OnDisk(ghosts[k]) : k \in DOMAIN ghosts}) \union OnDisk(jrnl)
  \union (IF linked THEN {} ELSE {NoJournal})

FilesOnDisk ==
  {Sized(pages, n) : pages \in {c \in [Page -> Val] : \A i \in Page : c[i] \in disk.page[i]},
                     n \in disk.size}

\* Without the risk "lazy", when the oldest removal has reached the disk, so has
\* all that was written before it.
InOrder(j, f) ==
  ("lazy" \notin Risks /\ ghosts # <<>>) => (j \in OnDisk(ghosts[1]) \/ f = file)

PowerFailure ==
  /\ clock + faults <= MaxTx
  /\ faults' = faults + 1
  /\ \E j \in Shown, f \in FilesOnDisk :
       /\ InOrder(j, f)
       /\ file' = f /\ disk' = Durable(f)
       /\ jrnl' = j
       /\ linked' = (j # NoJournal)
       /\ before' = Restored(j, f)
  /\ ghosts' = <<>>
  /\ h' = [p \in Proc |-> Unopened]
  /\ UNCHANGED <<clock, spoiled, fullSync>>

-------------------------------------------------------------------------------
Step(p) ==
  \/ LockShared(p) \/ JournalExists(p) \/ CheckReservedLock(p) \/ DeleteStale(p)
  \/ ReadFirst(p) \/ LockHot(p) \/ OpenHot(p)
  \/ PlaybackTruncate(p) \/ PlaybackOnePage(p) \/ PlaybackEnd(p) \/ UnlockToShared(p)
  \/ Release(p)
  \/ \E i \in Page : Get(p, i) \/ Spill(p, i) \/ SpillSyncs(p, i) \/ Write(p, i)
  \/ BeginReserved(p) \/ CreateJournal(p) \/ CannotCreate(p)
  \/ SyncRecords(p) \/ WriteCount(p) \/ SyncHeader(p) \/ NewSegment(p) \/ SyncNotNeeded(p)
  \/ WaitExclusive(p) \/ Busy(p) \/ WritePage(p) \/ Recycle(p)
  \/ CommitNothing(p) \/ CommitBegin(p) \/ SyncFile(p) \/ CommitEnd(p)
  \/ RollbackReserved(p) \/ RollbackExclusive(p)
  \/ Crash(p)

Next == (\E p \in Proc : Step(p)) \/ PowerFailure

Spec == Init /\ [][Next]_vars

-------------------------------------------------------------------------------
(* Properties.                                                                *)

File == [size : 0..MaxPage, page : [Page -> Val]]

Record == [pg : Page, val : Val \union {Junk}]

Journal ==
  [size : 0..MaxPage, recs : Seq(Record),
   count : Nat \union {Junk}, may : SUBSET (Nat \union {Junk}), synced : Nat]

\* Types: pages, journals and Pagers are what they are declared to be.
TypeOK ==
  /\ file \in File
  /\ disk \in [size : SUBSET (0..MaxPage), page : [Page -> SUBSET Val]]
  /\ jrnl \in Journal /\ linked \in BOOLEAN /\ ghosts \in Seq(Journal)
  /\ \A p \in Proc :
       /\ h[p].state \in 0..5 /\ h[p].lock \in 0..4 /\ h[p].resv \in BOOLEAN
       /\ DOMAIN h[p].cache \subseteq Page
       /\ \A i \in DOMAIN h[p].cache :
            h[p].cache[i] \in [val : Val, dirty : BOOLEAN, needSync : BOOLEAN, inJournal : BOOLEAN]
       /\ h[p].dbSize \in -1..MaxPage /\ h[p].orig \in 0..MaxPage
       /\ h[p].inJournal \subseteq Page /\ h[p].nRec \in Nat /\ h[p].misled \in BOOLEAN
  /\ clock \in 1..(MaxTx + 1) /\ spoiled \in BOOLEAN

\* The pages a transaction has changed.
Changed(p) == h[p].inJournal \union {i \in Page : h[p].orig < i /\ i <= PageCount(p)}

\* What a process would commit now.
Prepared(p) ==
  [size |-> PageCount(p),
   page |-> [i \in Page |-> IF i \in Changed(p) THEN h[p].tx ELSE Content.page[i]]]

Preparing(p) == h[p].tx # 0 /\ h[p].job # "rollback" /\ h[p].pc # "unlock"

\* What process p sees, as far as it has looked, is content c.
Sees(p, c) ==
  /\ h[p].dbSize >= 0 => h[p].dbSize = c.size
  /\ \A i \in DOMAIN h[p].cache : i <= c.size => h[p].cache[i].val = c.page[i]

\* Isolation ("the pager also implements file locking to prevent ... one process
\* from reading the database while another is writing", pager.c): the size a process
\* works with, and whatever is in its cache, are what is committed, or what its own
\* transaction put there, also after pages were spilled and read again.  A process
\* that is misled may see the size of a transaction that was rolled back or zeros
\* for the pages past its count, but for other pages no other value; and it
\* misleads nobody else, unless it begins a transaction.
ReadsCommitted ==
  ~spoiled => \A p \in Proc : InUse(p) =>
    IF h[p].misled
    THEN \A i \in DOMAIN h[p].cache : i <= h[p].dbSize => h[p].cache[i].val = Content.page[i]
    ELSE Sees(p, IF Preparing(p) THEN Prepared(p) ELSE Content)

\* "Number of pages in the file" (dbSize, pager.c:255): a process that reads knows how
\* many pages there are.  It does not hold after a recovery that was given up.
SizeIsFiles ==
  \A p \in Proc : InUse(p) /\ h[p].state = SHARED /\ h[p].dbSize >= 0 => h[p].dbSize = file.size

\* What a power failure may leave, now and at any moment, is the committed content
\* once the journal is played back, or that before the last commit: never a mixture.
Recoverable ==
  \A j \in Shown, f \in FilesOnDisk :
    InOrder(j, f) => Restored(j, f) \in {Content, before}

PowerSafe == ~spoiled => Recoverable

\* "It implements atomic commit and rollback" (pager.c:15): what is committed changes
\* only when a transaction ends, or when a power failure takes it back.
ContentStays ==
  [][Content' # Content => \/ \E p \in Proc : h[p].pc = "synced"
                           \/ Content' = before]_vars

NoContent == [size |-> Junk, page |-> [i \in Page |-> Blank]]

\* The processes that read the file, and what each of them would commit.
attached == {p \in Proc : h[p].lock >= SHARED}
next == [p \in Proc |-> IF Preparing(p) THEN Prepared(p) ELSE NoContent]

Atomic == INSTANCE AtomicFile WITH NoTxn <- NoContent, content <- Content

\* The pager implements the promise: commits are atomic, whoever crashes and when, as
\* long as no transaction was begun with a size that is not the file's.
ImplementsAtomicFile == Atomic!Init /\ [][spoiled' \/ Atomic!Next]_(Atomic!vars)

===============================================================================
