# A verification development for Radar

Radar is a Mac OS X program (Objective-C, Cocoa, 2007). It keeps a list of
*personae*, lets a *source* give each of them a score (how much mail they sent,
or whatever an external program prints), sorts them by score and draws them.
For the scores by mail it reads another program's SQLite database through a copy of
SQLite 3.2.6 that is compiled into it. This directory holds TLA+ models of it, the TLC runs that check them on small
instances, and proofs, checked by TLAPS, of what matters most for instances of
any size. Paths below are relative to `src/trunk/xcode/`.

## 1. The system

Everything runs on the main thread, from the run loop: user actions, a timer and
notifications are handled one at a time and a handler is never interrupted. What
runs beside it are the processes External Source launches; what interleaves are
*handlers*, over state that earlier handlers left behind. An exception raised in
a handler is caught by the run loop: the handler ends where it was raised, and
what it had assigned stays assigned.

| Component | State | Operations | Talks to | Correct when |
|---|---|---|---|---|
| **Source** (`Model/Source.h`) | - | `scoreUsersInArray:inform:bySending:`, preference pane | called by UserFactory and Preferences | each call scores every persona of the array and informs the caller when done |
| **External Source** (`SourceImplementations/ExternalSource`) | `theUsersRetained` and `theTasks` (parallel arrays), `objectToInform`, program path and parameters | launch a process per persona; `taskEnded:`; settings | NSTask, the notification centre, its caller | outputs reach their own persona, the caller is informed once, after the last one |
| **Mail Source** (`SourceImplementations/MailSource`) | mailboxes and which are selected, weight, earliest date | query Mail's database, all within the call; settings | QuickLite, its caller | every persona gets a score from the selected mailboxes, the caller is always informed |
| **UserFactory** (`Controller/UserFactory`) | `theUsers` in drawing order, two tables, the panel and `theUserToEdit`, the timer | refresh, add, edit, remove, import, sort, score, load, save | Preferences, the active source, AvatarView, the address book | tables, panel and list agree; no persona is lost or doubled; the order is that of the scores |
| **User** (`Model/User`) | name, info, image, source, score, position | accessors, `compareWith:`, `dictionary`, `initWithDictionary:` | - | the dictionary restores the persona |
| **Personae on disk** (UserFactory, User) | the property list | load at launch, save at exit | the file system | what was saved comes back, nothing else does |
| **Preferences** (`Controller/Preferences`) | active source, interval, image settings, address-book selection | load, apply, save, reset, select a source | UserFactory, the sources | what is shown, used and saved agree |
| **Sources** (`Controller/Sources`) | - | the table of source classes | - | - |
| **AvatarView** (`View/AvatarView`) | position of each persona | draw, reshuffle | UserFactory, Preferences | a position is chosen once and kept |
| MainDrawer, Windows, Debug, `main.m` | - | windows, logging, start | AppKit | - |
| SVN Source | - | a stub that is not registered | - | - |
| QuickLite API | - | the calls of SQLite as objects | Mail Source, SQLite | - |
| **SQLite pager** (`v3/pager.c`) | page cache, size, journal of each handle; the two files | get, begin, write, sync, commit, rollback, playback | the locks, the file system, B-trees above | transactions are atomic, also when processes die or power fails; readers see committed pages |
| **SQLite locks** (`v3/os_unix.c`) | level of each handle; per process and file `lockInfo`, `openCnt`; POSIX locks | open, lock, unlock, check, close | `fcntl` | the levels of `os.h` hold among handles, though POSIX locks belong to processes |
| **SQLite multi-file commit** (`v3/vdbeaux.c`, `pager.c`) | the master journal, its name in the journals | `vdbeCommit`, `pager_delmaster`, playback | pagers, file system | all databases have a transaction, or none |
| **SQLite B-trees** (`v3/btree.c`) | pages of the tables and indexes, the free list, cursors | insert, delete, clear, search, first, last, next, previous, balance | the pager; virtual machine above | every row is found, once, in order; pages are neither lost nor used twice; trees stay balanced |
| rest of SQLite (virtual machine, parser, code generator) | - | - | - | - |

`v3/` stands for `SourceImplementations/MailSource/QuickLite v1.5.6/SQLite/v3/`.

How they interact: UserFactory asks Preferences for the active source and calls
its scoring method with itself and `reorderUsers` as the answer. Mail Source
answers inside the call; External Source answers from the notification of the
last process. A timer repeats the call every `refreshTime`; Apply in the
preferences, a menu item and the start of the program call `refreshUsers:`, which
first replaces the personae of the address book.

The database of Mail Source belongs to the mail program, which writes it while Radar
reads: that the two do not disturb each other, also when one of them dies, is the
work of SQLite's pager and locks, in both processes; what it reads is a B-tree that the
mail program's inserts and deletes have split and merged.

What is hard: calls that overtake each other, late notifications of processes
nobody waits for any more, a launch that raises half-way through the array, sorts
by timer while a row is selected or a persona is being edited, personae removed
before the tables are told, and saving only at an orderly exit; in SQLite, processes
that interleave between any two system calls, caches that outlive what they were read
from, locks that vanish with an unrelated close, and crashes and power failures that leave
half of what was written; and trees whose pages are split, merged and reused beneath the cursors that
stand on them.
`PROJECT.json` lists each hazard at its line, with the properties that cover it.

## 2. Plan

Done: the promise of a source and its one concurrent implementation (`Scoring`,
`ExternalSource`, with proofs); the list of personae against either source (`UserFactory`,
with proofs); personae across restarts (`UserStore`, with proofs); `Preferences` and
`MailSource`, with proofs; and of SQLite what the mail database depends on: `Pager` with the abstract `AtomicFile` and proofs, `UnixLock`
with the abstract `FileLock` and proofs, `MasterJournal` with proofs, and `BTree` with the abstract
`Table`, with proofs about its distribution of cells and its free list.

Next, the most important first:

1. `ExternalSource` settings: `%name%` substitution as a terminating loop, the
   pipe between a process and a reader that reads only after its end.
2. `AvatarView`: positions and their random choice, `shufflePersonaPositions`.
3. `Radar`: Preferences, UserFactory and sources composed: switching sources with
   processes under way (the notification that reaches a freed source), the interval of the timer.
4. `Pager` over `UnixLock` instead of its own locks, one statement journal, auto-vacuum
   (in `Pager` and `BTree`).

## 3. What is modelled

### Scoring: the promise

`waiting` (personae still to be scored), `owed` (the caller is not informed yet),
`round` (the call being answered), `score`. A score is abstracted to the persona
and call it was calculated for, which is all the promise of `Model/Source.h:42-50`
tells apart. `Request` replaces whatever was going on, `Settle` scores one persona
and may inform, `Inform` informs once nobody waits.

### ExternalSource

| Code | Model |
|---|---|
| `theUsersRetained`, `theTasks` (nil, or entries NSTask / NSNull) | the same; `Nil`, a sequence of tasks and `Null` |
| processes of the operating system, whether listed or forgotten | `running` |
| `objectToInform` and whether it was sent its message | `answer` (a history; "none" is nil) |
| the value a process prints | the task itself: persona and call |
| `scoreUsersInArray:` | `ScoreUsers`; with `[task launch]` raising at process k+1, `ScoreUsersRaises` |
| `taskEnded:` with its early return, its exception and its normal end | `TaskEnded` = `EndIgnored`, `EndRaises`, `EndScored` |
| `informIfAllTasksEnded`, `terminateAllTasks` | `InformIfAllTasksEnded` |

Two points of Objective-C matter and are modelled: a message to nil returns 0, so
that with `theTasks` nil the end of any process is "found" at the first index; and
`terminateAllTasks` releases the array but terminates no process.
`Calls` are identities of rounds. One may be reused once none of its processes
runs or is listed (`Unused`), as a process object's address may; so a small set of
calls covers runs of any number of calls in which at most that many rounds overlap.
A call may come at any time, and any launch may raise. `ImplementsScoring` holds for
all steps but those an exception is to blame for: `raised` is true from a call that was cut short to
the next complete one.

### UserFactory

| Code | Model |
|---|---|
| `theUsers`, `theScore` | `theUsers`, `score`; `theSource`'s class is the `source` field |
| rows the tables believe in | `userRows`, `displayRows`, set by `HasChanged` only |
| the row selected in `theUserTable` (the nib allows one) | `selectedRow` |
| the panel, visible or not, and its title | `panel`; `theUserToEdit` |
| what External Source has under way | `theTasks` (what became of each listed process), `theUsersRetained`, `owed` (`theTasks` is not nil), `asked` (`objectToInform` is not), `stray` (processes run that are not listed) |
| `theCalculateUserTimer` | `timer` |
| `calculateUserScores` | with Mail Source `MailSourceScores`: scores and sorts at once; with External Source (`async`) `ExternalSourceStarts`, or `ExternalSourceRaises` when a launch does |
| `taskEnded:` | `ScoreArrives`; `ScoreLost` where it raises; `StrayEnds` for a process of a call that was overtaken or cut short |
| `awakeFromNib`, `refreshUsers:`, the timer, import, add, edit, save, remove, cancel, selection | one action each |

The loops of `permanentUsers` and `usersFromAddressBook`, and `removeObjectsInArray:`, keep some
elements of an array in their order: `Those`, by way of the places of those elements
(`Ascending`).

`sortUsingSelector:` is not stable, so `Sorted` allows any order among equals.
A call that raises ends the handler. `refreshUsers:` has then removed the personae of the address
book and imported the new ones, but neither the last `hasChanged` nor the start of the timer
follows, and no answer is owed that would make up for it; the personae retained are the new
ones, the list of processes is the old one. `TablesSettled` therefore exempts the time after
such a call (`raised`); `Redrawn`, which does not, is false.
`raised`, `imported`, `picked`, `shown` and `effect` are histories the properties use:
how the latest call of the source ended, the last selection imported, the persona the user saw when selecting the row, the
persona whose values the panel shows, and what the last handler removed or wrote.

### UserStore

A persona is its identity, a text, and whether it has an image and a string as its
source. `Dictionary` is what `dictionary` writes: the argument list of
`dictionaryWithObjectsAndKeys:` ends at the first nil, the image comes before the
source, so a persona without an image is written without its source.
`Terminate(FALSE)` is a save that fails (logged only), `Crash` an end without a save;
`saved` remembers the last save.

### Preferences

| Code | Model |
|---|---|
| the controls of the window, the selection of the picker | `field` |
| the instance variables | `use`; the class of `theActiveSource` is `active` |
| the property list and `default.png` | `file`; `NoFile` stands for their absence |
| `loadPreferences`, `savePreferences` | `Load`, `Save` |
| `resetPreferencePane:` | `Reset` |
| `init` and `awakeFromNib`, `applyPreferences:`, `windowWillClose:`, `selectClassFrom:`, `switchABUsage:`, `tabView:willSelectTabViewItem:`, the image panel | one action each |

The conversions are the point: `%.2f` on the way to disk, a float compared with the
double 0.01 on the way back, `setIntValue:` on the way to the control, arrays that are
NULL, empty or lose deleted records. `selectFirstTabViewItem:` may or may not make the
tab view call its delegate (it does when another tab was shown), so the picker may or
may not be reset. `saved` remembers the settings of the last save that succeeded.
`ClosedShowsUse` is about four settings: the interval, the size, the image and whether the
address book is used. The button for `makeImagesBigger` is set by nothing and the picker only
by chance, so a closed window may show of these what was cancelled: `PanelIsReset`, which is about
all six, is false.
A consequence the model makes visible: an interval below one second is shown
as 0 once the window was closed, and the next OK puts 0 in use until the next launch.

### MailSource

| Code | Model |
|---|---|
| the table (`theMailboxes`, with a check box each) | `mailboxes` |
| `theSelectedMailboxes` | `selected`: choices, also for mailboxes that are not in the table |
| `theScore` (weight of an e-mail), `theEarliestDate` | `use`; the slider and the date picker `shown` |
| the preferences on disk | `file` |
| the mail program's database | `there` (its mailboxes), `mails` (sender, mailbox, date) |
| `scoreUsersInArray:...` | `ScoreUsers`: `ScoreOf` adds up, per e-mail, weight times age within the period, cut off at 1, as fractions; personae whose query fails are `skipped` |
| `initPreferencePane`, `reloadTheMailboxes` | `Listed`: what the query finds, or nothing; `ReloadTheMailboxes`: that, or the table as it was if the database does not open |
| OK, Cancel, launch (or selecting the source again) | `Ok`, `Cancel`, `Launch` and `Relaunch` |

`touched`, `chosen` and `written` are histories: the mailboxes edited since the table
was filled, the choices OK last made, and those of them that reached the disk.

A launch reloads the table three times, and each reload opens the database for itself, with an
outcome of its own. The first is run by the nib (`awakeFromNib`, within `loadNibNamed:` at
`MailSource.m:46`), before any choice was loaded, so it would select every mailbox; but two lines
later `init` sets `mailboxes = nil` (48), and its table is forgotten. What the second
(`loadPreferences`, 314) and the third (`initPreferencePane`, 247) find is kept: `Launch` has
both, one after the other. That `ChoicesSurvive` needs the line 48 is what the mutant
`LaunchKeepsFirst` shows: without it a launch whose first reload alone succeeds
selects everything, and the next OK saves that.

What the model makes visible, and no run lists as a finding: an edit of a check box counts
in the next round before OK is clicked, and when Cancel finds that the database
does not open it leaves the cancelled choice in the table, for the next OK to save; a launch
without a database leaves no mailboxes, and so scores of 0, until the window has been closed once; a
query that fails (busy for three seconds, a table missing, a quote in a name) leaves a persona the
score it had, though `Model/Source.h:43` promises it one; with an earliest date of today
or later scores are negative or not numbers.

### AtomicFile and Pager

`AtomicFile` is what the first lines of `pager.c` promise: a file has one content;
processes attach to it and detach; one of them prepares the next content, which replaces the
old one while nobody else is attached; a power failure may undo the last commit as a whole.

| Code | Model |
|---|---|
| the database file | `file`: its size and pages; `disk`: the sizes and, per page, the contents a power failure may leave |
| the journal | `jrnl`: size before the transaction, records, how many of them the headers count (`count`); `may` and `synced`: what of it is on the disk; `linked`: its directory entry is |
| a journal removed, the removal not on the disk yet | `ghosts` |
| a `Pager` | `h[p]`: `state`, `lock` on the file, `resv`, `cache` (`dirty`, `needSync`, `inJournal` per page), `dbSize`, `orig` (`origDbSize`), `inJournal` (`aInJournal`), `nRec`, `hdr` (the records before `journalHdr`), `needSync`, `started` (`journalStarted`), `dirtyCache` |
| where a call is between two system calls | `pc`, `job`, `want`, `victim`, `played` (the records restored so far) |
| `sqlite3pager_get` of page 1 | `LockShared`, `JournalExists`, `CheckReservedLock`, `DeleteStale`, `LockHot`, `OpenHot`, playback, `ReadFirst` |
| `sqlite3pager_get` of another page | `Get`; with a full cache `Spill`, `SpillSyncs`, ..., `Recycle` |
| `pager_playback`, `pager_unwritelock` | `PlaybackTruncate`, `PlaybackOnePage`, `PlaybackEnd`, `UnlockToShared` |
| `sqlite3pager_begin`, `_write` | `BeginReserved`, `CreateJournal`, `CannotCreate`; `Write` |
| `syncJournal` | `SyncRecords`, `WriteCount`, `SyncHeader`, `NewSegment` |
| `sqlite3pager_sync`, `_commit`, `_rollback` | `CommitBegin`, `WaitExclusive`, `WritePage`, `SyncFile`, `CommitEnd`, `CommitNothing`; `RollbackReserved`, `RollbackExclusive` |

A page is the number of the transaction that wrote it; a page past the end of the file reads as
zeros (`Blank`). A journal has a header per segment. Of the headers together the model keeps how many of the
records they count: playback goes on to the next header when it has restored what one counts, and a
header that counts nothing yet stops it, as one does that is not whole. `Content` is what the file holds
once the journal, if any, is played back: it changes when the journal is removed, which
is what commits. `Shown` and `FilesOnDisk` are what a power failure may leave: `PowerSafe`
looks at all of it in every state, not only where a failure is taken.
The locks of `Pager` are those `FileLock` promises, with one handle per process.

A handle outlives a recovery that it gave up. `hasHotJournal` counts the pages (2272) and
`sqlite3pager_pagecount` keeps the number in `dbSize`; when the exclusive lock is not to be had, or the journal
has gone, `sqlite3pager_get` returns without forgetting it (2351-2354, 2366-2371): `pager_reset` runs only when the last
page is released (863), and there was none. `sqlite3BtreeBeginTrans` then tries again with the same pager under the
busy handler (`btree.c:1632-1651`), which QuickLite sets to three seconds, and its step loop repeats on `SQLITE_BUSY`,
too. So this is how a reader normally meets a recovery, and `GiveUpHot` keeps `dbSize`. The history
`misled` marks a process that read page 1 with a number that is not the file's size, `spoiled` that a misled one has begun
a transaction. What comes of it:

- a misled reader takes pages of a transaction that was rolled back to be there, or does not see the ones another
  process has appended: `SizeIsFiles` is false. The pages it reads within the committed size are still
  the committed ones, and it misleads nobody else: that is what `ReadsCommitted` says of it;
- a misled process that writes puts the wrong size into its journal, and the rollback cuts off what others have
  committed, without any crash (`pager_stale_tx`: `ContentStays` is violated). From then on nothing is promised:
  `ReadsCommitted`, `PowerSafe` and `ImplementsAtomicFile` all hold until `spoiled`. Radar only reads; the
  mail program writes.

The constant `Risks` names three assumptions about callers and the file system, and what TLC finds when
one is given up:

- `"nested"` breaks `ReadsCommitted`. `pager_playback` reads records in a
  loop that only its `goto` leaves, past `pager_reload_cache` behind it (1361): after a
  rollback a cache page somebody still uses need not be what the file holds, although "All in-memory
  cache pages revert to their original data contents" (3123). And when the journal cannot be created
  the lock is given up beneath pages in use (2688-2692). Mail Source has one statement at a time and never writes; what the
  mail program does with its cursors is not known.
- `"together"` breaks `PowerSafe`: for an empty file the journal is taken for an old one
  and deleted (2272-2274), also when another process has just made it. It takes two processes that open a database before
  anything was written to it.
- `"lazy"` breaks `PowerSafe`: `pager_playback` writes the old pages back and deletes the
  journal without a sync between them (1356-1366); a file system that brings
  the removal to the disk first keeps half of what was rolled back. No caller can avoid it: whether it happens is up to the
  file system, and the theorems hold for one that keeps the order.

### FileLock and UnixLock

`FileLock` is the table of levels in `os.h`, for handles of several processes.

| Code | Model |
|---|---|
| an `OsFile`: open, `locktype` | `isOpen`, `locktype` |
| `lockInfo.cnt`, `lockInfo.locktype`, `openCnt.nLock`, `openCnt.nPending` | `info`, one per process and file |
| POSIX locks on the pending byte, the reserved byte, the shared range | `os`, per process |
| a call between two `fcntl` | `call` |
| `sqlite3OsOpenReadWrite`, `findLockInfo` | `Open`, `OpenFails` |
| `sqlite3OsLock` | `LockSharedToo`; `LockShared`, `ReadLock`, `DropPending`; `LockReserved`; `LockExclusive` or `Retry`, `ExclusiveOrPending` |
| `sqlite3OsUnlock`, `sqlite3OsClose` | `UnlockToShared`, `Lowered`; `Unlock`, `Unlock2`; `Close` |

That closing *any* descriptor of a file drops all locks of the process is modelled in
`Close` and `OpenFails`, and is what the deferred closes are for. The comment at `os_unix.c:1024` says
that PENDING lets in no new SHARED lock; within a process that reads already it does
(`LockSharedToo`), as `os.h` allows ("by other processes").

### MasterJournal

`file`, `jrnl`, `mj` are the databases, their journals and the master journals, each with what
a power failure may leave (`disk`, `removed`, `unlinked`); `holder` is the process that writes
or recovers a database. `vdbeCommit` is `CreateMaster`, `SyncMaster`, then
per database `NameJournal`, `SyncJournal`, `WritePages`, `SyncFile`; then `RemoveMaster`
(this commits), `SyncDirectory` and a `CommitFile` each. Recovery is `Recover`,
`Playback` (nothing, if the master named is gone), `DropJournal`, then `pager_delmaster`:
`OpenMaster`, `KidExists`, `ReadKid`, `RemoveOrphan`, which holds no locks on the other
databases. Names of masters are drawn unused (they hold 32 random bits), no I/O error
happens, and playback of one file is one step, `Pager` being about that. `Torn` is what a
power failure may leave of a journal that was not synced: its records cut short, the name of
the master missing. The `tx` of a journal, the transaction it was made for, is a history that only
the invariant of the proofs reads. `None` is not the name of anything.
With the risk `"lazy"`
`AllOrNone` is violated for the same reason as `PowerSafe` above.

### Table and BTree

`Table` is what callers of `btree.c` rely on: one row under a key, and a call puts, removes or
clears, once, at some step of it.

| Code | Model |
|---|---|
| the pages of one tree, decoded: cells with key, payload, child and overflow chain | `pages`; a payload is `[size, chain]`: its bytes on the page and its overflow pages |
| `Usable`, headers, cell pointers, the 100 bytes before the tree of page 1, `maxEmbedFrac` | constants and `BTreeAssumption`; `Capacity`, `NFree`, `Overfull` (`nOverflow > 0`) |
| the free list with its trunks; `allocatePage`, `freePage`, `clearCell` | `free`, `nPage`; in `FreeList`: `Allocate`, `AllocateMany`, `FreePage`, `FreeAll`; `ClearCell` |
| a `BtCursor` | `cursor`: `wr`, page, index, `isValid` |
| `moveToRoot`, `sqlite3BtreeMoveto`, `First`, `Last`, `Next`, `Previous` | `MoveToRoot`, `Seek`, `FirstOf`, `LastOf`, `NextOf`, `PreviousOf`, and the actions of those cursors |
| `checkReadLocks` | `CheckReadLocks`, `Reset` |
| `sqlite3BtreeInsert`, `_Delete`, `_ClearTable` | `Insert`; `DeleteFromLeaf`, `DeleteFromInterior` with `DropFromLeaf`; `ClearTable`; the end of a call is `Finish` |
| `balance`, `balance_quick`, `balance_nonroot`, `balance_deeper`, `balance_shallower` | `Due`, `Quick`; `BalanceQuick`, `BalanceNonroot`, `BalanceDeeper`, `BalanceShallower`, `BalanceNothing` |
| the arithmetic of `balance_nonroot` | `Siblings`, `Gather`; in `Distribution`: `Packed`, `Evened`; in `FreeList`: `SiblingPages`; `Distribute` |

`FreeList` and `Distribution` are modules of their own, which `BTree` extends: they are written with
recursive functions, which the prover reads, and `BTree` with recursive operators.

The code is sequential: no other call comes between two steps of one. The steps are there because what a
step leaves behind (an overfull page, a root without cells, a position remembered for later)
is what the next one has to cope with. A tree is a table (`leafData`: rows on the leaves only) or
an index (rows on all pages), with its root on page 1 or 2. The pages' parents, which the code caches
in memory, are looked up (`ParentOf`).

`checkReadLocks` does less than its comment says (`btree.c:4514-4519`): a cursor for writing that stands on the
root page is not moved, and may point past its last cell afterwards. `sqlite3BtreeDelete` refuses such
an index, but when another row has come to stand there it deletes that one: a caller has to seek again, and
the model lets it delete without. `ReadersStay` is about cursors for reading, whose table the other calls may
not change.

## 4. Runs

| Run | Instance | Shows |
|---|---|---|
| `ext_any` | 2 personae, 3 calls, raising launches, the empty array, fair ends | alignment of the arrays, outputs reach their own persona, complete answers given once, a call is answered unless replaced or cut short, refinement of `Scoring` but after an exception |
| `uf` | 2 identities, address book of 2; synchronous source: at most 2 created personae, one person nameless; asynchronous: at most 1, one person selected twice (two groups), launches that raise anywhere; 2 scores | tables and list agree (unless a launch raised), order by score, imports neither lost nor doubled, the panel writes to whom it shows, permanent personae stay, also while results trickle in, are lost, or reach the first persona |
| `store` | 3 identities, 2 texts, symmetric | restarts, crashes and failed saves |
| `prefs` | 3 edits, intervals of 0.012 s and 1.5 s, a size of 0, 2 sources, 2 persons, 1 group | a closed window shows what is in use (four settings); a launch restores the last save that succeeded |
| `mail` | 2 mailboxes, 2 personae, 2 weights, 3 days, 3 edits or changes of the database | the choice of a mailbox survives, whichever of the reloads of a launch open the database; scores never rank more mail lower |
| `pager` | 2 processes, both may write, files of 0 or 2 pages and at most 3, cache of 2, both synchronous modes, 2 transactions or faults | isolation (sizes and cached pages), every power failure, refinement of `AtomicFile`; no deadlock |
| `locks` | 2 processes, 2 handles each, 1 deferred close | counts and POSIX locks agree, writers are seen, refinement of `FileLock`, writers are not starved |
| `master` | 2 databases, 2 processes, 2 names, 3 transactions or faults | atomicity over both databases, durability; no deadlock |
| `btree` | a table on page 1 and one and an index on page 2, pages of 116 bytes; 18 rows of a table or 30 of an index inserted and deleted in three orders with large, little or mixed rows, one call out of order anywhere; any calls of two cursors on trees of up to 5 rows | refinement of `Table`, balance, search and scans, page accounting, room for siblings, readers stay, calls end |

Runs that end in a violation show where the program differs from what its comments say:

| Run | What the trace shows |
|---|---|
| `uf_wrong_row` | sorting between selection and click removes another persona (`UserFactory.h:136`) |
| `pager_stale_tx` | a process gives up a recovery and remembers the number of pages it counted; its next transaction puts that number into the journal, and the rollback cuts off a page another process has committed; nobody crashes (`pager.c:14`) |
| `master_retry` | a commit over two databases is BUSY at the first one, whose journal is synced and names the master m1, but whose pages are not written yet. The next try makes a master m2; `sqlite3pager_sync` passes over the first journal, which goes on naming m1, and the second one names m2. Removing m2 commits the second database only: m1 still exists, so after a crash the first one's journal is played back (`vdbeaux.c:961`) |

More differences have no run. Of four the modules state the promise, so that TLC shows the trace at once
when it is asked for it in the instance named:

- `Redrawn` (`uf`): a refresh removes the imported personae, the launch raises, and nobody tells the display
  table that it has fewer rows; "Afterwards the users are redrawn" (`UserFactory.h:54-55`);
- `PermanentsReloaded` (`store`): a persona without an image is no longer permanent after a restart (`User.m:100`);
  "Permanent users are saved at exit and loaded at creation" (`UserFactory.h:106`);
- `PanelIsReset` (`prefs`): the button for `makeImagesBigger` keeps what was cancelled, and the next OK applies it;
  "Set the preferences ... to the current values" (`Preferences.h:103`);
- `SizeIsFiles` (`pager`): a recovery is given up, and the next attempt works with the number of pages counted then;
  "Number of pages in the file" (`pager.c:255`).

The others follow from what is modelled: rounds
that are each overtaken by the next are never answered (`Source.h:44`); after a launch that raises half-way
the output of a process goes to the first persona of the array (`ExternalSource.m:155`); and a refresh
that empties the list leaves the tables their old rows with External Source, which never answers
for no personae (`UserFactory.h:55`).

**Bounds.** Two personae already give an array with one process ended and one
running, and different orders of ends; three overlapping calls give a round that is
forgotten, one that is listed and one that replaces it (the general case
is the subject of the theorems). In UserFactory `MaxUsers` bounds the personae the
user creates or loads, `Ids` their identities (one more than `MaxUsers` with External Source, so that a removed persona's
place in the panel or among the retained ones can differ from all listed ones); two scores give ties and inversions;
`MaxCopies` bounds the persons of a selection, and two show one that is in two selected groups. `Levels` has no
negative score: with one, a newly added persona (score 0) would not sort last until the
next round, which `Ranked` states as its condition. In UserStore texts and identities are symmetric
and no liveness is checked, so the symmetry reduction is sound. In Preferences `MaxEdits` bounds the
edits of a behaviour, restarts and OKs are not bounded; three edits switch a source, change a setting and
select records, or edit one thing before and after an OK or a restart. In MailSource `MaxEdits` bounds
edits, arriving mails and changes of the mailboxes together, `LastDay` time and the dates of mails,
which may be later than today; rounds, OKs, cancels and restarts are free.

In Pager `MaxTx` bounds transactions and faults together: two transactions, or one and a
crash or power failure at any point of it, its recovery included, and recoveries may be cut
short any number of times. Three pages and a cache of two make a transaction
spill a page in the middle, read it again, and let the file grow; page 1 is always
referenced, as `btree.c` does. What two transactions or faults leave no room for is a transaction after a recovery:
`pager_stale_tx` needs three for its trace; the properties of `pager` were checked once with three, too, for files of 1
page and at most 2, and the theorems of section 5 have no bound. Processes that only read are not bounded. In UnixLock two handles per
process are what the counts are about, and two processes what the locks
are about; nothing bounds the calls. In MasterJournal three transactions or faults let a master of a failed
transaction remain while the next one runs; the run was made once with four
(2.3 million states), too. `Quiet` is the only state in which it stops. Symmetries of processes,
databases, names, pages of mail and personae are used where no liveness is checked.

In BTree pages of 116 bytes, four to nine cells of an index or one to three rows of a table, and trunks
of two pages make every routine work with few rows: the trees reach three levels, on page 1, too, a
`balance_nonroot` spreads cells over five siblings, the free list has three trunks, pages are
split while the last part of a deletion is still to come. What makes a tree deep is a long sequence of calls,
so their order is given by a script and left to TLC only at one point of it (`Stray`); where every order matters, for
cursors that stand in each other's way, the trees are small and the calls free. `steps` counts the steps of a call.
No run disables the deadlock check.

**Fairness.** `ExternalSource!FairSpec`: each process that runs ends and its
notification is delivered (`WF` of `TaskEnded(t)`); it is what `taskEnded:` relies on
and nothing in the code enforces it: a process that never ends, or that waits
for its output to be read, is outside it (`ext_any`'s liveness is
conditional on it). Calls are never fair: nobody has to call.
`UnixLock!FairSpec`: a call that has begun returns (`WF` of `Advance`), since nothing in it
waits; a statement that holds SHARED or RESERVED ends in the end, though its process may be in
another call when it could (`SF` of its unlocking); and who holds PENDING tries again, as
`sqlite3VdbeHalt` under the busy handler does (`SF` of `Retry`). Nobody has to read or write.
`WriterGetsIn` assumes that processes that read do not open the file again and again through one handle
before they leave it through another: against that PENDING does not help.

## 5. Proofs

`ExternalSourceProofs` proves for every set of personae, calls and arrays, whether
launches raise or not, from the assumptions named in `ExternalSource`
(arrays hold each persona once; `Nil` and `Null` are neither arrays nor tasks):

- `Invariance`: the inductive invariant `IInv` = `TypeOK`, `DueWhileListed`, `Aligned`,
  `NotAllEnded`, `ListedRuns`. `Aligned` is not inductive alone: `taskEnded:` relies on a
  listed process being one that can still end (`ListedRuns`), and on a listed round
  never consisting of NSNull only (`NotAllEnded`), or its caller would be forgotten.
- `ArraysAligned`: the invariant of `ext_any`; `OutputBelongs`, `AnswersComplete`: its action properties.
- `TypeCorrect`, `ListedWhileDue` (a round is listed exactly while its caller is owed an answer) and
  `RoundFinishable` (it has a process that still runs).
- `InformedByLastOnly`: `AnsweredOnce`, from one more invariant, `RoundListed`: every process
  of the latest complete call that still runs is listed, so none is left once its caller
  was informed.
- `Implementation`: `ImplementsScoring`, that is every step which does not leave `raised` true is one of
  `Scoring`, or a stutter, under `waiting <- ` the personae whose entry is not NSNull and
  `owed <- (answer = "due")`. A call maps to `Request`, the end of a listed process to
  `Settle`, anything else to a stutter.

`UserFactoryProofs` proves, for any identities, address book, selections and scores, the invariants
of `uf` and that permanent personae stay, from `UserFactoryAssumption` (the address book is
finite, selections have at most `MaxCopies` persons); `AlwaysRanked` also
from scores that are not negative. `ListInvariance` is the inductive invariant `IInv`:

- `ListOK`, `ScoresOK`, `TablesOK`: the types, no persona twice, no row beyond what the tables believe in;
- `TablesSettled`: the user table is exact always, since a refresh touches no permanent persona; the display
  table is, unless an answer is owed or the latest call raised: `theTasks` is not nil exactly while one is owed, and the
  last result tells the tables;
- `RankedUnlessNegative`, with `SourceOK`: the order holds while no answer is owed, also after a call that raised. For a process
  that was left behind may score a persona and inform a caller that is nil, who does not sort; but
  only until the External Source was asked once with success (`asked`), and until then only the
  first persona can have got a score;
- `ImportOK`: the imported personae in the list are exactly the objects made by the latest import.
  `ImportedOnce` only counts them, and the counts alone do not say that the next refresh removes
  them all;
- `DialogOK`: an edit panel edits the permanent persona it shows, still the same after a sort or a
  refresh, since it holds the persona and not the row; `EffectOK`: the last handler wrote there;
- `Asleep`: before `awakeFromNib` there is nothing.

That an array filtered by `Those` keeps its elements, their order and their number
would be an induction over the array; `AscendingFacts` shows it by the rank of
a place among the places kept, which is a bijection.

The last section of `UserFactoryProofs` proves of `UserStore`, for every set of personae and texts and
from no assumption, `StoreOnePerId`, `StoreReloads` and `StoreNothingReturns`. The invariant adds that the
file is always exactly the dictionaries of the last save and that its personae
are pairwise different; the lemma `RoundTrip` says what a dictionary restores.

`MailSourceProofs` proves `ChoicesSurvive` for any mailboxes, personae, edits and restarts,
from `NoFile` not being a dictionary. The invariant adds what makes it true:
`Remembers` (memory holds the last choice for *every* mailbox, those that are not in the
table included, because `savePreferences` merges the table into the old dictionary) and
`Saved` (the file holds the choices that reached the disk, which a launch starts from). A launch keeps both for every
outcome of its reloads, since each of those that count is made with the choices that were loaded.
`MoreMailAlwaysRanksHigher` is about the sums of a round: a score is between 0 and 1, and nobody ranks
below a persona with fewer or older e-mails. What the sum of any number of mails preserves would be
an induction; it is shown by the least number of mails for which it fails. The
scores are fractions; what the code's floating point does to them is outside the model.

`PreferencesProofs` proves, for any intervals, sizes, images, sources and records
(`PreferencesAssumption`: intervals are no ties of `%.2f`, NULL is not an array):
`WindowShowsUse` (the four settings of `ClosedShowsUse`; of the other two it would be false), `SourceAlwaysShown`, and of a launch `LaunchRestores` and
`LaunchRestoresRecords`. The invariant adds `Written`: the file differs from the settings saved
last by the rounding of the interval only, whichever of the two writes of
`savePreferences` failed; and that a window is open only while the program runs, so that only a
launch starts it.

`UnixLockProofs` proves, for any set of processes and any finite set of handles
(`UnixLockAssumption`), the invariants of `locks` and its refinement, and that the variables keep their types. None of them is inductive
alone: that a handle keeps its locks when another one of its process unlocks or closes is
a matter of counts, and that two processes exclude each other is a matter of what both hold at the
time. `IInv` is `TypeOK`, for every process `Local`, and `Compatible`:

- `Counted`: `lockInfo.cnt` and `openCnt.nLock` are the number of handles that have a lock, so
  the shared range is given up with the last one, and a deferred close has a lock to wait for;
- `Levelled`, `OneWriter`: no handle is above the level of its process, and one at most is above
  SHARED;
- `Holds`: the POSIX locks behind those levels; `During`: what a call that is between two system
  calls has found and relies on (a temporary lock on the pending byte, for instance);
- `Compatible`: a write lock on a range excludes the locks of other processes on it.

`WriterAlwaysSeen` says that whoever asks learns of a writer, from RESERVED on until it lets go, also while it is at
PENDING or EXCLUSIVE. It is a property of steps: a recovery, which goes from SHARED to EXCLUSIVE, is never seen.

`LocksImplementLevels` maps a handle to its `locktype`, or to SHARED once `sqlite3OsUnlock` has
begun (`levels`), and the RESERVED lock to the handle it was taken for (`reservers`). `LockSharedToo`
and `DropPending`, when the lock was got, map to `Share`; `LockReserved` to `Reserve`;
`ExclusiveOrPending` to `Exclude` or `Pend`; `Unlock`, `Unlock2` and `Lowered` to `Lower` or a stutter;
`Exit` to `Crash`; the others to stutters.

`MasterJournalProofs` proves, for any databases, processes, names of masters and number of
transactions (`MasterAssumption`), the three invariants of `master`: `CommitIsAtomic`,
`CommitIsDurable` (of commits over several databases, from the directory sync on that follows the removal of the master
journal; a commit of one database has no such sync, and a power failure may take it back) and `MasterTypes`. They hold from `Risks = {}`, which is what the two risks are
there to say: with `"retry"` `AllOrNone` is false (`master_retry`), with `"lazy"` it is false for
a file system that reorders. Neither invariant is inductive; `IInv` adds, for every

- database (`Database`): what is not on the disk can be brought back by a journal (`Settled`); it is
  not written before its journal is synced (`Unsynced`); a journal has the database as it was,
  and is listed by the master it names (`Old`); a removed journal that a power
  failure may show again would do no harm (`Undoable`): it was played back, or it committed alone;
- master journal (`Master`): while the removal that commits may be undone, all databases of the transaction
  still have the journals that name it (`Committed`), though some of these may be removed themselves; one that was
  removed for another reason is named by no journal (`Orphaned`);
- process (`Process`): how far a commit has come with each of its databases (`CommitsOK`,
  `WritesOK`), that nobody else has to do with its master (`OwnsMaster`), which journals a finished
  one may still remove (`FinishesOK`), and what a recovery has seen of the databases that a master lists,
  though it locks none of them (`UndoesOK`).

`Holding` ties the processes to the databases they have locked. A step of one process
keeps the facts about the others because it touches only databases it holds and masters nobody
else owns (`MasterStep`, `FileStep`, `DeleteStep`, `OwnStep`). A power failure takes back one
transaction at most, in all databases that have it (`TakenBack`), and none that `done` lists; every
other database keeps what it contains (`KeptOrBack`).

`PagerProofs` proves, for any processes, any sizes of file and cache, either synchronous mode and any
number of transactions and faults (`PagerAssumption`), the three invariants of `pager`,
`ReadersSeeCommitted`, `PowerIsSafe` and `PagerTypes`, and its refinement, `PagerImplements`. They, too, hold from `Risks = {}`, the three assumptions of section 3. They
include handles that go on after a recovery they gave up, until a transaction is begun with a stale size;
`pager_stale_tx` shows that nothing more is true. `PagerInvariance` proves `Unspoiled`: while not `spoiled`, the
inductive invariant `IInv` and `Straight`, that no process that is misled has a transaction. `Outside` says that a handle which is not in
use has nothing but the number it may remember, and `Cached` what a reader has: the size and pages of the file, or, if it
is misled, the pages of the file up to the number it remembers and zeros past it. The parts of `IInv`:

- `Files`, about the files only: a journal brings *any* file the disk may hold to `Content`
  (`Brings`): it has the old size, each original once, and every page the disk may hold otherwise has a record
  that is restored whichever of its headers the disk holds (`Kept`). Until the journal is on the disk
  the file is not written to (`LinkOK`). A removed journal that the directory may show again brings the disk to
  the committed content, or to the one before (`GhostsOK`). `PowerSafe` follows from it,
  and is not inductive without it: it says what would be left, not which records and syncs make it so.
- `Exclusion`: nobody has a lock beside an exclusive one, one process is reserved, one only has an empty
  file open; `Levels`: where a call stands goes with the lock of its process.
- For a process that opens the file, that what it has learnt of its size is still so (`OpeningOK`); that reads it,
  that the file is the content and its pages are the file's (`ReadingOK`, `CommittedOK`).
- For one with a transaction: the journal is its own and whole (`OwnJournal`); `PageOK` says of each page
  whether it was changed, whether its new value is in the cache or in the file already, and that a page which may be
  written has its original in the synced part of the journal (`ChangesOK`); and what a call between
  two system calls has done (`CallOK`).
- For a playback, its own or a recovery: the records restored so far are in the file (`UndoingOK`), so that the removal
  of the journal changes nothing.

There is a lemma per action. A step changes the files (`FileWritten`, `JournalSynced` and their like, from lemmas about
`Brings`) or the handle of one process (`CallStep`); the others keep their facts because of their locks:
a reader's hold only when nobody writes to the file, and those of a process that waits for its
turn are about the file and not the journal. A crash leaves a journal that brings the file back; what a power failure
leaves is what `Survivors` says, and every process starts again.

`PagerImplements` maps the content of `AtomicFile` to `Content`, what is committed once the journal is played back,
the attached processes to those with a lock (`attached`), and what a process would commit to its cache and the pages it
spilled (`next`). `LockShared` maps to `Attach`, `CreateJournal` to `Begin`, `Write` and `CommitBegin` to `Update` (the
increment of the change counter is one), `CommitEnd` to `Commit`: the removal of the journal, when all of what was
prepared is in the file (`AllWritten`) and nobody else has it open (`Alone`). A commit that changed nothing, the two rollbacks and a crash
within a transaction map to `Abort`; the last release, giving up at a hot journal or one in the
way, and other crashes to `Detach`; `PowerFailure` to itself. All other steps are stutters (`Mapped`): syncs, spills, writing pages to
the file and playing back a journal change neither the content nor what is prepared.

`BTreeProofs` proves what `balance_nonroot` and every call that takes or returns pages rely on, for any cells,
sizes and lists, from `FreeListAssumption` (a trunk names a page at least) and from `Cells`: a cell has more than
the two bytes of its pointer, and two of an index, or one row of a table, fit on a page. A row of a table may take all
of its page, which is why the two cases differ.

- `EverySiblingFits`: every new sibling holds its cells and none is empty, unless there are no cells. The packing from the left is
  greedy and may leave the last page empty (of an index, when its last cell has become a divider);
  the evening out moves a cell there, and never takes the last one of a page.
- `FewestSiblings`: no other distribution has fewer pages, since the packing is page by page at least as far.
- `AtMostTwoMore`: there are at most two siblings more than before, so the arrays of `NB+2` suffice. It supposes
  what an insert or a delete leaves behind (`OneOverfull`): one page only is too full, and it would not be without
  some neighbouring cells that fit on a page.
- `EveryCellOnce`: each cell is on exactly one new sibling or is one divider.
- `AllocateTakesFree`, `AllocateManyTakesFree`: pages that are handed out were not in use, differ from each other, and
  leave the list; the file grows only when the list is empty. `FreePageLists`, `FreeAllLists`: pages
  that are given back are on the list once, and nothing else is changed. All keep the list `WellFormed`: it names
  pages of the file, each at one place, and a trunk no more than it has room for. The proofs count
  places on the list (`Places`, `PageAt`), because `allocatePage` moves the last leaf of a trunk to the place of the one it
  takes.
- `SiblingsTakePages`: the new siblings are old ones and pages that were free, in ascending order; the old ones that are
  left over are free, and no other page is touched.

The functions are defined by recursion. That they exist, and that a property which each step keeps holds of all, is
shown by the least number for which it fails (`Least`, `Upward`, `Recursion`), not by an induction theorem.

**Only model-checked:** every liveness property (fairness and ENABLED are outside TLAPS); and the
invariants of `btree` and its refinement of `Table`. The operators of `BTree` that walk a tree (`Descend`,
`NextOf`, `Below`) are recursive, which the prover does not read, and what they do in every tree would need induction
over trees. `EachPageOnce` and `SiblingsFit` rest on the theorems of `BTreeProofs`, which say of each step what the
invariants say of the sequence of them. That calls end is checked as a bound on their steps
(`CallsEnd`), which with the absence of deadlocks says more than a liveness property would. The type invariants of
`ExternalSource`, `UnixLock` and `Preferences`, and that `UserStore` lists no persona twice, are proved and not
listed in runs.

## 6. Not modelled

- *AvatarView*, the settings of External Source, and the composition of Preferences with a
  running source: plan, steps 1 to 3.
- *Windows, MainDrawer, Debug, the SVN stub, nibs, main.m, QuickLite API*: no logic of the
  program, or a thin layer over a library.
- *Rest of SQLite*: virtual machine, parser and code generator are 35000 lines of
  vendored sequential code; the program sends them a handful of SELECT statements. What
  several processes share, and the trees it is kept in, are in the modules above.
- *Within the B-trees*: where a page keeps its cells (free blocks, defragmentation, cells padded to four
  bytes), the table on page 1, the schema, being cleared, creating, dropping and
  moving tables (auto-vacuum), the statement and transaction calls that are the pager's, reading and comparing of
  payloads, several tables at a time (they share the free list only), I/O errors and corrupt files.
- *Within the pager*: statement journals, truncation and moving of pages (auto-vacuum),
  `sqlite3pager_dont_write` and `_dont_rollback`, BEGIN EXCLUSIVE, in-memory and temporary
  files, `synchronous=OFF`, I/O errors and lack of memory, the codec. *Within the locks*: threads
  (the build does not define THREADSAFE) and lack of memory when a close is put off. *Within the
  multi-file commit*: I/O errors, temporary and in-memory databases, two handles of one process.
- *Within the other modelled components*: layout, localisation, image files, the running of the
  timer with the interval set in Preferences, memory management (except where a freed or nil object
  changes control), and methods nobody calls (`removeUserWithIndex:`,
  `addNewUserWithName:withInfo:withImage:`).
