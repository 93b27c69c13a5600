------------------------------ MODULE PagerProofs ------------------------------
(***************************************************************************)
(* Theorems about Pager for any processes, files, caches and number of     *)
(* transactions, without the three risks, and until a transaction is begun *)
(* with a size that is not the file's: readers see committed pages only, a *)
(* power failure leaves the committed content or the one before it, and    *)
(* the pager implements AtomicFile.                                        *)
(***************************************************************************)
EXTENDS Pager, FiniteSetTheorems, SequenceTheorems, TLAPS

-----------------------------------------------------------------------------
(* Types.                                                                   *)

Disk == [size : SUBSET (0..MaxPage), page : [Page -> SUBSET Val]]

Entry == [val : Val, dirty : BOOLEAN, needSync : BOOLEAN, inJournal : BOOLEAN]

Cache == UNION {[S -> Entry] : S \in SUBSET Page}

Opening == {"exists", "reserved", "stale", "hot"}
Syncing == {"sync", "count", "header", "segment"}
Writing == {"wait", "write", "synced"}
Undoing == {"trunc", "play"}

Handle ==
  [pc : {"out", "first", "open", "idle", "create", "unlock"}
        \union Opening \union Syncing \union Writing \union Undoing,
   state : {NO_LOCK, SHARED, RESERVED, EXCLUSIVE, SYNCED},
   lock : {NO_LOCK, SHARED, RESERVED, PENDING, EXCLUSIVE}, resv : BOOLEAN,
   cache : Cache, dbSize : -1..MaxPage,
   orig : 0..MaxPage, inJournal : SUBSET Page, hdr : Nat, nRec : Nat, needSync : BOOLEAN,
   started : BOOLEAN, dirtyCache : BOOLEAN, job : {"none", "read", "spill", "commit", "rollback"},
   want : 0..MaxPage, victim : 0..MaxPage, played : Nat, tx : Val, misled : BOOLEAN]

Types ==
  /\ file \in File /\ disk \in Disk
  /\ jrnl \in Journal /\ linked \in BOOLEAN /\ ghosts \in Seq(Journal)
  /\ h \in [Proc -> Handle]
  /\ clock \in 1..(MaxTx + 1) /\ before \in File /\ faults \in Nat /\ fullSync \in BOOLEAN
  /\ clock + faults <= MaxTx + 1

-----------------------------------------------------------------------------
(* The files.                                                               *)

\* There are zeros past the end of a file.
Zeroed(f) == \A i \in Page : i > f.size => f.page[i] = Blank

\* File f is one of those that d stands for.
MayBe(f, d) == f.size \in d.size /\ \A i \in Page : f.page[i] \in d.page[i]

\* So there are past any end that disk d may hold.
ZeroedOn(d) == \A n \in d.size, i \in Page : i > n => Blank \in d.page[i]

\* Record k of journal j is restored whatever the disk holds of j.
Kept(j, k) == k <= j.synced /\ Restores(j, k) /\ \A n \in j.may : k <= n

\* Whatever disk d holds of the database and of journal j, they are content c when played back.
Brings(j, d, c) ==
  /\ j.size = c.size /\ j.count \in j.may
  /\ \A n \in j.may : n <= Len(j.recs)
  /\ \A n \in d.size : j.size <= n
  /\ \A k, l \in DOMAIN j.recs : j.recs[k].pg = j.recs[l].pg => k = l
  /\ \A k \in DOMAIN j.recs :
       j.recs[k].pg <= j.size /\ j.recs[k].val \in {Junk, c.page[j.recs[k].pg]}
  /\ Junk \in j.may => d = Durable(c)
  /\ \A i \in Page : i <= j.size =>
       d.page[i] = {c.page[i]} \/ \E k \in DOMAIN j.recs : Kept(j, k) /\ j.recs[k].pg = i

\* What a power failure may leave unless it takes back the oldest removal.
Rest == IF ghosts = <<>> THEN disk ELSE Durable(file)

JournalOK == jrnl # NoJournal => Brings(jrnl, Rest, Content)

\* Until the journal is on the disk the file is not written to.
LinkOK ==
  /\ linked => jrnl # NoJournal /\ ghosts = <<>>
  /\ ~linked => file = Content /\ Rest = Durable(file)

GhostsOK ==
  /\ ghosts # <<>> => Brings(ghosts[1], disk, Content) \/ Brings(ghosts[1], disk, before)
  /\ \A k \in DOMAIN ghosts : k > 1 => Brings(ghosts[k], Durable(file), Content)

Files ==
  /\ Zeroed(file) /\ Zeroed(before) /\ Zeroed(Content) /\ MayBe(file, disk) /\ ZeroedOn(disk)
  /\ JournalOK /\ LinkOK /\ GhostsOK

-----------------------------------------------------------------------------
(* The locks.                                                               *)

\* Not in use, but r may remember how many pages it once counted, never that it was none.
Outside(r) == r = [Unopened EXCEPT !.dbSize = r.dbSize] /\ r.dbSize # 0

\* Where a call stands goes with the lock of its process.
Levels(p) ==
  LET r == h[p]
  IN  /\ r.pc = "out" <=> r.lock = NO_LOCK
      /\ r.pc = "out" => Outside(r)
      /\ r.pc \in Opening \union {"first"} \/ (r.pc = "idle" /\ r.tx = 0) =>
           r.lock = SHARED /\ r.state = SHARED /\ ~r.resv
      /\ r.pc = "open" => r.lock = EXCLUSIVE /\ r.state = EXCLUSIVE /\ ~r.resv
      /\ r.pc = "create" => r.lock = RESERVED /\ r.state = RESERVED /\ r.resv
      /\ r.pc \in Undoing => r.lock = EXCLUSIVE /\ r.state >= EXCLUSIVE /\ r.job \in {"read", "rollback"}
      /\ r.pc = "unlock" => r.job \in {"read", "commit", "rollback"}
      /\ r.pc \in Undoing \union {"unlock"} =>
           IF r.job = "read" THEN r.lock = EXCLUSIVE /\ ~r.resv /\ r.tx = 0 ELSE r.resv /\ r.tx # 0
      /\ r.tx = 0 => r.pc \notin Syncing \union Writing
      /\ r.tx # 0 => /\ r.pc \in {"idle", "unlock"} \union Syncing \union Writing \union Undoing
                     /\ r.resv /\ r.lock >= RESERVED /\ r.state >= RESERVED
                     /\ r.state >= EXCLUSIVE <=> r.lock = EXCLUSIVE
      /\ r.pc \in {"write", "synced"} => r.state >= EXCLUSIVE
      /\ r.pc = "synced" => r.job = "commit"
      /\ r.state = SYNCED => r.pc \in {"synced", "unlock"} \union Undoing
      /\ r.pc \in Syncing \union {"wait", "write"} => r.job \in {"spill", "commit"}
      /\ r.pc \in Opening \union {"out", "first", "open", "idle", "create"} => r.job = "none"

\* Nobody has a lock beside an exclusive one, one process at most is reserved, and
\* one only has an empty file open.
Exclusion ==
  \A p, q \in Proc : p # q =>
    /\ h[p].lock = EXCLUSIVE => h[q].lock = NO_LOCK
    /\ ~(h[p].resv /\ h[q].resv)
    /\ file.size = 0 => h[p].pc = "out" \/ h[q].pc = "out"

-----------------------------------------------------------------------------
(* The caches.                                                              *)

\* Before page 1 is read there is nothing in the cache.  The size may be an old one, but
\* only an empty file is taken for empty.
OpeningOK(p) ==
  LET r == h[p]
  IN  /\ r.pc \in Opening \union {"first", "open"} \/ r.job = "read" =>
           DOMAIN r.cache = {} /\ r.orig = 0 /\ r.inJournal = {} /\ ~r.needSync /\ r.tx = 0
      /\ r.pc \in {"exists", "reserved"} => r.dbSize # 0
      /\ r.pc \in {"hot", "open"} => r.dbSize > 0
      /\ r.pc = "stale" => file.size = 0
      /\ r.pc = "first" => file = Content

\* The pages in the cache of r are those of the file; if it is misled, as far as it
\* counts them.
Cached(r) ==
  IF r.misled
  THEN r.dbSize >= 0 /\ \A i \in DOMAIN r.cache :
                          r.cache[i] = Clean(IF i <= r.dbSize THEN file.page[i] ELSE Blank)
  ELSE /\ r.dbSize \in {-1, file.size}
       /\ \A i \in DOMAIN r.cache : i <= file.size + 1 /\ r.cache[i] = Clean(file.page[i])

\* A reader's pages are those of the file, and this is the committed content.
ReadingOK(p) ==
  LET r == h[p]
  IN  r.pc \in {"idle", "create"} /\ r.tx = 0 =>
        /\ file = Content
        /\ r.orig = 0 /\ r.inJournal = {} /\ ~r.needSync
        /\ 1 \in DOMAIN r.cache /\ Cached(r)

\* The transaction of p until its rollback or the removal of its journal.
Open(p) == h[p].tx # 0 /\ h[p].pc \notin Undoing \union {"unlock"}

\* The journal of a transaction under way.
OwnJournal(p) ==
  LET r == h[p]
  IN  Open(p) \/ (h[p].tx # 0 /\ h[p].pc \in Undoing) =>
        /\ jrnl # NoJournal /\ jrnl.count # Junk
        /\ \A k \in DOMAIN jrnl.recs : jrnl.recs[k].val # Junk
        /\ jrnl.size = r.orig

Recorded == {jrnl.recs[k].pg : k \in DOMAIN jrnl.recs}

Synced(i) == \E k \in DOMAIN jrnl.recs : Kept(jrnl, k) /\ jrnl.recs[k].pg = i

\* What a transaction has done so far, page by page.
PageOK(p, i) ==
  LET r == h[p]  c == h[p].cache
  IN  IF i \in DOMAIN c
      THEN /\ i \in Changed(p) => /\ c[i].val = r.tx
                                  /\ c[i].dirty \/ (file.page[i] = r.tx /\ i <= file.size)
           /\ i \notin Changed(p) =>
                c[i] = Clean(Content.page[i]) /\ file.page[i] = Content.page[i]
           /\ i <= r.orig => (c[i].inJournal <=> i \in r.inJournal)
           /\ c[i].needSync => c[i].dirty /\ r.needSync /\ file.page[i] = Content.page[i]
           /\ i \in Changed(p) /\ ~c[i].needSync => r.started /\ (i <= r.orig => Synced(i))
      ELSE IF i \in Changed(p)
      THEN /\ file.page[i] = r.tx /\ i <= file.size
           /\ r.started /\ (i <= r.orig => Synced(i))
      ELSE file.page[i] = Content.page[i]

ChangesOK(p) ==
  LET r == h[p]
  IN  Open(p) =>
        /\ r.inJournal = Recorded
        /\ r.hdr + r.nRec = Len(jrnl.recs)
        /\ r.orig <= file.size /\ file.size <= r.dbSize
        /\ r.dirtyCache \/ Changed(p) = {}
        /\ r.started => linked /\ Junk \notin jrnl.may
        /\ r.state = RESERVED => file = Content
        /\ 1 \in DOMAIN r.cache /\ \A i \in DOMAIN r.cache : i <= r.dbSize + 1
        /\ \A i \in Page : PageOK(p, i)

\* What a call that changes pages has done when it is between two system calls.
CallOK(p) ==
  LET r == h[p]
  IN  /\ r.pc = "header" => jrnl.count = Len(jrnl.recs)
      /\ r.pc \in Syncing \union {"wait", "write"} /\ r.job = "spill" =>
           /\ r.victim \in DOMAIN r.cache /\ r.victim # 1
           /\ r.want \in Page \ DOMAIN r.cache /\ r.want <= r.dbSize + 1
           /\ r.pc = "sync" => r.cache[r.victim].needSync
           /\ r.pc \in {"segment", "wait", "write"} => r.started /\ ~r.cache[r.victim].needSync
      /\ r.pc \in Syncing \union Writing /\ r.job = "commit" =>
           /\ 1 \in Changed(p) /\ r.pc # "segment"
           /\ r.pc \in Writing => r.started /\ \A i \in DOMAIN r.cache : ~r.cache[i].needSync
      /\ r.pc = "synced" => disk = Durable(file) /\ \A i \in DOMAIN r.cache : ~r.cache[i].dirty

\* A rollback under way: the file and the records restored so far.  A page that was not
\* written to needs none.
Undone(p, i) == file.page[i] = Content.page[i]

UndoingOK(p) ==
  LET r == h[p]
  IN  /\ r.pc \in Undoing /\ r.tx # 0 =>
           \A i \in DOMAIN r.cache : i <= jrnl.size /\ r.cache[i].needSync => Undone(p, i)
      /\ r.pc = "play" => /\ jrnl # NoJournal
                          /\ r.played <= Len(jrnl.recs)
                          /\ jrnl.count # Junk => file.size = jrnl.size
                          /\ \A k \in 1..r.played : Restores(jrnl, k) /\ Undone(p, jrnl.recs[k].pg)
      /\ r.pc = "trunc" => jrnl # NoJournal
      /\ r.pc = "unlock" => jrnl = NoJournal

\* After a commit the pages in the cache are those of the file.
CommittedOK(p) ==
  LET r == h[p]
  IN  r.pc = "unlock" /\ r.job = "commit" =>
        /\ r.inJournal = {} /\ ~r.needSync /\ 1 \in DOMAIN r.cache
        /\ \A i \in DOMAIN r.cache : i <= file.size + 1 /\ r.cache[i] = Clean(file.page[i])

Process(p) ==
  /\ Levels(p) /\ OpeningOK(p) /\ ReadingOK(p) /\ OwnJournal(p) /\ ChangesOK(p)
  /\ CallOK(p) /\ UndoingOK(p) /\ CommittedOK(p)

IInv == Types /\ Files /\ Exclusion /\ \A p \in Proc : Process(p)

\* No transaction was begun by a process that is misled.
Straight == \A p \in Proc : h[p].tx # 0 => ~h[p].misled

-----------------------------------------------------------------------------
(* Files and journals.                                                      *)

USE DEF NO_LOCK, SHARED, RESERVED, PENDING, EXCLUSIVE, SYNCED, Blank, Junk, NoPage

\* Pages, values and the numbers they are.
LEMMA Numbers ==
  /\ 1 \in Page /\ Page \in SUBSET Nat /\ 0 \in Val /\ Val \in SUBSET Nat /\ MaxPage \in Nat
  /\ \A i \in Page : i \in Nat /\ 1 <= i /\ i <= MaxPage
  /\ \A i \in Nat : 1 <= i /\ i <= MaxPage => i \in Page
BY PagerAssumption DEF Page, Val

\* Files with the same size and pages are the same.
LEMMA SameFile ==
  ASSUME NEW f \in File, NEW g \in File, f.size = g.size,
         \A i \in Page : f.page[i] = g.page[i]
  PROVE  f = g
<1>1. f.page = g.page
  BY DEF File
<1> QED
  BY <1>1 DEF File

\* A file that was cut, or extended with zeros.
LEMMA SizedFile ==
  ASSUME NEW pages \in [Page -> Val], NEW n \in 0..MaxPage
  PROVE  /\ Sized(pages, n) \in File /\ Sized(pages, n).size = n /\ Zeroed(Sized(pages, n))
         /\ \A i \in Page : Sized(pages, n).page[i] = IF i <= n THEN pages[i] ELSE Blank
BY Numbers DEF Sized, File, Zeroed

\* A file after one page was written.
LEMMA StoredFile ==
  ASSUME NEW f \in File, NEW i \in Page, NEW v \in Val
  PROVE  /\ Store(f, i, v) \in File
         /\ Store(f, i, v).size = IF i > f.size THEN i ELSE f.size
         /\ Store(f, i, v).page[i] = v
         /\ \A k \in Page : k # i => Store(f, i, v).page[k] = f.page[k]
         /\ Zeroed(f) => Zeroed(Store(f, i, v))
BY Numbers DEF Store, File, Zeroed

\* The fields of a journal.
LEMMA JournalTyped ==
  ASSUME NEW j \in Journal
  PROVE  /\ j.size \in 0..MaxPage /\ j.count \in Nat \union {Junk} /\ j.synced \in Nat
         /\ j.may \in SUBSET (Nat \union {Junk})
         /\ j.recs \in Seq(Record) /\ Len(j.recs) \in Nat /\ DOMAIN j.recs = 1..Len(j.recs)
         /\ \A k \in DOMAIN j.recs : k \in Nat /\ k >= 1 /\ j.recs[k] \in Record
                                     /\ j.recs[k].pg \in Page
                                     /\ j.recs[k].val \in Val \union {Junk}
<1>1. /\ j.size \in 0..MaxPage /\ j.count \in Nat \union {Junk} /\ j.synced \in Nat
      /\ j.may \in SUBSET (Nat \union {Junk}) /\ j.recs \in Seq(Record)
  BY DEF Journal
<1>2. \A x \in Record : x.pg \in Page /\ x.val \in Val \union {Junk}
  BY DEF Record
<1>3. Len(j.recs) \in Nat /\ DOMAIN j.recs = 1..Len(j.recs)
  BY <1>1
<1>4. \A k \in 1..Len(j.recs) : j.recs[k] \in Record
  BY <1>1
<1> QED
  BY <1>1, <1>2, <1>3, <1>4

\* No two records of a journal are for the same page.
Distinct(j) == \A k, l \in DOMAIN j.recs : j.recs[k].pg = j.recs[l].pg => k = l

\* What playback makes of a file.
LEMMA RestoredFile ==
  ASSUME NEW j \in Journal, NEW f \in File, Zeroed(f)
  PROVE  /\ Restored(j, f) \in File /\ Zeroed(Restored(j, f))
         /\ j.count = Junk => Restored(j, f) = f
         /\ j.count # Junk =>
              /\ Restored(j, f).size = j.size
              /\ \A i \in Page : i > j.size => Restored(j, f).page[i] = Blank
              /\ \A i \in Page : i <= j.size /\ Originals(j, i) = {} =>
                   Restored(j, f).page[i] = f.page[i]
              /\ Distinct(j) => \A k \in DOMAIN j.recs : j.recs[k].pg <= j.size /\ Restores(j, k) =>
                   Restored(j, f).page[j.recs[k].pg] = j.recs[k].val
<1> DEFINE P == [i \in Page |-> IF Originals(j, i) = {} THEN f.page[i]
                               ELSE j.recs[CHOOSE k \in Originals(j, i) : TRUE].val]
<1>1. \A i \in Page : P[i] \in Val
  <2> TAKE i \in Page
  <2>1. CASE Originals(j, i) = {}
    BY <2>1 DEF File
  <2>2. CASE Originals(j, i) # {}
    <3>1. PICK k \in Originals(j, i) : k = CHOOSE l \in Originals(j, i) : TRUE
      BY <2>2
    <3>2. k \in DOMAIN j.recs /\ k \in 1..k
      BY <3>1, JournalTyped DEF Originals
    <3>3. j.recs[k].val # Junk
      BY <3>1, <3>2 DEF Originals, Restores
    <3> QED
      BY <2>2, <3>1, <3>2, <3>3, JournalTyped
  <2> QED
    BY <2>1, <2>2
<1>2. P \in [Page -> Val] /\ \A i \in Page : Originals(j, i) = {} => P[i] = f.page[i]
  BY <1>1
<1>3. \A i \in Page : Originals(j, i) # {} => P[i] = j.recs[CHOOSE k \in Originals(j, i) : TRUE].val
  OBVIOUS
<1>4. j.size \in 0..MaxPage
  BY JournalTyped
<1>5. j.count # Junk => Restored(j, f) = Sized(P, j.size)
  BY DEF Restored
<1>6. j.count = Junk => Restored(j, f) = f
  BY DEF Restored
<1> HIDE DEF P
<1>7. /\ Sized(P, j.size) \in File /\ Sized(P, j.size).size = j.size /\ Zeroed(Sized(P, j.size))
      /\ \A i \in Page : Sized(P, j.size).page[i] = IF i <= j.size THEN P[i] ELSE Blank
  BY <1>2, <1>4, SizedFile
<1>8. ASSUME Distinct(j), NEW k \in DOMAIN j.recs, Restores(j, k)
      PROVE  P[j.recs[k].pg] = j.recs[k].val
  <2> DEFINE i == j.recs[k].pg
  <2>1. k \in Originals(j, i) /\ i \in Page
    BY <1>8, JournalTyped DEF Originals
  <2>2. PICK l \in Originals(j, i) : l = CHOOSE m \in Originals(j, i) : TRUE
    BY <2>1
  <2>3. l = k
    BY <1>8, <2>1, <2>2 DEF Originals, Distinct
  <2> QED
    BY <1>3, <2>1, <2>2, <2>3
<1>9. ASSUME j.count # Junk
      PROVE  /\ Restored(j, f).size = j.size
             /\ \A i \in Page : i > j.size => Restored(j, f).page[i] = Blank
             /\ \A i \in Page : i <= j.size /\ Originals(j, i) = {} =>
                  Restored(j, f).page[i] = f.page[i]
  BY <1>2, <1>4, <1>5, <1>7, <1>9, Numbers
<1>10. ASSUME j.count # Junk, Distinct(j), NEW k \in DOMAIN j.recs,
              j.recs[k].pg <= j.size, Restores(j, k)
       PROVE  Restored(j, f).page[j.recs[k].pg] = j.recs[k].val
  BY <1>5, <1>7, <1>8, <1>10, JournalTyped
<1>11. Restored(j, f) \in File /\ Zeroed(Restored(j, f))
  BY <1>5, <1>6, <1>7
<1> QED
  BY <1>6, <1>9, <1>10, <1>11

\* What a disk is known to hold is there.
LEMMA DurableFile ==
  ASSUME NEW f \in File
  PROVE  /\ Durable(f) \in Disk /\ MayBe(f, Durable(f))
         /\ Zeroed(f) => ZeroedOn(Durable(f))
         /\ \A g \in File : MayBe(g, Durable(f)) => g = f
<1>1. f.size \in 0..MaxPage /\ \A i \in Page : f.page[i] \in Val
  BY DEF File
<1>2. /\ Durable(f) \in Disk /\ MayBe(f, Durable(f))
      /\ Zeroed(f) => ZeroedOn(Durable(f))
  BY <1>1 DEF Durable, Disk, MayBe, Zeroed, ZeroedOn
<1>3. ASSUME NEW g \in File, MayBe(g, Durable(f))
      PROVE  g = f
  <2>1. g.size = f.size /\ \A i \in Page : g.page[i] = f.page[i]
    BY <1>3 DEF Durable, MayBe
  <2> QED
    BY <2>1, SameFile
<1> QED
  BY <1>2, <1>3

\* What was on the disk may be, and so may what is written.
LEMMA WrittenFile ==
  ASSUME NEW d \in Disk, NEW f \in File
  PROVE  /\ Written(d, f) \in Disk /\ MayBe(f, Written(d, f))
         /\ Zeroed(f) /\ ZeroedOn(d) => ZeroedOn(Written(d, f))
         /\ MayBe(f, d) => Written(d, f) = d
<1>1. f.size \in 0..MaxPage /\ \A i \in Page : f.page[i] \in Val
  BY DEF File
<1>2. d.size \in SUBSET (0..MaxPage) /\ \A i \in Page : d.page[i] \in SUBSET Val
  BY DEF Disk
<1>3. /\ Written(d, f) \in Disk /\ MayBe(f, Written(d, f))
      /\ Zeroed(f) /\ ZeroedOn(d) => ZeroedOn(Written(d, f))
  BY <1>1, <1>2 DEF Written, Disk, MayBe, Zeroed, ZeroedOn
<1>4. ASSUME MayBe(f, d)
      PROVE  Written(d, f) = d
  <2>1. d.size \union {f.size} = d.size /\ \A i \in Page : d.page[i] \union {f.page[i]} = d.page[i]
    BY <1>4 DEF MayBe
  <2>2. d.page = [i \in Page |-> d.page[i] \union {f.page[i]}]
    BY <2>1 DEF Disk
  <2> QED
    BY <2>1, <2>2 DEF Written, Disk
<1> QED
  BY <1>3, <1>4

\* The parts of Brings.
LEMMA BringsDistinct ==
  ASSUME NEW j, NEW d, NEW c, Brings(j, d, c)
  PROVE  Distinct(j)
BY DEF Brings, Distinct

\* A file that disk d may hold is c once journal j is played back.
LEMMA BringsRestored ==
  ASSUME NEW j \in Journal, NEW d \in Disk, NEW c \in File, NEW f \in File,
         Zeroed(c), Zeroed(f), Brings(j, d, c), MayBe(f, d)
  PROVE  Restored(j, f) = c
<1>1. CASE j.count = Junk
  <2>1. d = Durable(c)
    BY <1>1 DEF Brings
  <2> QED
    BY <1>1, <2>1, DurableFile, RestoredFile
<1>2. CASE j.count # Junk
  <2> DEFINE g == Restored(j, f)
  <2>1. /\ g \in File /\ g.size = j.size
        /\ \A i \in Page : i > j.size => g.page[i] = Blank
        /\ \A i \in Page : i <= j.size /\ Originals(j, i) = {} => g.page[i] = f.page[i]
        /\ \A k \in DOMAIN j.recs : j.recs[k].pg <= j.size /\ Restores(j, k) =>
             g.page[j.recs[k].pg] = j.recs[k].val
    BY <1>2, RestoredFile, BringsDistinct
  <2> HIDE DEF g
  <2>2. \A k \in DOMAIN j.recs : Restores(j, k) => g.page[j.recs[k].pg] = c.page[j.recs[k].pg]
    <3> SUFFICES ASSUME NEW k \in DOMAIN j.recs, Restores(j, k)
                 PROVE  g.page[j.recs[k].pg] = c.page[j.recs[k].pg]
      OBVIOUS
    <3>1. k \in 1..k
      BY JournalTyped
    <3>2. j.recs[k].val # Junk
      BY <3>1 DEF Restores
    <3>3. j.recs[k].pg <= j.size /\ j.recs[k].val \in {Junk, c.page[j.recs[k].pg]}
      BY DEF Brings
    <3> QED
      BY <2>1, <3>2, <3>3
  <2>3. j.size = c.size
    BY DEF Brings
  <2>4. ASSUME NEW i \in Page
        PROVE  g.page[i] = c.page[i]
    <3>1. CASE i > j.size
      BY <2>1, <2>3, <3>1 DEF Zeroed
    <3>2. CASE ~(i > j.size) /\ Originals(j, i) = {}
      <4>1. i <= j.size
        BY <3>2, Numbers, JournalTyped
      <4>2. ~\E k \in DOMAIN j.recs : Kept(j, k) /\ j.recs[k].pg = i
        BY <3>2 DEF Originals, Kept
      <4>3. d.page[i] = {c.page[i]}
        BY <4>1, <4>2 DEF Brings
      <4> QED
        BY <2>1, <3>2, <4>1, <4>3 DEF MayBe
    <3>3. CASE Originals(j, i) # {}
      BY <2>2, <3>3 DEF Originals
    <3> QED
      BY <3>1, <3>2, <3>3
  <2> QED
    BY <2>1, <2>3, <2>4, SameFile DEF g
<1> QED
  BY <1>1, <1>2

\* The less the disk may hold, the more is certain.
LEMMA BringsLess ==
  ASSUME NEW j \in Journal, NEW d \in Disk, NEW c \in File, NEW f \in File,
         Brings(j, d, c), MayBe(f, d)
  PROVE  Brings(j, Durable(f), c)
<1>1. Junk \in j.may => Durable(f) = Durable(c)
  BY DurableFile DEF Brings
<1>2. \A n \in Durable(f).size : j.size <= n
  BY DEF Brings, MayBe, Durable
<1>3. \A i \in Page : d.page[i] = {c.page[i]} => Durable(f).page[i] = {c.page[i]}
  BY DEF MayBe, Durable
<1> QED
  BY <1>1, <1>2, <1>3 DEF Brings

\* What a power failure leaves of a journal still does what the journal did.
LEMMA BringsOnDisk ==
  ASSUME NEW j \in Journal, NEW d \in Disk, NEW c \in File, Brings(j, d, c),
         NEW s \in OnDisk(j)
  PROVE  s \in Journal /\ s # NoJournal /\ Brings(s, d, c)
<1>1. PICK n \in j.may, bad \in SUBSET (j.synced + 1..Len(j.recs)) : s = Left(j, n, bad)
  BY DEF OnDisk
<1> DEFINE R == [k \in 1..Len(j.recs) |->
           IF k \in bad THEN [pg |-> j.recs[k].pg, val |-> Junk] ELSE j.recs[k]]
<1>2. s = [size |-> j.size, count |-> n, may |-> {n}, synced |-> Len(j.recs), recs |-> R]
  BY <1>1, JournalTyped DEF Left
<1>3. /\ s.size = j.size /\ s.count = n /\ s.may = {n} /\ s.synced = Len(j.recs)
      /\ DOMAIN s.recs = DOMAIN j.recs
      /\ \A k \in DOMAIN j.recs : /\ s.recs[k].pg = j.recs[k].pg
                                  /\ s.recs[k].val \in {Junk, j.recs[k].val}
                                  /\ k <= j.synced => s.recs[k] = j.recs[k]
  BY <1>2, JournalTyped
<1>4. s.recs \in Seq(Record) /\ Len(s.recs) = Len(j.recs)
  <2>1. \A k \in 1..Len(j.recs) : R[k] \in Record
    BY JournalTyped DEF Record
  <2>2. R \in [1..Len(j.recs) -> Record]
    BY <2>1
  <2> HIDE DEF R
  <2>3. R \in Seq(Record) /\ Len(R) = Len(j.recs)
    BY <2>2, JournalTyped, SeqDef
  <2> QED
    BY <1>2, <2>3
<1>5. s \in Journal /\ s # NoJournal
  <2>1. n \in Nat \union {Junk}
    BY JournalTyped
  <2>2. s.may # NoJournal.may
    BY <1>3 DEF NoJournal
  <2>3. s \in Journal
    <3>1. R \in Seq(Record)
      BY <1>2, <1>4
    <3> HIDE DEF R
    <3> QED
      BY <1>2, <2>1, <3>1, JournalTyped DEF Journal
  <2> QED
    BY <2>2, <2>3
<1>6. ASSUME NEW k \in DOMAIN j.recs, Kept(j, k)
      PROVE  Kept(s, k)
  <2>1. k <= n /\ k <= j.synced /\ k <= Len(j.recs)
    BY <1>6, JournalTyped DEF Kept
  <2>2. \A m \in 1..k : m \in DOMAIN j.recs /\ m <= j.synced
    BY <2>1, JournalTyped
  <2>3. Restores(s, k)
    BY <1>3, <1>6, <2>1, <2>2 DEF Kept, Restores
  <2> QED
    BY <1>3, <2>1, <2>3 DEF Kept
<1>7. Brings(s, d, c)
  BY <1>3, <1>4, <1>6 DEF Brings
<1> QED
  BY <1>5, <1>7

-----------------------------------------------------------------------------
(* What a power failure leaves.                                             *)

\* The files, and the committed content, are files.
LEMMA ContentTyped ==
  ASSUME Types, Files
  PROVE  /\ file \in File /\ jrnl \in Journal /\ disk \in Disk /\ before \in File
         /\ Content \in File /\ Zeroed(file) /\ Zeroed(Content) /\ Rest \in Disk
         /\ MayBe(file, disk) /\ MayBe(file, Rest) /\ MayBe(file, Durable(file))
         /\ jrnl # NoJournal => Brings(jrnl, Rest, Content)
         /\ jrnl = NoJournal => Content = file
         /\ \A k \in DOMAIN ghosts : ghosts[k] \in Journal
<1>1. file \in File /\ jrnl \in Journal /\ disk \in Disk /\ before \in File /\ ghosts \in Seq(Journal)
  BY DEF Types
<1>2. Zeroed(file) /\ Zeroed(Content) /\ MayBe(file, disk)
  BY DEF Files
<1>3. Content \in File
  BY <1>1, <1>2, RestoredFile DEF Content
<1>4. Rest \in Disk /\ MayBe(file, Rest) /\ MayBe(file, Durable(file))
  BY <1>1, <1>2, DurableFile DEF Rest
<1>5. jrnl = NoJournal => Content = file
  BY DEF Content, Restored, NoJournal
<1>6. \A k \in DOMAIN ghosts : ghosts[k] \in Journal
  BY <1>1
<1> QED
  BY <1>1, <1>2, <1>3, <1>4, <1>5, <1>6 DEF Files, JournalOK

\* A file that may be on the disk.
LEMMA FileOnDisk ==
  ASSUME Types, Files, NEW f \in FilesOnDisk
  PROVE  f \in File /\ Zeroed(f) /\ MayBe(f, disk)
<1>1. PICK pages \in [Page -> Val], n \in disk.size :
        (\A i \in Page : pages[i] \in disk.page[i]) /\ f = Sized(pages, n)
  BY DEF FilesOnDisk
<1>2. n \in 0..MaxPage
  BY DEF Types, Disk
<1>3. f \in File /\ f.size = n /\ Zeroed(f)
      /\ \A i \in Page : f.page[i] = IF i <= n THEN pages[i] ELSE Blank
  BY <1>1, <1>2, SizedFile
<1>4. ZeroedOn(disk)
  BY DEF Files
<1> QED
  BY <1>1, <1>2, <1>3, <1>4, Numbers DEF MayBe, ZeroedOn

\* Whatever a power failure leaves is one of the two contents once it is played back,
\* and after another power failure still is.
LEMMA Survivors ==
  ASSUME Risks = {}, Types, Files, NEW j \in Shown, NEW f \in FilesOnDisk, InOrder(j, f)
  PROVE  /\ f \in File /\ Zeroed(f) /\ j \in Journal
         /\ Restored(j, f) \in {Content, before}
         /\ j # NoJournal => Brings(j, Durable(f), Restored(j, f))
<1>1. f \in File /\ Zeroed(f) /\ MayBe(f, disk)
  BY FileOnDisk
<1>2. MayBe(f, Durable(f)) /\ Zeroed(before)
  BY <1>1, DurableFile DEF Files
\* Journal g restores c from what is left.
<1>3. ASSUME NEW g \in Journal, NEW d \in Disk, NEW c \in {Content, before},
             Brings(g, d, c), MayBe(f, d), j \in OnDisk(g)
      PROVE  /\ j \in Journal /\ Restored(j, f) = c
             /\ Brings(j, Durable(f), Restored(j, f))
  <2>1. c \in File /\ Zeroed(c)
    BY <1>2, ContentTyped
  <2>2. j \in Journal /\ Brings(j, d, c)
    BY <1>3, <2>1, BringsOnDisk
  <2>3. Restored(j, f) = c
    BY <1>1, <1>3, <2>1, <2>2, BringsRestored
  <2>4. Brings(j, Durable(f), c)
    BY <1>1, <1>3, <2>1, <2>2, BringsLess
  <2> QED
    BY <2>2, <2>3, <2>4
<1>4. f = file \/ ghosts = <<>> \/ j \in OnDisk(ghosts[1])
  BY DEF InOrder
<1>5. MayBe(file, Durable(file)) /\ Durable(file) \in Disk
  BY ContentTyped, DurableFile
<1>6. CASE \E k \in DOMAIN ghosts : j \in OnDisk(ghosts[k])
  <2>1. PICK k \in DOMAIN ghosts : j \in OnDisk(ghosts[k])
    BY <1>6
  <2>2. ghosts[k] \in Journal /\ ghosts # <<>> /\ k \in Nat /\ k >= 1
    BY ContentTyped DEF Types
  <2>3. CASE j \in OnDisk(ghosts[1])
    <3>1. ghosts[1] \in Journal
      BY <2>2, ContentTyped DEF Types
    <3>2. Brings(ghosts[1], disk, Content) \/ Brings(ghosts[1], disk, before)
      BY <2>2 DEF Files, GhostsOK
    <3> QED
      BY <1>1, <1>3, <2>3, <3>1, <3>2, ContentTyped
  <2>4. CASE j \notin OnDisk(ghosts[1])
    <3>1. k > 1 /\ f = file
      BY <1>4, <2>1, <2>2, <2>4
    <3>2. Brings(ghosts[k], Durable(file), Content)
      BY <3>1 DEF Files, GhostsOK
    <3> QED
      BY <1>1, <1>3, <1>5, <2>1, <2>2, <3>1, <3>2
  <2> QED
    BY <2>3, <2>4
<1>7. CASE j \in OnDisk(jrnl) /\ ~\E k \in DOMAIN ghosts : j \in OnDisk(ghosts[k])
  <2>1. jrnl # NoJournal
    BY <1>7 DEF OnDisk, NoJournal
  <2>2. jrnl \in Journal /\ Rest \in Disk /\ Brings(jrnl, Rest, Content)
    BY <2>1, ContentTyped
  <2>3. MayBe(f, Rest)
    <3>1. ghosts # <<>> => f = file
      BY <1>4, <1>7 DEF Types
    <3> QED
      BY <1>1, <1>5, <3>1 DEF Rest
  <2> QED
    BY <1>1, <1>3, <1>7, <2>2, <2>3
<1>8. CASE j = NoJournal /\ ~linked /\ ~\E k \in DOMAIN ghosts : j \in OnDisk(ghosts[k])
  <2>1. file = Content /\ Rest = Durable(file)
    BY <1>8 DEF Files, LinkOK
  <2>2. f = file
    <3>1. CASE ghosts = <<>>
      BY <1>1, <2>1, <3>1, ContentTyped, DurableFile DEF Rest
    <3>2. CASE ghosts # <<>>
      BY <1>4, <1>8, <3>2 DEF Types
    <3> QED
      BY <3>1, <3>2
  <2>3. NoJournal \in Journal
    BY PagerAssumption DEF Journal, NoJournal
  <2>4. Restored(j, f) = f
    BY <1>8 DEF Restored, NoJournal
  <2> QED
    BY <1>1, <1>8, <2>1, <2>2, <2>3, <2>4
<1>9. \/ \E k \in DOMAIN ghosts : j \in OnDisk(ghosts[k])
      \/ j \in OnDisk(jrnl)
      \/ j = NoJournal /\ ~linked
  BY DEF Shown
<1> QED
  BY <1>6, <1>7, <1>8, <1>9

-----------------------------------------------------------------------------
(* Steps of a process on the files.                                         *)

\* What the journal makes of the files, whatever their names.
LEMMA NextContent ==
  ASSUME jrnl' \in Journal, NEW d \in Disk, NEW c \in File, file' \in File,
         Zeroed(c), Zeroed(file'), Brings(jrnl', d, c), MayBe(file', d)
  PROVE  Content' = c
BY BringsRestored DEF Content

\* Nothing of the files changes.
LEMMA FilesKept ==
  ASSUME Files, UNCHANGED <<fileVars, jrnlVars, before>>
  PROVE  Files' /\ Content' = Content /\ Rest' = Rest
BY DEF Files, fileVars, jrnlVars, Content, Rest, JournalOK, LinkOK, GhostsOK

\* A page, or the end, of the file is written: one whose original is safe, or one that
\* gets its original.
LEMMA FileWritten ==
  ASSUME Types, Files, NEW f \in File, Zeroed(f), WriteFile(f),
         UNCHANGED <<jrnlVars, before>>,
         f # file => /\ jrnl # NoJournal /\ linked /\ Junk \notin jrnl.may
                     /\ jrnl.size <= f.size
                     /\ \A i \in Page : i <= jrnl.size =>
                          f.page[i] \in {file.page[i], Content.page[i]} \/ Synced(i)
  PROVE  Files' /\ Content' = Content /\ file' \in File /\ disk' \in Disk
<1>1. /\ file' = f /\ disk' = Written(disk, f)
      /\ jrnl' = jrnl /\ linked' = linked /\ ghosts' = ghosts /\ before' = before
  BY DEF WriteFile, jrnlVars
<1>2. disk' \in Disk /\ MayBe(f, disk') /\ ZeroedOn(disk')
  BY <1>1, ContentTyped, WrittenFile DEF Files
<1>3. CASE f = file
  <2>1. disk' = disk
    BY <1>1, <1>3, ContentTyped, WrittenFile
  <2> QED
    BY <1>1, <1>2, <1>3, <2>1, FilesKept DEF fileVars, jrnlVars
<1>4. CASE f # file
  <2>1. jrnl # NoJournal /\ linked /\ ghosts = <<>> /\ Rest = disk /\ Brings(jrnl, disk, Content)
    BY <1>4, ContentTyped DEF Files, LinkOK, Rest
  <2>2. /\ jrnl \in Journal /\ disk \in Disk /\ Content \in File /\ Zeroed(Content)
        /\ MayBe(file, disk) /\ \A i \in Page : disk.page[i] \in SUBSET Val
    BY ContentTyped DEF Disk
  <2>3. \A n \in disk'.size : jrnl.size <= n
    BY <1>1, <1>4, <2>1 DEF Written, Brings
  <2>4. ASSUME NEW i \in Page, i <= jrnl.size
        PROVE  disk'.page[i] = {Content.page[i]} \/ Synced(i)
    <3>1. disk'.page[i] = disk.page[i] \union {f.page[i]}
      BY <1>1 DEF Written
    <3>2. CASE Synced(i)
      BY <3>2
    <3>3. CASE ~Synced(i)
      <4>1. disk.page[i] = {Content.page[i]}
        BY <2>1, <2>4, <3>3 DEF Brings, Synced
      <4>2. file.page[i] = Content.page[i]
        BY <2>2, <4>1 DEF MayBe
      <4>3. f.page[i] = Content.page[i]
        BY <1>4, <2>4, <3>3, <4>2
      <4> QED
        BY <3>1, <4>1, <4>3
    <3> QED
      BY <3>2, <3>3
  <2>5. Brings(jrnl, disk', Content)
    BY <1>4, <2>1, <2>3, <2>4 DEF Brings, Synced
  <2>6. Content' = Content
    BY <1>1, <1>2, <2>2, <2>5, NextContent
  <2>7. Rest' = disk'
    BY <1>1, <2>1 DEF Rest
  <2> QED
    BY <1>1, <1>2, <2>1, <2>2, <2>5, <2>6, <2>7 DEF Files, JournalOK, LinkOK, GhostsOK
<1> QED
  BY <1>1, <1>2, <1>3, <1>4

\* The file is synced: with a journal on the disk, as a commit does.
LEMMA FileSynced ==
  ASSUME Types, Files, linked, UNCHANGED <<file, jrnlVars, before>>, disk' = Durable(file)
  PROVE  Files' /\ Content' = Content /\ disk' \in Disk
<1>1. /\ file' = file /\ jrnl' = jrnl /\ linked' = linked /\ ghosts' = ghosts /\ before' = before
  BY DEF jrnlVars
<1>2. /\ jrnl # NoJournal /\ ghosts = <<>> /\ Rest = disk /\ Brings(jrnl, disk, Content)
      /\ jrnl \in Journal /\ disk \in Disk /\ Content \in File /\ file \in File
      /\ MayBe(file, disk) /\ Zeroed(file)
  BY ContentTyped DEF Files, LinkOK, Rest
<1>3. Brings(jrnl, disk', Content)
  BY <1>2, BringsLess
<1>4. Content' = Content
  BY <1>1 DEF Content
<1>5. disk' \in Disk /\ MayBe(file, disk') /\ ZeroedOn(disk')
  BY <1>2, DurableFile
<1> QED
  BY <1>1, <1>2, <1>3, <1>4, <1>5 DEF Files, JournalOK, LinkOK, GhostsOK, Rest

\* The journal is removed when the file is what it should be.
LEMMA JournalDeleted ==
  ASSUME Types, Files, DeleteJournal, UNCHANGED fileVars,
         before' = before \/ before' = Content,
         \/ file = Content /\ before' = before
         \/ linked /\ disk = Durable(file) /\ before' = Content
  PROVE  Files' /\ Content' = file /\ jrnl' \in Journal /\ linked' = FALSE /\ ghosts' \in Seq(Journal)
<1>1. /\ file' = file /\ disk' = disk /\ jrnl' = NoJournal /\ linked' = FALSE
  BY DEF DeleteJournal, fileVars
<1>2. Content' = file
  BY <1>1 DEF Content, Restored, NoJournal
<1>3. /\ file \in File /\ jrnl \in Journal /\ disk \in Disk /\ ghosts \in Seq(Journal)
      /\ Zeroed(file) /\ Zeroed(Content) /\ MayBe(file, disk) /\ ZeroedOn(disk) /\ Zeroed(before)
      /\ jrnl # NoJournal => Brings(jrnl, Rest, Content)
  BY ContentTyped DEF Files, Types
<1>4. NoJournal \in Journal
  BY PagerAssumption DEF Journal, NoJournal
<1>5. \/ ghosts' = ghosts /\ (jrnl = NoJournal \/ ghosts # <<>>)
      \/ ghosts' = Append(ghosts, jrnl) /\ jrnl # NoJournal
  BY <1>3 DEF DeleteJournal
<1>6. ghosts' \in Seq(Journal)
  BY <1>3, <1>5
<1>7. CASE linked /\ disk = Durable(file) /\ before' = Content
  <2>1. jrnl # NoJournal /\ ghosts = <<>> /\ Rest = disk
    BY <1>7 DEF Files, LinkOK, Rest
  <2>2. ghosts' = <<jrnl>>
    BY <1>5, <2>1
  <2>3. ghosts'[1] = jrnl /\ DOMAIN ghosts' = {1} /\ ghosts' # <<>>
    BY <2>2
  <2>4. Brings(ghosts'[1], disk', before')
    BY <1>1, <1>3, <1>7, <2>1, <2>3
  <2>5. Rest' = Durable(file)
    BY <1>1, <1>7 DEF Rest
  <2> QED
    BY <1>1, <1>2, <1>3, <1>4, <1>6, <1>7, <2>3, <2>4, <2>5
       DEF Files, JournalOK, LinkOK, GhostsOK
<1>8. CASE file = Content /\ before' = before
  <2>1. Rest' = Durable(file)
    <3>1. CASE ghosts' = <<>>
      <4>1. jrnl = NoJournal /\ ghosts = <<>>
        BY <1>3, <1>5, <3>1
      <4> QED
        BY <1>1, <3>1, <4>1 DEF Rest, Files, LinkOK
    <3>2. CASE ghosts' # <<>>
      BY <1>1, <3>2 DEF Rest
    <3> QED
      BY <3>1, <3>2
  <2>2. CASE ghosts' = ghosts
    <3>1. GhostsOK'
      BY <1>1, <1>2, <1>8, <2>2 DEF Files, GhostsOK
    <3> QED
      BY <1>1, <1>2, <1>3, <1>4, <1>6, <1>8, <2>1, <3>1 DEF Files, JournalOK, LinkOK
  <2>3. CASE ghosts' = Append(ghosts, jrnl) /\ jrnl # NoJournal
    <3>1. /\ DOMAIN ghosts' = 1..Len(ghosts) + 1 /\ ghosts'[Len(ghosts) + 1] = jrnl
          /\ \A k \in 1..Len(ghosts) : ghosts'[k] = ghosts[k]
          /\ DOMAIN ghosts = 1..Len(ghosts) /\ Len(ghosts) \in Nat
          /\ ghosts # <<>> => Len(ghosts) >= 1
          /\ ghosts = <<>> => Len(ghosts) = 0
      BY <1>3, <2>3
    <3>2. Brings(ghosts'[1], disk', Content') \/ Brings(ghosts'[1], disk', before')
      <4>1. CASE ghosts = <<>>
        BY <1>1, <1>2, <1>3, <1>8, <2>3, <3>1, <4>1 DEF Rest
      <4>2. CASE ghosts # <<>>
        BY <1>1, <1>2, <1>8, <3>1, <4>2 DEF Files, GhostsOK
      <4> QED
        BY <4>1, <4>2
    <3>3. ASSUME NEW k \in DOMAIN ghosts', k > 1
          PROVE  Brings(ghosts'[k], Durable(file'), Content')
      <4>1. CASE k \in DOMAIN ghosts
        BY <1>1, <1>2, <1>8, <3>1, <3>3, <4>1 DEF Files, GhostsOK
      <4>2. CASE k \notin DOMAIN ghosts
        <5>1. ghosts # <<>> /\ ghosts'[k] = jrnl
          BY <3>1, <3>3, <4>2
        <5> QED
          BY <1>1, <1>2, <1>3, <1>8, <2>3, <5>1 DEF Rest
      <4> QED
        BY <4>1, <4>2
    <3>4. GhostsOK'
      BY <3>2, <3>3 DEF GhostsOK
    <3> QED
      BY <1>1, <1>2, <1>3, <1>4, <1>6, <1>8, <2>1, <3>4 DEF Files, JournalOK, LinkOK
  <2> QED
    BY <1>5, <2>2, <2>3
<1> QED
  BY <1>7, <1>8

\* A new journal restores the file as it is.
LEMMA JournalCreated ==
  ASSUME Types, Files, jrnl = NoJournal, jrnl' = NewJournal(file.size), linked' = FALSE,
         UNCHANGED <<fileVars, ghosts, before>>
  PROVE  /\ Files' /\ Content' = file /\ jrnl' \in Journal /\ jrnl' # NoJournal
         /\ jrnl'.size = file.size /\ jrnl'.count = 0 /\ jrnl'.recs = <<>>
<1>1. /\ file' = file /\ disk' = disk /\ ghosts' = ghosts /\ before' = before /\ linked' = FALSE
  BY DEF fileVars
<1>2. /\ file \in File /\ Content = file /\ Zeroed(file) /\ MayBe(file, disk) /\ ZeroedOn(disk)
      /\ ghosts \in Seq(Journal) /\ Zeroed(before) /\ Rest \in Disk /\ MayBe(file, Rest)
  BY ContentTyped DEF Files, Types
<1>3. /\ jrnl'.size = file.size /\ jrnl'.count = 0 /\ jrnl'.recs = <<>> /\ jrnl'.may = {Junk, 0}
      /\ jrnl' \in Journal /\ jrnl' # NoJournal
  <2>1. file.size \in 0..MaxPage
    BY <1>2 DEF File
  <2>2. <<>> \in Seq(Record)
    OBVIOUS
  <2> QED
    BY <2>1, <2>2 DEF NewJournal, NoJournal, Journal
<1>4. Rest = Durable(file) /\ Rest' = Rest
  BY <1>1, <1>2 DEF Files, LinkOK, Rest
<1>5. Brings(jrnl', Rest, file)
  <2>1. Len(jrnl'.recs) = 0 /\ DOMAIN jrnl'.recs = {} /\ file.size \in Nat
    BY <1>2, <1>3 DEF File
  <2>2. Rest.size = {file.size} /\ \A i \in Page : Rest.page[i] = {file.page[i]}
    BY <1>4 DEF Durable
  <2> QED
    BY <1>3, <1>4, <2>1, <2>2 DEF Brings
<1>6. Content' = file
  BY <1>1, <1>2, <1>3, <1>5, NextContent
<1> QED
  BY <1>1, <1>2, <1>3, <1>4, <1>5, <1>6 DEF Files, JournalOK, LinkOK, GhostsOK

\* The journal changes, the files and the names of journals do not.
LEMMA JournalWritten ==
  ASSUME Types, Files, jrnl # NoJournal, jrnl' \in Journal, jrnl' # NoJournal,
         Brings(jrnl', Rest, Content), UNCHANGED <<fileVars, linked, ghosts, before>>
  PROVE  Files' /\ Content' = Content
<1>1. /\ file' = file /\ disk' = disk /\ linked' = linked /\ ghosts' = ghosts /\ before' = before
  BY DEF fileVars
<1>2. Content' = Content
  BY <1>1, ContentTyped, NextContent
<1>3. Rest' = Rest
  BY <1>1 DEF Rest
<1> QED
  BY <1>1, <1>2, <1>3 DEF Files, JournalOK, LinkOK, GhostsOK

\* The original of another page goes to the journal; the headers do not count it.
LEMMA RecordAdded ==
  ASSUME Types, Files, jrnl # NoJournal, NEW i \in Page, i <= jrnl.size, i \notin Recorded,
         jrnl' = [jrnl EXCEPT !.recs = Append(jrnl.recs, [pg |-> i, val |-> Content.page[i]])],
         UNCHANGED <<fileVars, linked, ghosts, before>>
  PROVE  /\ Files' /\ Content' = Content /\ jrnl' \in Journal /\ jrnl' # NoJournal
         /\ jrnl'.size = jrnl.size /\ jrnl'.count = jrnl.count /\ jrnl'.may = jrnl.may
         /\ Len(jrnl'.recs) = Len(jrnl.recs) + 1 /\ Recorded' = Recorded \union {i}
         /\ \A k \in DOMAIN jrnl'.recs :
              jrnl'.recs[k].val = Junk => k \in DOMAIN jrnl.recs /\ jrnl.recs[k].val = Junk
         /\ \A l \in Page : Synced(l) => Synced(l)'
<1> DEFINE n == Len(jrnl.recs)
           x == [pg |-> i, val |-> Content.page[i]]
<1>1. /\ jrnl \in Journal /\ Brings(jrnl, Rest, Content) /\ Content \in File
      /\ jrnl.recs \in Seq(Record) /\ n \in Nat /\ DOMAIN jrnl.recs = 1..n
      /\ jrnl.count \in Nat \union {Junk} /\ jrnl.may \subseteq Nat \union {Junk} /\ jrnl.synced \in Nat
      /\ \A k \in DOMAIN jrnl.recs : k \in Nat /\ k >= 1
  BY ContentTyped, JournalTyped
<1>2. Content.page[i] \in Val /\ x \in Record /\ Content.page[i] # Junk
  BY <1>1, Numbers DEF File, Record
<1>3. /\ jrnl'.size = jrnl.size /\ jrnl'.count = jrnl.count /\ jrnl'.may = jrnl.may
      /\ jrnl'.synced = jrnl.synced /\ jrnl'.recs = Append(jrnl.recs, x)
      /\ jrnl' = [size |-> jrnl.size, recs |-> Append(jrnl.recs, x), count |-> jrnl.count,
                  may |-> jrnl.may, synced |-> jrnl.synced]
  BY <1>1 DEF Journal
<1> HIDE DEF x
<1>4. /\ jrnl'.recs \in Seq(Record) /\ Len(jrnl'.recs) = n + 1 /\ DOMAIN jrnl'.recs = 1..n + 1
      /\ \A k \in 1..n : jrnl'.recs[k] = jrnl.recs[k]
      /\ jrnl'.recs[n + 1] = x
  BY <1>1, <1>2, <1>3
<1>5. x.pg = i /\ x.val = Content.page[i]
  BY DEF x
<1>6. jrnl' \in Journal /\ jrnl' # NoJournal
  <2>1. jrnl' \in Journal
    BY <1>1, <1>3, <1>4, JournalTyped DEF Journal
  <2>2. jrnl'.recs # <<>>
    BY <1>1, <1>4
  <2> QED
    BY <2>1, <2>2 DEF NoJournal
<1>7. ASSUME NEW k \in 1..n
      PROVE  Restores(jrnl', k) <=> Restores(jrnl, k)
  BY <1>1, <1>3, <1>4 DEF Restores
<1>8. \A k \in 1..n : Kept(jrnl, k) => Kept(jrnl', k)
  BY <1>3, <1>7 DEF Kept
<1>9. \A k \in 1..n : jrnl.recs[k].pg # i
  BY <1>1 DEF Recorded
<1>10. \A k, l \in 1..n + 1 : jrnl'.recs[k].pg = jrnl'.recs[l].pg => k = l
  <2>1. \A k \in 1..n + 1 : k \in 1..n \/ k = n + 1
    BY <1>1
  <2>2. \A k, l \in 1..n : jrnl.recs[k].pg = jrnl.recs[l].pg => k = l
    BY <1>1 DEF Brings
  <2> QED
    BY <1>4, <1>5, <1>9, <2>1, <2>2
<1>11. Brings(jrnl', Rest, Content)
  <2>1. \A m \in jrnl'.may : m <= Len(jrnl'.recs)
    BY <1>1, <1>3, <1>4 DEF Brings
  <2>2. \A k \in DOMAIN jrnl'.recs :
          jrnl'.recs[k].pg <= jrnl'.size /\ jrnl'.recs[k].val \in {Junk, Content.page[jrnl'.recs[k].pg]}
    BY <1>1, <1>3, <1>4, <1>5 DEF Brings
  <2>3. \A l \in Page : l <= jrnl'.size =>
          \/ Rest.page[l] = {Content.page[l]}
          \/ \E k \in DOMAIN jrnl'.recs : Kept(jrnl', k) /\ jrnl'.recs[k].pg = l
    <3> SUFFICES ASSUME NEW l \in Page, l <= jrnl.size, Rest.page[l] # {Content.page[l]}
                 PROVE  \E k \in DOMAIN jrnl'.recs : Kept(jrnl', k) /\ jrnl'.recs[k].pg = l
      BY <1>3
    <3>1. PICK k \in 1..n : Kept(jrnl, k) /\ jrnl.recs[k].pg = l
      BY <1>1 DEF Brings
    <3>2. k \in DOMAIN jrnl'.recs
      BY <1>1, <1>4, <3>1
    <3>3. Kept(jrnl', k)
      BY <1>8, <3>1
    <3>4. jrnl'.recs[k].pg = l
      BY <1>4, <3>1
    <3> QED
      BY <3>2, <3>3, <3>4
  <2> QED
    BY <1>1, <1>3, <1>4, <1>10, <2>1, <2>2, <2>3 DEF Brings
<1>12. Files' /\ Content' = Content
  BY <1>6, <1>11, JournalWritten
<1>13. Recorded' = Recorded \union {i}
  BY <1>1, <1>4, <1>5 DEF Recorded
<1>14. ASSUME NEW l \in Page, Synced(l)
       PROVE  Synced(l)'
  <2>1. PICK k \in 1..n : Kept(jrnl, k) /\ jrnl.recs[k].pg = l
    BY <1>1, <1>14 DEF Synced
  <2>2. k \in DOMAIN jrnl'.recs
    BY <1>1, <1>4, <2>1
  <2>3. Kept(jrnl', k)
    BY <1>8, <2>1
  <2>4. jrnl'.recs[k].pg = l
    BY <1>4, <2>1
  <2> QED
    BY <2>2, <2>3, <2>4 DEF Synced
<1>15. \A k \in DOMAIN jrnl'.recs :
         jrnl'.recs[k].val = Junk => k \in DOMAIN jrnl.recs /\ jrnl.recs[k].val = Junk
  BY <1>1, <1>2, <1>4, <1>5
<1> QED
  BY <1>3, <1>4, <1>6, <1>12, <1>13, <1>14, <1>15

\* The headers count all records.
LEMMA CountWritten ==
  ASSUME Types, Files, jrnl # NoJournal, \A k \in DOMAIN jrnl.recs : jrnl.recs[k].val # Junk,
         jrnl' = [jrnl EXCEPT !.count = Len(jrnl.recs), !.may = jrnl.may \union {Len(jrnl.recs)}],
         UNCHANGED <<fileVars, linked, ghosts, before>>
  PROVE  /\ Files' /\ Content' = Content /\ jrnl' \in Journal /\ jrnl' # NoJournal
         /\ jrnl'.size = jrnl.size /\ jrnl'.count = Len(jrnl.recs) /\ jrnl'.recs = jrnl.recs
         /\ Junk \in jrnl'.may => Junk \in jrnl.may
         /\ \A l \in Page : Synced(l) => Synced(l)'
<1> DEFINE n == Len(jrnl.recs)
<1>1. /\ jrnl \in Journal /\ Brings(jrnl, Rest, Content) /\ Content \in File
      /\ jrnl.recs \in Seq(Record) /\ n \in Nat /\ DOMAIN jrnl.recs = 1..n
      /\ jrnl.may \subseteq Nat \union {Junk} /\ jrnl.synced \in Nat
  BY ContentTyped, JournalTyped
<1>2. /\ jrnl'.size = jrnl.size /\ jrnl'.count = n /\ jrnl'.may = jrnl.may \union {n}
      /\ jrnl'.synced = jrnl.synced /\ jrnl'.recs = jrnl.recs
      /\ jrnl' = [size |-> jrnl.size, recs |-> jrnl.recs, count |-> n,
                  may |-> jrnl.may \union {n}, synced |-> jrnl.synced]
  BY <1>1 DEF Journal
<1>3. jrnl' \in Journal /\ jrnl' # NoJournal
  <2>1. jrnl' \in Journal
    BY <1>1, <1>2, JournalTyped DEF Journal
  <2>2. jrnl'.count # Junk
    BY <1>1, <1>2
  <2> QED
    BY <2>1, <2>2 DEF NoJournal
<1>4. ASSUME NEW k \in DOMAIN jrnl.recs, Kept(jrnl, k)
      PROVE  Kept(jrnl', k)
  <2>1. \A m \in 1..k : m \in DOMAIN jrnl.recs
    BY <1>1
  <2>2. Restores(jrnl', k)
    BY <1>1, <1>2, <2>1 DEF Restores
  <2> QED
    BY <1>1, <1>2, <1>4, <2>2 DEF Kept
<1>5. Brings(jrnl', Rest, Content)
  <2>1. /\ jrnl'.count \in jrnl'.may /\ \A m \in jrnl'.may : m <= n
        /\ Junk \in jrnl'.may => Junk \in jrnl.may
    BY <1>1, <1>2 DEF Brings
  <2> QED
    BY <1>1, <1>2, <1>4, <2>1 DEF Brings
<1>6. Files' /\ Content' = Content
  BY <1>3, <1>5, JournalWritten
<1>7. Junk \in jrnl'.may => Junk \in jrnl.may
  BY <1>1, <1>2
<1>8. \A l \in Page : Synced(l) => Synced(l)'
  BY <1>2, <1>4 DEF Synced
<1> QED
  BY <1>2, <1>3, <1>6, <1>7, <1>8

\* The journal is synced.
LEMMA JournalSynced ==
  ASSUME Risks = {}, Types, Files, jrnl # NoJournal, SyncJournalFile, before' = before
  PROVE  /\ Files' /\ Content' = Content /\ jrnl' \in Journal /\ jrnl' # NoJournal
         /\ file' = file /\ disk' \in Disk /\ linked' = TRUE /\ ghosts' = <<>>
         /\ jrnl'.size = jrnl.size /\ jrnl'.count = jrnl.count /\ jrnl'.recs = jrnl.recs
         /\ jrnl'.may = {jrnl.count}
         /\ \A l \in Page : Synced(l) => Synced(l)'
         /\ (jrnl.count = Len(jrnl.recs) /\ \A k \in DOMAIN jrnl.recs : jrnl.recs[k].val # Junk) =>
              \A l \in Recorded : Synced(l)'
<1> DEFINE n == Len(jrnl.recs)
<1>1. /\ jrnl \in Journal /\ Brings(jrnl, Rest, Content) /\ Content \in File /\ file \in File
      /\ jrnl.recs \in Seq(Record) /\ n \in Nat /\ DOMAIN jrnl.recs = 1..n
      /\ jrnl.count \in jrnl.may /\ jrnl.may \subseteq Nat \union {Junk} /\ jrnl.synced \in Nat
      /\ MayBe(file, disk) /\ Zeroed(file) /\ Zeroed(Content) /\ ZeroedOn(disk) /\ disk \in Disk
      /\ Rest \in Disk /\ MayBe(file, Rest)
  BY ContentTyped, JournalTyped DEF Files, Brings
<1>2. /\ jrnl'.size = jrnl.size /\ jrnl'.count = jrnl.count /\ jrnl'.may = {jrnl.count}
      /\ jrnl'.synced = n /\ jrnl'.recs = jrnl.recs
      /\ jrnl' = [size |-> jrnl.size, recs |-> jrnl.recs, count |-> jrnl.count,
                  may |-> {jrnl.count}, synced |-> n]
      /\ linked' = TRUE /\ ghosts' = <<>> /\ file' = file
  BY <1>1 DEF Journal, SyncJournalFile
<1>3. jrnl' \in Journal /\ jrnl' # NoJournal
  <2>1. jrnl' \in Journal
    BY <1>1, <1>2, JournalTyped DEF Journal
  <2>2. jrnl'.may # {}
    BY <1>2
  <2> QED
    BY <2>1, <2>2 DEF NoJournal
<1>4. disk' = Rest
  BY DEF SyncJournalFile, Rest
<1>5. ASSUME NEW k \in DOMAIN jrnl.recs, Kept(jrnl, k)
      PROVE  Kept(jrnl', k)
  <2>1. k <= n /\ Restores(jrnl', k)
    BY <1>1, <1>2, <1>5 DEF Kept, Restores
  <2> QED
    BY <1>1, <1>2, <1>5, <2>1 DEF Kept
<1>6. Brings(jrnl', Rest, Content)
  <2>1. Junk \in jrnl'.may => Junk \in jrnl.may
    BY <1>1, <1>2
  <2> QED
    BY <1>1, <1>2, <1>5, <2>1 DEF Brings
<1>7. Content' = Content
  BY <1>1, <1>2, <1>3, <1>6, NextContent
<1>8. ZeroedOn(Rest)
  BY <1>1, DurableFile DEF Rest
<1>9. Rest' = disk'
  BY <1>2 DEF Rest
<1>10. Files'
  BY <1>1, <1>2, <1>3, <1>4, <1>6, <1>7, <1>8, <1>9 DEF Files, JournalOK, LinkOK, GhostsOK
<1>11. \A l \in Page : Synced(l) => Synced(l)'
  BY <1>2, <1>5 DEF Synced
<1>12. ASSUME jrnl.count = n, \A k \in DOMAIN jrnl.recs : jrnl.recs[k].val # Junk, NEW l \in Recorded
       PROVE  Synced(l)'
  <2>1. PICK k \in DOMAIN jrnl.recs : jrnl.recs[k].pg = l
    BY DEF Recorded
  <2>2. k <= n /\ \A m \in 1..k : m \in DOMAIN jrnl.recs
    BY <1>1, <2>1
  <2>3. Kept(jrnl', k)
    BY <1>1, <1>2, <1>12, <2>1, <2>2 DEF Kept, Restores
  <2> QED
    BY <1>2, <2>1, <2>3 DEF Synced
<1> QED
  BY <1>1, <1>2, <1>3, <1>4, <1>7, <1>10, <1>11, <1>12

-----------------------------------------------------------------------------
(* Steps of another process.                                                *)

\* The fields of a Pager.
LEMMA HandleTyped ==
  ASSUME Types, NEW p \in Proc
  PROVE  /\ h[p] \in Handle
         /\ h[p].cache \in Cache /\ h[p].dbSize \in -1..MaxPage /\ h[p].orig \in 0..MaxPage
         /\ h[p].inJournal \subseteq Page /\ h[p].hdr \in Nat /\ h[p].nRec \in Nat
         /\ h[p].needSync \in BOOLEAN /\ h[p].started \in BOOLEAN /\ h[p].dirtyCache \in BOOLEAN
         /\ h[p].want \in 0..MaxPage /\ h[p].victim \in 0..MaxPage
         /\ h[p].played \in Nat /\ h[p].tx \in Val
         /\ h[p].state \in {NO_LOCK, SHARED, RESERVED, EXCLUSIVE, SYNCED}
         /\ h[p].lock \in {NO_LOCK, SHARED, RESERVED, PENDING, EXCLUSIVE}
         /\ h[p].resv \in BOOLEAN /\ h[p].misled \in BOOLEAN
<1>1. h[p] \in Handle
  BY DEF Types
<1> QED
  BY <1>1 DEF Handle

\* What an element of a cache is.
LEMMA CacheTyped ==
  ASSUME NEW c \in Cache
  PROVE  /\ DOMAIN c \subseteq Page
         /\ \A i \in DOMAIN c :
              /\ c[i] \in Entry /\ c[i].val \in Val /\ c[i].dirty \in BOOLEAN
              /\ c[i].needSync \in BOOLEAN /\ c[i].inJournal \in BOOLEAN
<1>1. PICK S \in SUBSET Page : c \in [S -> Entry]
  BY DEF Cache
<1> QED
  BY <1>1 DEF Entry

\* What is defined page by page is a cache.
LEMMA CacheMade ==
  ASSUME NEW S \in SUBSET Page, NEW c \in [S -> Entry]
  PROVE  c \in Cache
BY DEF Cache

\* A Pager before its first page is read.
LEMMA UnopenedTyped == Unopened \in Handle
<1>1. <<>> \in [{} -> Entry]
  OBVIOUS
<1>2. <<>> \in Cache
  BY <1>1, CacheMade
<1>3. MaxPage \in Nat /\ 0 \in Val
  BY Numbers
<1> QED
  BY <1>2, <1>3 DEF Unopened, Handle

\* The fields of a Pager that is not in use.
LEMMA OutsideFields ==
  ASSUME NEW r, Outside(r)
  PROVE  /\ r.pc = "out" /\ r.state = NO_LOCK /\ r.lock = NO_LOCK /\ ~r.resv /\ r.cache = <<>>
         /\ r.orig = 0 /\ r.inJournal = {} /\ ~r.needSync /\ r.job = "none" /\ r.tx = 0
         /\ r.misled = FALSE /\ r.dbSize # 0
<1> DEFINE d == r.dbSize
<1>1. r = [Unopened EXCEPT !.dbSize = d] /\ d # 0
  BY DEF Outside
<1> HIDE DEF d
<1> QED
  BY <1>1 DEF Unopened

\* It may remember any size but 0.
LEMMA OutsideMade ==
  ASSUME NEW d \in -1..MaxPage, d # 0
  PROVE  /\ Outside([Unopened EXCEPT !.dbSize = d])
         /\ [Unopened EXCEPT !.dbSize = d] \in Handle
<1>1. [Unopened EXCEPT !.dbSize = d].dbSize = d
  BY DEF Unopened
<1>2. [Unopened EXCEPT !.dbSize = d] \in Handle
  BY UnopenedTyped DEF Handle
<1> QED
  BY <1>1, <1>2 DEF Outside

LEMMA UnopenedOutside == Outside(Unopened)
BY DEF Outside, Unopened

\* Nothing is asked of a process that has no file open.
LEMMA ProcessOut ==
  \A p \in Proc : Outside(h[p]) => Process(p)
<1> SUFFICES ASSUME NEW p \in Proc, Outside(h[p])
             PROVE  Process(p)
  OBVIOUS
<1>1. /\ h[p].pc = "out" /\ h[p].tx = 0 /\ h[p].lock = NO_LOCK /\ h[p].job = "none"
      /\ h[p].state = NO_LOCK
  BY OutsideFields
<1>2. Levels(p)
  BY <1>1 DEF Levels, Opening, Syncing, Writing, Undoing
<1>3. OpeningOK(p) /\ ReadingOK(p) /\ OwnJournal(p) /\ ChangesOK(p) /\ Open(p) = FALSE
  BY <1>1 DEF OpeningOK, ReadingOK, OwnJournal, ChangesOK, Open, Opening, Undoing
<1>4. CallOK(p) /\ UndoingOK(p) /\ CommittedOK(p)
  BY <1>1 DEF CallOK, UndoingOK, CommittedOK, Syncing, Writing, Undoing
<1> QED
  BY <1>2, <1>3, <1>4 DEF Process

\* The same of the next state.
LEMMA ProcessOutNext ==
  \A p \in Proc : Outside(h'[p]) => Process(p)'
<1>1. (\A p \in Proc : Outside(h[p]) => Process(p))'
  BY ProcessOut, PTL
<1> QED
  BY <1>1

\* A step that leaves the files and h[p] alone does not concern p.
LEMMA ProcessKept ==
  ASSUME NEW p \in Proc, Process(p), UNCHANGED <<fileVars, jrnlVars>>, h'[p] = h[p]
  PROVE  Process(p)'
<1>1. /\ file' = file /\ disk' = disk /\ jrnl' = jrnl /\ linked' = linked /\ h'[p] = h[p]
      /\ Content' = Content
  BY DEF fileVars, jrnlVars, Content
<1>2. Levels(p)' /\ OpeningOK(p)' /\ ReadingOK(p)' /\ OwnJournal(p)' /\ CommittedOK(p)' /\ UndoingOK(p)'
  <2>1. Levels(p)'
    BY <1>1 DEF Process, Levels
  <2>2. OpeningOK(p)' /\ ReadingOK(p)' /\ CommittedOK(p)'
    BY <1>1 DEF Process, OpeningOK, ReadingOK, Cached, CommittedOK
  <2>3. OwnJournal(p)' /\ UndoingOK(p)'
    BY <1>1 DEF Process, OwnJournal, UndoingOK, Open, Undone
  <2> QED
    BY <2>1, <2>2, <2>3
<1>3. Changed(p)' = Changed(p) /\ Recorded' = Recorded /\ \A i : Synced(i)' <=> Synced(i)
  BY <1>1 DEF Changed, PageCount, Recorded, Synced
<1>4. ASSUME NEW i \in Page, PageOK(p, i)
      PROVE  PageOK(p, i)'
  BY <1>1, <1>3, <1>4 DEF PageOK
<1>5. ChangesOK(p)' /\ CallOK(p)'
  BY <1>1, <1>3, <1>4 DEF Process, ChangesOK, CallOK, Open
<1> QED
  BY <1>2, <1>5 DEF Process

\* A process without a transaction only minds that the file stays as it is.
LEMMA ReaderKept ==
  ASSUME NEW p \in Proc, Process(p), h[p].tx = 0, h[p].pc \notin Undoing \union {"unlock"},
         file' = file, Content' \in {Content, file}, h'[p] = h[p]
  PROVE  Process(p)'
<1>1. Levels(p)'
  BY DEF Process, Levels
<1>2. OpeningOK(p)' /\ ReadingOK(p)'
  BY DEF Process, OpeningOK, ReadingOK, Cached
<1>3. h[p].pc \notin Syncing \union Writing /\ h[p].pc \notin {"trunc", "play", "unlock"}
  BY DEF Process, Levels, Undoing
<1>4. OwnJournal(p)' /\ ChangesOK(p)' /\ UndoingOK(p)' /\ CommittedOK(p)'
  BY <1>3 DEF OwnJournal, ChangesOK, UndoingOK, CommittedOK, Open, Undoing
<1>5. CallOK(p)'
  BY <1>3 DEF CallOK, Syncing, Writing
<1> QED
  BY <1>1, <1>2, <1>4, <1>5 DEF Process

\* Nobody else has the file open beside an exclusive lock.
LEMMA Alone ==
  ASSUME IInv, NEW p \in Proc, h[p].lock = EXCLUSIVE
  PROVE  \A q \in Others(p) : h[q].pc = "out"
BY DEF IInv, Exclusion, Process, Levels, Others

\* A process is not reserved without a transaction, except before its journal exists.
LEMMA ReservedOK ==
  ASSUME IInv, NEW p \in Proc, h[p].resv
  PROVE  h[p].pc = "create" \/ h[p].tx # 0
<1>1. h[p] \in Handle /\ Levels(p)
  BY HandleTyped DEF IInv, Process
<1> QED
  BY <1>1, OutsideFields DEF Levels, Handle, Opening, Syncing, Writing, Undoing

\* Beside a reserved process there are readers.
LEMMA BesideReserved ==
  ASSUME IInv, NEW p \in Proc, NEW q \in Proc, p # q, h[p].resv
  PROVE  h[q].tx = 0 /\ h[q].pc \notin Undoing \union {"unlock"}
<1>1. ~h[q].resv /\ (h[q].lock = EXCLUSIVE => h[p].lock = NO_LOCK)
  BY DEF IInv, Exclusion
<1>2. h[p].lock # NO_LOCK
  BY OutsideFields DEF IInv, Process, Levels
<1>3. Levels(q)
  BY DEF IInv, Process
<1> QED
  BY <1>1, <1>2, <1>3 DEF Levels

\* A step of p on nothing but its Pager.
LEMMA CallStep ==
  ASSUME IInv, NEW p \in Proc, NEW r \in Handle,
         h' = [h EXCEPT ![p] = r], UNCHANGED <<fileVars, jrnlVars, histVars, fullSync>>,
         faults' \in Nat, clock + faults' <= MaxTx + 1,
         \A q \in Others(p) : /\ r.lock = EXCLUSIVE => h[q].lock = NO_LOCK
                              /\ h[q].lock = EXCLUSIVE => r.lock = NO_LOCK
                              /\ r.resv => ~h[q].resv
                              /\ file.size = 0 => r.pc = "out" \/ h[q].pc = "out",
         Process(p)'
  PROVE  IInv'
<1>1. /\ file' = file /\ disk' = disk /\ jrnl' = jrnl /\ linked' = linked /\ ghosts' = ghosts
      /\ clock' = clock /\ before' = before /\ fullSync' = fullSync
      /\ h \in [Proc -> Handle] /\ h'[p] = r /\ \A q \in Others(p) : h'[q] = h[q]
  BY DEF fileVars, jrnlVars, histVars, IInv, Types, Others
<1>2. h' \in [Proc -> Handle]
  BY <1>1
<1>3. Types'
  BY <1>1, <1>2 DEF IInv, Types
<1>4. Files'
  BY <1>1, FilesKept DEF IInv, fileVars, jrnlVars
<1>5. ASSUME NEW q \in Proc, NEW s \in Proc, q # s
      PROVE  /\ h'[q].lock = EXCLUSIVE => h'[s].lock = NO_LOCK
             /\ ~(h'[q].resv /\ h'[s].resv)
             /\ file'.size = 0 => h'[q].pc = "out" \/ h'[s].pc = "out"
  <2>1. CASE q = p
    BY <1>1, <1>5, <2>1 DEF Others
  <2>2. CASE s = p
    BY <1>1, <1>5, <2>2 DEF Others
  <2>3. CASE q # p /\ s # p
    <3>1. h'[q] = h[q] /\ h'[s] = h[s]
      BY <1>1, <2>3 DEF Others
    <3> QED
      BY <1>1, <1>5, <3>1 DEF IInv, Exclusion
  <2> QED
    BY <2>1, <2>2, <2>3
<1>6. Exclusion'
  BY <1>5 DEF Exclusion
<1>7. ASSUME NEW q \in Proc, q # p
      PROVE  Process(q)'
  BY <1>1, <1>7, ProcessKept DEF IInv, Others, fileVars, jrnlVars
<1> QED
  BY <1>3, <1>4, <1>6, <1>7 DEF IInv

\* A step of p on the files: either nobody else has the file open, or p is reserved and
\* the file stays as it is.
LEMMA FileStep ==
  ASSUME IInv, NEW p \in Proc, NEW r \in Handle,
         h' = [h EXCEPT ![p] = r], UNCHANGED <<faults, fullSync>>,
         Files', file' \in File, disk' \in Disk, jrnl' \in Journal, linked' \in BOOLEAN,
         ghosts' \in Seq(Journal), clock' \in 1..(MaxTx + 1), before' \in File,
         clock' + faults <= MaxTx + 1,
         r.lock = h[p].lock, r.resv = h[p].resv, h[p].pc # "out",
         \/ \A q \in Others(p) : h[q].pc = "out"
         \/ h[p].resv /\ file' = file /\ Content' \in {Content, file},
         Process(p)'
  PROVE  IInv'
<1>1. /\ h \in [Proc -> Handle] /\ h'[p] = r /\ \A q \in Others(p) : h'[q] = h[q]
      /\ faults \in Nat
  BY DEF IInv, Types, Others
<1>2. h' \in [Proc -> Handle]
  BY <1>1
<1>3. Types'
  BY <1>1, <1>2 DEF IInv, Types
<1>4. \A q \in Proc : h[q].pc = "out" => h[q].lock = NO_LOCK /\ Outside(h[q]) /\ ~h[q].resv
  BY OutsideFields DEF IInv, Process, Levels
<1>5. h[p].lock # NO_LOCK
  BY DEF IInv, Process, Levels
<1>6. CASE \A q \in Others(p) : h[q].pc = "out"
  <2>1. \A q \in Others(p) : h'[q].lock = NO_LOCK /\ Outside(h'[q]) /\ ~h'[q].resv /\ h'[q].pc = "out"
    BY <1>1, <1>4, <1>6 DEF Others
  <2>2. ASSUME NEW q \in Proc, NEW s \in Proc, q # s
        PROVE  /\ h'[q].lock = EXCLUSIVE => h'[s].lock = NO_LOCK
               /\ ~(h'[q].resv /\ h'[s].resv)
               /\ file'.size = 0 => h'[q].pc = "out" \/ h'[s].pc = "out"
    <3>1. q \in Others(p) \/ s \in Others(p)
      BY <2>2 DEF Others
    <3>2. CASE s \in Others(p)
      BY <2>1, <3>2
    <3>3. CASE q \in Others(p)
      BY <2>1, <3>3
    <3> QED
      BY <3>1, <3>2, <3>3
  <2>3. Exclusion'
    BY <2>2 DEF Exclusion
  <2>4. \A q \in Others(p) : Process(q)'
    BY <2>1, ProcessOutNext DEF Others
  <2> QED
    BY <1>3, <2>3, <2>4 DEF IInv, Others
<1>7. CASE h[p].resv /\ file' = file /\ Content' \in {Content, file}
  <2>1. ASSUME NEW q \in Proc, NEW s \in Proc, q # s
        PROVE  /\ h'[q].lock = EXCLUSIVE => h'[s].lock = NO_LOCK
               /\ ~(h'[q].resv /\ h'[s].resv)
               /\ file'.size = 0 => h'[q].pc = "out" \/ h'[s].pc = "out"
    <3>1. \A t \in Proc : h'[t].lock = h[t].lock /\ h'[t].resv = h[t].resv
      BY <1>1 DEF Others
    <3>2. /\ h[q].lock = EXCLUSIVE => h[s].lock = NO_LOCK
          /\ ~(h[q].resv /\ h[s].resv)
          /\ file.size = 0 => h[q].pc = "out" \/ h[s].pc = "out"
      BY <2>1 DEF IInv, Exclusion
    <3>3. \A t \in Proc : h[t].pc = "out" => h'[t].pc = "out"
      BY <1>1 DEF Others
    <3> QED
      BY <1>7, <3>1, <3>2, <3>3
  <2>2. Exclusion'
    BY <2>1 DEF Exclusion
  <2>3. ASSUME NEW q \in Proc, q # p
        PROVE  Process(q)'
    <3>1. h[q].tx = 0 /\ h[q].pc \notin Undoing \union {"unlock"} /\ h'[q] = h[q]
      BY <1>1, <1>7, <2>3, BesideReserved DEF Others
    <3> QED
      BY <1>7, <3>1, ReaderKept DEF IInv
  <2> QED
    BY <1>3, <2>2, <2>3 DEF IInv
<1> QED
  BY <1>6, <1>7

-----------------------------------------------------------------------------
(* sqlite3pager_get of the first page.                                      *)

\* What a step on the Pager of p alone may take for granted.
LEMMA CallTyped ==
  ASSUME IInv, NEW p \in Proc
  PROVE  /\ Types /\ Files /\ Exclusion /\ Process(p) /\ h \in [Proc -> Handle]
         /\ faults \in Nat /\ clock \in Nat /\ clock + faults <= MaxTx + 1
         /\ \A q \in Others(p) : q \in Proc /\ q # p
BY DEF IInv, Types, Others

\* A process that has not read page 1 yet.
LEMMA ProcessOpens ==
  ASSUME NEW p \in Proc, NEW r, h'[p] = r,
         r.pc \in Opening \union {"first"}, r.lock = SHARED, r.state = SHARED, ~r.resv,
         r.tx = 0, r.job = "none", DOMAIN r.cache = {}, r.orig = 0, r.inJournal = {}, ~r.needSync,
         r.pc \in {"exists", "reserved"} => r.dbSize # 0,
         r.pc = "hot" => r.dbSize > 0,
         r.pc = "stale" => file'.size = 0,
         r.pc = "first" => file' = Content'
  PROVE  Process(p)'
<1>1. Levels(p)'
  BY DEF Levels, Opening, Syncing, Writing, Undoing
<1>2. OpeningOK(p)'
  BY DEF OpeningOK, Opening
<1>3. ReadingOK(p)' /\ OwnJournal(p)' /\ ChangesOK(p)' /\ CommittedOK(p)'
  BY DEF ReadingOK, OwnJournal, ChangesOK, CommittedOK, Open, Opening, Undoing
<1>4. CallOK(p)' /\ UndoingOK(p)'
  BY DEF CallOK, UndoingOK, Opening, Syncing, Writing, Undoing
<1> QED
  BY <1>1, <1>2, <1>3, <1>4 DEF Process

\* A process that reads, or is about to create a journal.
LEMMA ProcessReads ==
  ASSUME NEW p \in Proc, NEW r, h'[p] = r, r.tx = 0, r.job = "none",
         \/ r.pc = "idle" /\ r.lock = SHARED /\ r.state = SHARED /\ ~r.resv
         \/ r.pc = "create" /\ r.lock = RESERVED /\ r.state = RESERVED /\ r.resv,
         ReadingOK(p)'
  PROVE  Process(p)'
<1>1. Levels(p)'
  BY DEF Levels, Opening, Syncing, Writing, Undoing
<1>2. OpeningOK(p)' /\ OwnJournal(p)' /\ ChangesOK(p)' /\ CommittedOK(p)'
  BY DEF OpeningOK, OwnJournal, ChangesOK, CommittedOK, Open, Opening, Undoing
<1>3. CallOK(p)' /\ UndoingOK(p)'
  BY DEF CallOK, UndoingOK, Syncing, Writing, Undoing
<1> QED
  BY <1>1, <1>2, <1>3 DEF Process

\* The first lock: nobody is PENDING, so nobody writes.
LEMMA StepLockShared ==
  ASSUME Risks = {}, IInv, NEW p \in Proc, LockShared(p)
  PROVE  IInv'
<1> DEFINE r == [h[p] EXCEPT !.pc = "exists", !.lock = SHARED, !.state = SHARED]
<1>1. Outside(h[p]) /\ h \in [Proc -> Handle] /\ h[p] \in Handle
  BY CallTyped, HandleTyped DEF LockShared, Process, Levels
<1>2. h' = [h EXCEPT ![p] = r] /\ h'[p] = r
  BY <1>1 DEF LockShared
<1>3. r \in Handle
  BY <1>1 DEF Handle, Opening
<1>4. /\ r.pc = "exists" /\ r.lock = SHARED /\ r.state = SHARED /\ r.resv = FALSE /\ r.tx = 0
      /\ r.cache = <<>> /\ r.dbSize # 0 /\ r.orig = 0 /\ r.inJournal = {} /\ r.needSync = FALSE
      /\ r.job = "none"
  BY <1>1, OutsideFields DEF Handle
<1> HIDE DEF r
<1>5. Process(p)'
  BY <1>2, <1>4, ProcessOpens DEF Opening
<1>6. UNCHANGED <<fileVars, jrnlVars, histVars, fullSync>> /\ faults' = faults
  BY DEF LockShared
<1>7. \A q \in Others(p) : /\ r.lock = EXCLUSIVE => h[q].lock = NO_LOCK
                           /\ h[q].lock = EXCLUSIVE => r.lock = NO_LOCK
                           /\ r.resv => ~h[q].resv
                           /\ file.size = 0 => r.pc = "out" \/ h[q].pc = "out"
  BY <1>1, <1>4, OutsideFields DEF LockShared
<1> QED
  BY <1>2, <1>3, <1>5, <1>6, <1>7, CallTyped, CallStep

\* p goes on to wait for, or to do, something else, and no file or lock changes.
LEMMA SameLocks ==
  ASSUME IInv, NEW p \in Proc, h[p].pc # "out", NEW r \in Handle,
         h' = [h EXCEPT ![p] = r], UNCHANGED <<fileVars, jrnlVars, histVars, faults, fullSync>>,
         r.lock = h[p].lock \/ (r.lock < EXCLUSIVE /\ h[p].lock # NO_LOCK),
         r.resv = h[p].resv \/ ~r.resv,
         Process(p)'
  PROVE  IInv'
<1>1. \A q \in Others(p) : /\ r.lock = EXCLUSIVE => h[q].lock = NO_LOCK
                           /\ h[q].lock = EXCLUSIVE => r.lock = NO_LOCK
                           /\ r.resv => ~h[q].resv
                           /\ file.size = 0 => r.pc = "out" \/ h[q].pc = "out"
  <2> SUFFICES ASSUME NEW q \in Others(p)
               PROVE  /\ r.lock = EXCLUSIVE => h[q].lock = NO_LOCK
                      /\ h[q].lock = EXCLUSIVE => r.lock = NO_LOCK
                      /\ r.resv => ~h[q].resv
                      /\ file.size = 0 => r.pc = "out" \/ h[q].pc = "out"
    OBVIOUS
  <2>1. q \in Proc /\ q # p
    BY DEF Others
  <2>2. /\ h[p].lock = EXCLUSIVE => h[q].lock = NO_LOCK
        /\ h[q].lock = EXCLUSIVE => h[p].lock = NO_LOCK
        /\ ~(h[p].resv /\ h[q].resv)
        /\ file.size = 0 => h[p].pc = "out" \/ h[q].pc = "out"
    BY <2>1 DEF IInv, Exclusion
  <2>3. h[p].lock # NO_LOCK
    BY DEF IInv, Process, Levels
  <2>4. r.lock \in {NO_LOCK, SHARED, RESERVED, PENDING, EXCLUSIVE} /\ r.resv \in BOOLEAN /\ h[p].resv \in BOOLEAN
    BY HandleTyped DEF Handle, IInv
  <2> QED
    BY <2>2, <2>3, <2>4
<1> QED
  BY <1>1, CallTyped, CallStep

\* A process may leave its Pager at any time.
LEMMA StepAway ==
  ASSUME IInv, NEW p \in Proc, NEW r \in Handle, Outside(r), h' = [h EXCEPT ![p] = r],
         UNCHANGED <<fileVars, jrnlVars, histVars, fullSync>>,
         faults' \in Nat, clock + faults' <= MaxTx + 1
  PROVE  IInv'
<1>1. r.lock = NO_LOCK /\ ~r.resv /\ r.pc = "out"
  BY OutsideFields
<1>2. h'[p] = r
  BY DEF IInv, Types
<1>3. Process(p)'
  BY <1>2, ProcessOutNext
<1>4. \A q \in Others(p) : /\ r.lock = EXCLUSIVE => h[q].lock = NO_LOCK
                           /\ h[q].lock = EXCLUSIVE => r.lock = NO_LOCK
                           /\ r.resv => ~h[q].resv
                           /\ file.size = 0 => r.pc = "out" \/ h[q].pc = "out"
  BY <1>1
<1> QED
  BY <1>3, <1>4, CallStep

\* With a pager_reset it forgets everything.
LEMMA StepOut ==
  ASSUME IInv, NEW p \in Proc, h' = [h EXCEPT ![p] = Unopened],
         UNCHANGED <<fileVars, jrnlVars, histVars, fullSync>>,
         faults' \in Nat, clock + faults' <= MaxTx + 1
  PROVE  IInv'
BY UnopenedTyped, UnopenedOutside, StepAway

\* The content of a file without a journal, or of an empty one, is the file.
LEMMA NothingToRestore ==
  ASSUME Types, Files, jrnl = NoJournal \/ file.size = 0
  PROVE  file = Content
<1>1. CASE jrnl = NoJournal
  BY <1>1, ContentTyped
<1>2. CASE jrnl # NoJournal /\ file.size = 0
  <2>1. /\ file \in File /\ Content \in File /\ Zeroed(file) /\ Zeroed(Content)
        /\ jrnl \in Journal /\ Brings(jrnl, Rest, Content) /\ MayBe(file, Rest)
    BY <1>2, ContentTyped
  <2>2. jrnl.size <= 0 /\ jrnl.size = Content.size /\ jrnl.size \in 0..MaxPage
    BY <1>2, <2>1, JournalTyped DEF Brings, MayBe
  <2>3. Content.size = 0 /\ file.size = 0
    BY <1>2, <2>2, Numbers
  <2>4. \A i \in Page : Content.page[i] = Blank /\ file.page[i] = Blank
    BY <2>1, <2>3, Numbers DEF Zeroed
  <2> QED
    BY <2>1, <2>3, <2>4, SameFile
<1> QED
  BY <1>1, <1>2

\* What is known of p before page 1 is read.
LEMMA OpeningTyped ==
  ASSUME IInv, NEW p \in Proc, h[p].pc \in Opening \union {"first", "open"}
  PROVE  /\ h \in [Proc -> Handle] /\ h[p] \in Handle
         /\ ~h[p].resv /\ h[p].tx = 0 /\ h[p].job = "none" /\ DOMAIN h[p].cache = {}
         /\ h[p].orig = 0 /\ h[p].inJournal = {} /\ ~h[p].needSync
         /\ h[p].pc # "open" => h[p].lock = SHARED /\ h[p].state = SHARED
         /\ h[p].dbSize \in -1..MaxPage
         /\ h[p].pc \in {"exists", "reserved"} => h[p].dbSize # 0
         /\ h[p].pc \in {"hot", "open"} => h[p].dbSize > 0
         /\ h[p].pc = "stale" => file.size = 0
         /\ h[p].pc = "first" => file = Content
<1>1. h \in [Proc -> Handle] /\ h[p] \in Handle /\ Levels(p) /\ OpeningOK(p)
  BY CallTyped, HandleTyped DEF Process
<1>2. /\ ~h[p].resv /\ h[p].job = "none" /\ h[p].tx = 0
      /\ h[p].pc # "open" => h[p].lock = SHARED /\ h[p].state = SHARED
  BY <1>1 DEF Levels, OpeningOK, Opening
<1>3. /\ DOMAIN h[p].cache = {} /\ h[p].orig = 0 /\ h[p].inJournal = {} /\ ~h[p].needSync
      /\ h[p].pc \in {"exists", "reserved"} => h[p].dbSize # 0
      /\ h[p].pc \in {"hot", "open"} => h[p].dbSize > 0
      /\ h[p].pc = "stale" => file.size = 0
      /\ h[p].pc = "first" => file = Content
  BY <1>1 DEF OpeningOK
<1>4. h[p].dbSize \in -1..MaxPage
  BY <1>1 DEF Handle
<1> QED
  BY <1>1, <1>2, <1>3, <1>4

\* hasHotJournal: no journal means that the file is the content.
LEMMA StepJournalExists ==
  ASSUME IInv, NEW p \in Proc, JournalExists(p)
  PROVE  IInv'
<1> DEFINE x == IF jrnl = NoJournal THEN "first" ELSE "reserved"
           r == [h[p] EXCEPT !.pc = x]
<1>1. h[p].pc = "exists" /\ UNCHANGED <<fileVars, jrnlVars, histVars, faults, fullSync>>
  BY DEF JournalExists
<1>2. h[p].pc \in Opening
  BY <1>1 DEF Opening
<1>3. /\ r.pc = x /\ r.lock = SHARED /\ r.state = SHARED /\ ~r.resv /\ r.tx = 0
      /\ r.job = "none" /\ DOMAIN r.cache = {} /\ r.orig = 0 /\ r.inJournal = {} /\ ~r.needSync
      /\ r.dbSize # 0 /\ r.lock = h[p].lock /\ r.resv = h[p].resv
  BY <1>1, <1>2, OpeningTyped DEF Handle
<1>4. r \in Handle
  BY <1>2, OpeningTyped DEF Handle, Opening
<1>5. h' = [h EXCEPT ![p] = r] /\ h'[p] = r
  BY <1>2, OpeningTyped DEF JournalExists
<1>6. x = "first" => file' = Content'
  BY <1>1, ContentTyped, CallTyped, FilesKept DEF fileVars, jrnlVars, histVars
<1> HIDE DEF r
<1>7. Process(p)'
  BY <1>3, <1>5, <1>6, ProcessOpens DEF Opening
<1> QED
  BY <1>1, <1>3, <1>4, <1>5, <1>7, SameLocks

\* hasHotJournal: a reserved lock means that the file is not written to yet.
LEMMA StepCheckReservedLock ==
  ASSUME IInv, NEW p \in Proc, CheckReservedLock(p)
  PROVE  IInv'
<1>1. h[p].pc = "reserved" /\ UNCHANGED <<fileVars, jrnlVars, histVars, faults, fullSync>>
  BY DEF CheckReservedLock
<1>2. h[p].pc \in Opening /\ file' = file
  BY <1>1 DEF Opening, fileVars
<1>3. PageCount(p) \in 0..MaxPage /\ (PageCount(p) = 0 => file.size = 0)
  <2>1. h[p].dbSize \in -1..MaxPage /\ h[p].dbSize # 0 /\ file.size \in 0..MaxPage
    BY <1>1, <1>2, OpeningTyped, CallTyped, ContentTyped DEF File
  <2> QED
    BY <2>1, Numbers DEF PageCount
<1>4. CASE \E q \in Others(p) : h[q].resv
  <2> DEFINE r == [h[p] EXCEPT !.pc = "first"]
  <2>1. PICK q \in Others(p) : h[q].resv
    BY <1>4
  <2>2. q \in Proc /\ q # p /\ (h[q].pc = "create" \/ h[q].tx # 0) /\ h[q].lock # EXCLUSIVE
    BY <1>2, <2>1, ReservedOK, OpeningTyped DEF Others, IInv, Exclusion, Opening
  <2>3. file = Content
    <3>1. h[q] \in Handle /\ Process(q)
      BY <2>2, CallTyped, HandleTyped
    <3>2. CASE h[q].tx = 0
      BY <2>2, <3>1, <3>2 DEF Process, ReadingOK
    <3>3. CASE h[q].tx # 0 /\ h[q].pc = "unlock"
      BY <3>1, <3>3, CallTyped, ContentTyped DEF Process, UndoingOK
    <3>4. CASE h[q].tx # 0 /\ h[q].pc # "unlock"
      <4>1. h[q].state = RESERVED
        BY <2>2, <3>1, <3>4, HandleTyped, CallTyped DEF Process, Levels
      <4>2. h[q].pc \notin Undoing
        BY <2>2, <3>1 DEF Process, Levels
      <4> QED
        BY <3>1, <3>4, <4>1, <4>2 DEF Process, ChangesOK, Open
    <3> QED
      BY <3>2, <3>3, <3>4
  <2>4. /\ r.pc = "first" /\ r.lock = SHARED /\ r.state = SHARED /\ ~r.resv /\ r.tx = 0
        /\ r.job = "none" /\ DOMAIN r.cache = {} /\ r.orig = 0 /\ r.inJournal = {} /\ ~r.needSync
        /\ r.dbSize # 0 /\ r.lock = h[p].lock /\ r.resv = h[p].resv
    BY <1>1, <1>2, OpeningTyped DEF Handle
  <2>5. r \in Handle
    BY <1>2, OpeningTyped DEF Handle
  <2>6. h' = [h EXCEPT ![p] = r] /\ h'[p] = r
    BY <1>2, <1>4, OpeningTyped DEF CheckReservedLock
  <2>7. Content' = Content
    BY <1>1, FilesKept, CallTyped DEF fileVars, jrnlVars, histVars
  <2> HIDE DEF r
  <2>8. Process(p)'
    BY <1>2, <2>3, <2>4, <2>6, <2>7, ProcessOpens
  <2> QED
    BY <1>1, <2>4, <2>5, <2>6, <2>8, SameLocks
<1>5. CASE ~\E q \in Others(p) : h[q].resv
  <2> DEFINE n == PageCount(p)
             x == IF n = 0 THEN "stale" ELSE "hot"
             r == [h[p] EXCEPT !.dbSize = n, !.pc = x]
  <2>0. n \in 0..MaxPage /\ n \in -1..MaxPage /\ (n = 0 => file.size = 0)
    BY <1>3, Numbers
  <2>1. /\ r.pc = x /\ r.lock = SHARED /\ r.state = SHARED /\ ~r.resv /\ r.tx = 0
        /\ r.job = "none" /\ DOMAIN r.cache = {} /\ r.orig = 0 /\ r.inJournal = {} /\ ~r.needSync
        /\ r.dbSize = n /\ r.lock = h[p].lock /\ r.resv = h[p].resv
    BY <1>1, <1>2, OpeningTyped DEF Handle
  <2>2. r \in Handle
    <3>1. x \in Opening /\ h[p] \in Handle
      BY <1>2, OpeningTyped DEF Opening
    <3> HIDE DEF x, n
    <3> QED
      BY <2>0, <3>1 DEF Handle
  <2>3. h' = [h EXCEPT ![p] = r] /\ h'[p] = r
    BY <1>2, <1>3, <1>5, OpeningTyped DEF CheckReservedLock
  <2> HIDE DEF r, n
  <2>4. Process(p)'
    <3>1. x \in {"stale", "hot"} /\ (x = "hot" => r.dbSize > 0) /\ (x = "stale" => file'.size = 0)
      BY <1>2, <2>0, <2>1
    <3> QED
      BY <1>2, <2>1, <2>3, <3>1, ProcessOpens DEF Opening
  <2> QED
    BY <1>1, <2>1, <2>2, <2>3, <2>4, SameLocks
<1> QED
  BY <1>4, <1>5

\* An empty file: the journal removed has nothing to bring back.
LEMMA StepDeleteStale ==
  ASSUME IInv, NEW p \in Proc, DeleteStale(p)
  PROVE  IInv' /\ Content' = Content
<1> DEFINE r == [h[p] EXCEPT !.pc = "first"]
<1>1. /\ h[p].pc = "stale" /\ DeleteJournal
      /\ file' = file /\ disk' = disk /\ clock' = clock /\ before' = before /\ faults' = faults
      /\ UNCHANGED fileVars /\ UNCHANGED <<faults, fullSync>>
  BY DEF DeleteStale, fileVars, histVars
<1>2. h[p].pc \in Opening
  BY <1>1 DEF Opening
<1>3. file.size = 0 /\ file = Content
  BY <1>1, <1>2, OpeningTyped, CallTyped, NothingToRestore
<1>4. Files' /\ Content' = file /\ jrnl' \in Journal /\ linked' = FALSE /\ ghosts' \in Seq(Journal)
  BY <1>1, <1>3, CallTyped, JournalDeleted
<1>5. /\ r.pc = "first" /\ r.lock = SHARED /\ r.state = SHARED /\ ~r.resv /\ r.tx = 0
      /\ r.job = "none" /\ DOMAIN r.cache = {} /\ r.orig = 0 /\ r.inJournal = {} /\ ~r.needSync
      /\ r.lock = h[p].lock /\ r.resv = h[p].resv
  BY <1>1, <1>2, OpeningTyped DEF Handle
<1>6. r \in Handle
  BY <1>2, OpeningTyped DEF Handle
<1>7. h' = [h EXCEPT ![p] = r] /\ h'[p] = r
  BY <1>2, OpeningTyped DEF DeleteStale
<1> HIDE DEF r
<1>8. Process(p)'
  BY <1>1, <1>4, <1>5, <1>7, ProcessOpens
<1>9. \A q \in Others(p) : h[q].pc = "out"
  BY <1>1, <1>3 DEF IInv, Exclusion, Others
<1>10. IInv'
  BY <1>1, <1>4, <1>5, <1>6, <1>7, <1>8, <1>9, FileStep DEF IInv, Types
<1> QED
  BY <1>10, <1>3, <1>4

\* What is read from the file: nothing past the count of the process.
LEMMA Fetched ==
  ASSUME IInv, NEW p \in Proc, NEW i \in Page
  PROVE  /\ Fetch(p, i) = IF i <= PageCount(p) THEN file.page[i] ELSE Blank
         /\ Fetch(p, i) \in Val /\ PageCount(p) \in 0..MaxPage
         /\ PageCount(p) = file.size => Fetch(p, i) = file.page[i]
<1>1. /\ file \in File /\ Zeroed(file) /\ h[p].dbSize \in -1..MaxPage /\ file.size \in 0..MaxPage
      /\ file.page[i] \in Val
  BY CallTyped, ContentTyped, HandleTyped DEF File
<1>2. PageCount(p) \in 0..MaxPage
  BY <1>1, Numbers DEF PageCount
<1>3. i > file.size => file.page[i] = Blank
  BY <1>1 DEF Zeroed
<1>4. i \in Nat /\ 0 \in Val
  BY Numbers
<1> QED
  BY <1>1, <1>2, <1>3, <1>4, Numbers DEF Fetch

\* Page 1 is read, as it was committed, or, by a process that remembers another size,
\* what it takes for it.
LEMMA StepReadFirst ==
  ASSUME IInv, NEW p \in Proc, ReadFirst(p)
  PROVE  IInv'
<1>1. h[p].pc = "first" /\ UNCHANGED <<fileVars, jrnlVars, histVars, faults, fullSync>> /\ file' = file
  BY DEF ReadFirst, fileVars
<1>2. CASE PageCount(p) > 0 /\ Fetch(p, 1) = Blank
  <2>1. h' = [h EXCEPT ![p] = Unopened]
    BY <1>2 DEF ReadFirst
  <2> QED
    BY <1>1, <2>1, CallTyped, StepOut
<1>3. CASE ~(PageCount(p) > 0 /\ Fetch(p, 1) = Blank)
  <2> DEFINE n == PageCount(p)
             v == Fetch(p, 1)
             m == (n # file.size)
             c == [i \in {1} |-> Clean(v)]
             r == [h[p] EXCEPT !.pc = "idle", !.dbSize = n, !.cache = c, !.misled = m]
  <2>1. /\ v = (IF 1 <= n THEN file.page[1] ELSE Blank) /\ v \in Val /\ n \in 0..MaxPage
        /\ m \in BOOLEAN /\ (~m => n = file.size) /\ (n = file.size => v = file.page[1])
        /\ n \in -1..MaxPage /\ file.size \in Nat
    <3>1. 1 \in Page /\ file \in File
      BY CallTyped, ContentTyped, Numbers
    <3> QED
      BY <3>1, Fetched, Numbers DEF File
  <2>2. h' = [h EXCEPT ![p] = r]
    BY <1>3 DEF ReadFirst
  <2> HIDE DEF n, v, m
  <2>3. c \in Cache /\ DOMAIN c = {1} /\ c[1] = Clean(v)
    <3>1. c \in [{1} -> Entry] /\ {1} \in SUBSET Page
      BY <2>1, Numbers DEF Clean, Entry
    <3> QED
      BY <3>1, CacheMade
  <2> HIDE DEF c
  <2>4. /\ r.pc = "idle" /\ r.lock = SHARED /\ r.state = SHARED /\ ~r.resv /\ r.tx = 0
        /\ r.job = "none" /\ r.cache = c /\ r.orig = 0 /\ r.inJournal = {} /\ ~r.needSync
        /\ r.dbSize = n /\ r.misled = m /\ r.lock = h[p].lock /\ r.resv = h[p].resv
    BY <1>1, OpeningTyped DEF Handle
  <2>5. r \in Handle
    <3>1. h[p] \in Handle
      BY <1>1, OpeningTyped
    <3> QED
      BY <2>1, <2>3, <3>1 DEF Handle
  <2>6. h'[p] = r
    BY <1>1, <2>2, OpeningTyped
  <2>7. file' = Content'
    BY <1>1, FilesKept, CallTyped, OpeningTyped DEF fileVars, jrnlVars, histVars
  <2> HIDE DEF r
  <2>8. ReadingOK(p)'
    <3>1. Cached(h[p])'
      <4>1. CASE m
        <5>1. r.dbSize >= 0 /\ r.misled
          BY <2>1, <2>4, <4>1
        <5>2. \A i \in DOMAIN r.cache : r.cache[i] = Clean(IF i <= r.dbSize THEN file.page[i] ELSE Blank)
          BY <2>1, <2>3, <2>4
        <5>3. file' = file
          BY <1>1
        <5> QED
          BY <2>6, <5>1, <5>2, <5>3 DEF Cached
      <4>2. CASE ~m
        BY <1>1, <2>1, <2>3, <2>4, <2>6, <4>2 DEF Cached
      <4> QED
        BY <4>1, <4>2
    <3> QED
      BY <2>3, <2>4, <2>6, <2>7, <3>1 DEF ReadingOK
  <2>9. Process(p)'
    BY <2>4, <2>6, <2>8, ProcessReads
  <2> QED
    BY <1>1, <2>2, <2>4, <2>5, <2>9, SameLocks
<1> QED
  BY <1>2, <1>3

\* BUSY at a hot journal: the size is remembered.
LEMMA StepGiveUpHot ==
  ASSUME IInv, NEW p \in Proc, h[p].pc \in {"hot", "open"}, GiveUpHot(p),
         UNCHANGED <<fileVars, jrnlVars, histVars, faults, fullSync>>
  PROVE  IInv'
<1> DEFINE d == h[p].dbSize
           r == [Unopened EXCEPT !.dbSize = d]
<1>1. d \in -1..MaxPage /\ d # 0
  BY OpeningTyped DEF Opening
<1>2. h' = [h EXCEPT ![p] = r]
  BY DEF GiveUpHot
<1> HIDE DEF d
<1>3. r \in Handle /\ Outside(r)
  BY <1>1, OutsideMade
<1> HIDE DEF r
<1> QED
  BY <1>2, <1>3, CallTyped, StepAway

\* The exclusive lock of a recovery, or none.
LEMMA StepLockHot ==
  ASSUME IInv, NEW p \in Proc, LockHot(p)
  PROVE  IInv'
<1>1. h[p].pc = "hot" /\ UNCHANGED <<fileVars, jrnlVars, histVars, faults, fullSync>> /\ file' = file
  BY DEF LockHot, fileVars
<1>2. h[p].pc \in Opening
  BY <1>1 DEF Opening
<1>3. CASE \A q \in Others(p) : h[q].lock = NO_LOCK
  <2> DEFINE r == [h[p] EXCEPT !.pc = "open", !.lock = EXCLUSIVE, !.state = EXCLUSIVE]
  <2>1. /\ r.pc = "open" /\ r.lock = EXCLUSIVE /\ r.state = EXCLUSIVE /\ ~r.resv /\ r.tx = 0
        /\ r.job = "none" /\ DOMAIN r.cache = {} /\ r.orig = 0 /\ r.inJournal = {} /\ ~r.needSync
        /\ r.dbSize > 0
    BY <1>1, <1>2, OpeningTyped DEF Handle
  <2>2. r \in Handle
    <3>1. h[p] \in Handle
      BY <1>2, OpeningTyped
    <3> QED
      BY <3>1 DEF Handle
  <2>3. h' = [h EXCEPT ![p] = r] /\ h'[p] = r
    BY <1>2, <1>3, OpeningTyped DEF LockHot
  <2> HIDE DEF r
  <2>4. Process(p)'
    <3>1. Levels(p)'
      BY <2>1, <2>3 DEF Levels, Opening, Syncing, Writing, Undoing
    <3>2. OpeningOK(p)' /\ ReadingOK(p)' /\ OwnJournal(p)' /\ ChangesOK(p)' /\ CommittedOK(p)'
      BY <1>1, <2>1, <2>3
         DEF OpeningOK, ReadingOK, OwnJournal, ChangesOK, CommittedOK, Open, Opening, Undoing
    <3>3. CallOK(p)' /\ UndoingOK(p)'
      BY <2>1, <2>3 DEF CallOK, UndoingOK, Syncing, Writing, Undoing
    <3> QED
      BY <3>1, <3>2, <3>3 DEF Process
  <2>5. \A q \in Others(p) : h[q].pc = "out"
    BY <1>3, CallTyped DEF IInv, Process, Levels
  <2> QED
    BY <1>1, <1>3, <2>1, <2>2, <2>3, <2>4, <2>5, CallTyped, CallStep
<1>4. CASE ~\A q \in Others(p) : h[q].lock = NO_LOCK
  <2>1. GiveUpHot(p)
    BY <1>4 DEF LockHot
  <2> QED
    BY <1>1, <2>1, StepGiveUpHot
<1> QED
  BY <1>3, <1>4

\* Another process may have recovered the file before the lock was got.
LEMMA StepOpenHot ==
  ASSUME IInv, NEW p \in Proc, OpenHot(p)
  PROVE  IInv'
<1>1. /\ h[p].pc = "open" /\ UNCHANGED <<fileVars, jrnlVars, histVars, faults, fullSync>>
      /\ file' = file /\ jrnl' = jrnl
  BY DEF OpenHot, fileVars, jrnlVars
<1>2. CASE jrnl # NoJournal
  <2> DEFINE r == [h[p] EXCEPT !.pc = "trunc", !.job = "read"]
  <2>1. h[p].lock = EXCLUSIVE /\ h[p].state = EXCLUSIVE
    BY <1>1, CallTyped DEF Process, Levels
  <2>2. /\ r.pc = "trunc" /\ r.lock = EXCLUSIVE /\ r.state = EXCLUSIVE /\ ~r.resv /\ r.tx = 0
        /\ r.job = "read" /\ DOMAIN r.cache = {} /\ r.orig = 0 /\ r.inJournal = {} /\ ~r.needSync
        /\ r.lock = h[p].lock /\ r.resv = h[p].resv
    BY <1>1, <2>1, OpeningTyped DEF Handle
  <2>3. r \in Handle
    <3>1. h[p] \in Handle
      BY <1>1, OpeningTyped
    <3> QED
      BY <3>1 DEF Handle, Undoing
  <2>4. h' = [h EXCEPT ![p] = r] /\ h'[p] = r
    BY <1>1, <1>2, OpeningTyped DEF OpenHot
  <2> HIDE DEF r
  <2>5. Process(p)'
    <3>1. Levels(p)'
      BY <2>2, <2>4 DEF Levels, Opening, Syncing, Writing, Undoing
    <3>2. OpeningOK(p)' /\ ReadingOK(p)' /\ OwnJournal(p)' /\ ChangesOK(p)' /\ CommittedOK(p)'
      BY <1>1, <2>2, <2>4
         DEF OpeningOK, ReadingOK, OwnJournal, ChangesOK, CommittedOK, Open, Opening, Undoing
    <3>3. CallOK(p)' /\ UndoingOK(p)'
      BY <1>1, <1>2, <2>2, <2>4 DEF CallOK, UndoingOK, Syncing, Writing, Undoing
    <3> QED
      BY <3>1, <3>2, <3>3 DEF Process
  <2> QED
    BY <1>1, <2>2, <2>3, <2>4, <2>5, SameLocks
<1>3. CASE jrnl = NoJournal
  <2>1. GiveUpHot(p)
    BY <1>3 DEF OpenHot
  <2> QED
    BY <1>1, <2>1, StepGiveUpHot
<1> QED
  BY <1>2, <1>3

-----------------------------------------------------------------------------
(* pager_playback.                                                          *)

\* The file is only written to when its journal is on the disk.
LEMMA WrittenIfLinked ==
  ASSUME Types, Files, file # Content
  PROVE  jrnl # NoJournal /\ linked /\ Junk \notin jrnl.may
<1>1. jrnl # NoJournal /\ linked
  BY ContentTyped DEF Files, LinkOK
<1>2. ASSUME Junk \in jrnl.may
      PROVE  FALSE
  <2>1. Rest = Durable(Content)
    BY <1>1, <1>2, ContentTyped DEF Brings
  <2> QED
    BY <2>1, ContentTyped, DurableFile
<1> QED
  BY <1>1, <1>2

\* What is known of p while it plays the journal back.
LEMMA UndoingTyped ==
  ASSUME IInv, NEW p \in Proc, h[p].pc \in Undoing
  PROVE  /\ h \in [Proc -> Handle] /\ h[p] \in Handle /\ h[p].cache \in Cache
         /\ Types /\ Files /\ jrnl \in Journal /\ jrnl # NoJournal /\ Brings(jrnl, Rest, Content)
         /\ h[p].lock = EXCLUSIVE /\ h[p].state >= EXCLUSIVE /\ h[p].job \in {"read", "rollback"}
         /\ \A q \in Others(p) : h[q].pc = "out"
         /\ IF h[p].job = "read"
            THEN /\ ~h[p].resv /\ h[p].tx = 0
                 /\ DOMAIN h[p].cache = {} /\ h[p].orig = 0 /\ h[p].inJournal = {} /\ ~h[p].needSync
            ELSE /\ h[p].resv /\ h[p].tx # 0
                 /\ jrnl.count # Junk
                 /\ \A k \in DOMAIN jrnl.recs : jrnl.recs[k].val # Junk
                 /\ jrnl.size = h[p].orig
                 /\ \A i \in DOMAIN h[p].cache :
                      i <= jrnl.size /\ h[p].cache[i].needSync => Undone(p, i)
<1>1. /\ h \in [Proc -> Handle] /\ h[p] \in Handle /\ h[p].cache \in Cache /\ Types /\ Files
      /\ Process(p)
  BY CallTyped, HandleTyped
<1>2. /\ h[p].lock = EXCLUSIVE /\ h[p].state >= EXCLUSIVE /\ h[p].job \in {"read", "rollback"}
      /\ IF h[p].job = "read" THEN ~h[p].resv /\ h[p].tx = 0 ELSE h[p].resv /\ h[p].tx # 0
  BY <1>1 DEF Process, Levels
<1>3. jrnl \in Journal /\ jrnl # NoJournal /\ Brings(jrnl, Rest, Content)
  BY <1>1, ContentTyped DEF Process, UndoingOK, Undoing
<1>4. \A q \in Others(p) : h[q].pc = "out"
  BY <1>2, Alone
<1>5. CASE h[p].job = "read"
  BY <1>1, <1>2, <1>3, <1>4, <1>5 DEF Process, OpeningOK
<1>6. CASE h[p].job # "read"
  BY <1>1, <1>2, <1>3, <1>4, <1>6 DEF Process, OwnJournal, UndoingOK
<1> QED
  BY <1>5, <1>6

\* A process that plays the journal back.
LEMMA ProcessUndoes ==
  ASSUME NEW p \in Proc, NEW r, h'[p] = r, h[p].pc \in Undoing, IInv,
         r.pc = "play", r.lock = h[p].lock, r.state = h[p].state, r.resv = h[p].resv,
         r.job = h[p].job, r.tx = h[p].tx, r.orig = h[p].orig, r.inJournal = h[p].inJournal,
         r.needSync = h[p].needSync, DOMAIN r.cache = DOMAIN h[p].cache,
         jrnl' = jrnl,
         \A i \in DOMAIN r.cache : i <= jrnl.size /\ r.cache[i].needSync => Undone(p, i)',
         r.played <= Len(jrnl.recs),
         jrnl.count # Junk => file'.size = jrnl.size,
         \A k \in 1..r.played : Restores(jrnl, k) /\ Undone(p, jrnl.recs[k].pg)'
  PROVE  Process(p)'
<1>1. Levels(p)'
  <2>1. /\ r.pc = "play" /\ r.lock = EXCLUSIVE /\ r.job \in {"read", "rollback"}
        /\ r.state >= EXCLUSIVE /\ r.state \in {NO_LOCK, SHARED, RESERVED, EXCLUSIVE, SYNCED}
        /\ IF r.job = "read" THEN ~r.resv /\ r.tx = 0 ELSE r.resv /\ r.tx # 0
    BY UndoingTyped, HandleTyped
  <2> QED
    BY <2>1 DEF Levels, Opening, Syncing, Writing, Undoing
<1>2. OpeningOK(p)'
  BY UndoingTyped DEF OpeningOK, Opening, Undoing
<1>3. OwnJournal(p)'
  BY UndoingTyped DEF OwnJournal, Open
<1>4. ReadingOK(p)' /\ ChangesOK(p)' /\ CommittedOK(p)'
  BY DEF ReadingOK, ChangesOK, CommittedOK, Open, Undoing
<1>5. CallOK(p)' /\ UndoingOK(p)'
  BY UndoingTyped DEF CallOK, UndoingOK, Syncing, Writing, Undoing
<1> QED
  BY <1>1, <1>2, <1>3, <1>4, <1>5 DEF Process

\* Cutting the file to the size of the journal leaves the content.
LEMMA StepPlaybackTruncate ==
  ASSUME IInv, NEW p \in Proc, PlaybackTruncate(p)
  PROVE  IInv' /\ Content' = Content
<1> DEFINE f == Sized(file.page, jrnl.size)
<1>1. /\ h[p].pc = "trunc" /\ UNCHANGED <<jrnlVars, histVars, faults, fullSync>>
      /\ jrnl' = jrnl /\ linked' = linked /\ ghosts' = ghosts /\ clock' = clock /\ before' = before
  BY DEF PlaybackTruncate, jrnlVars, histVars
<1>2. h[p].pc \in Undoing
  BY <1>1 DEF Undoing
<1>3. /\ file \in File /\ file.page \in [Page -> Val] /\ Content \in File /\ Zeroed(Content)
      /\ jrnl.size \in 0..MaxPage /\ jrnl.size = Content.size /\ Zeroed(file) /\ Len(jrnl.recs) \in Nat
  BY <1>2, UndoingTyped, ContentTyped, JournalTyped DEF File, Brings
<1>4. /\ f \in File /\ f.size = jrnl.size /\ Zeroed(f)
      /\ \A i \in Page : f.page[i] = IF i <= jrnl.size THEN file.page[i] ELSE Blank
  BY <1>3, SizedFile
<1>5. CASE jrnl.count = Junk
  <2> DEFINE r == [h[p] EXCEPT !.pc = "play", !.played = 0]
  <2>1. h' = [h EXCEPT ![p] = r] /\ h'[p] = r
    BY <1>2, <1>5, UndoingTyped DEF PlaybackTruncate
  <2>2. /\ r.pc = "play" /\ r.lock = h[p].lock /\ r.state = h[p].state /\ r.resv = h[p].resv
        /\ r.job = h[p].job /\ r.tx = h[p].tx /\ r.orig = h[p].orig /\ r.inJournal = h[p].inJournal
        /\ r.needSync = h[p].needSync /\ r.cache = h[p].cache /\ r.dbSize = h[p].dbSize
        /\ r.played = 0
    BY <1>2, UndoingTyped DEF Handle
  <2>3. r \in Handle
    <3>1. h[p] \in Handle
      BY <1>2, UndoingTyped
    <3> QED
      BY <3>1 DEF Handle, Undoing
  <2>4. UNCHANGED fileVars /\ file' = file /\ Content' = Content
    BY <1>1, <1>5 DEF PlaybackTruncate, fileVars, Content
  <2> HIDE DEF r
  <2>5. Process(p)'
    <3>1. \A i \in DOMAIN r.cache : i <= jrnl.size /\ r.cache[i].needSync => Undone(p, i)'
      BY <1>2, <1>5, <2>2, CacheTyped, UndoingTyped
    <3>2. \A k \in 1..r.played : FALSE
      BY <2>2
    <3> QED
      BY <1>1, <1>2, <1>3, <1>5, <2>1, <2>2, <2>4, <3>1, <3>2, UndoingTyped, ProcessUndoes
  <2>6. IInv'
    BY <1>1, <1>2, <2>1, <2>2, <2>3, <2>4, <2>5, SameLocks, UndoingTyped
  <2> QED
    BY <2>4, <2>6
<1>6. CASE jrnl.count # Junk
  <2> DEFINE r == [h[p] EXCEPT !.pc = "play", !.played = 0, !.dbSize = jrnl.size]
  <2>1. h' = [h EXCEPT ![p] = r] /\ h'[p] = r /\ WriteFile(f)
    BY <1>2, <1>6, UndoingTyped DEF PlaybackTruncate
  <2>2. /\ r.pc = "play" /\ r.lock = h[p].lock /\ r.state = h[p].state /\ r.resv = h[p].resv
        /\ r.job = h[p].job /\ r.tx = h[p].tx /\ r.orig = h[p].orig /\ r.inJournal = h[p].inJournal
        /\ r.needSync = h[p].needSync /\ r.cache = h[p].cache /\ r.dbSize = jrnl.size
        /\ r.played = 0
    BY <1>2, UndoingTyped DEF Handle
  <2>3. r \in Handle
    <3>1. h[p] \in Handle /\ jrnl.size \in -1..MaxPage
      BY <1>2, <1>3, UndoingTyped, Numbers
    <3> QED
      BY <3>1 DEF Handle, Undoing
  <2>4. ASSUME f # file
        PROVE  file # Content
    <3>1. SUFFICES ASSUME file = Content
                   PROVE  f = file
      BY <2>4
    <3>2. \A i \in Page : f.page[i] = file.page[i]
      BY <1>3, <1>4, <3>1, Numbers DEF Zeroed
    <3> QED
      BY <1>3, <1>4, <3>1, <3>2, SameFile
  <2> HIDE DEF f
  <2>5. Files' /\ Content' = Content /\ file' \in File /\ disk' \in Disk
    <3>1. f # file => /\ jrnl # NoJournal /\ linked /\ Junk \notin jrnl.may
                      /\ jrnl.size <= f.size
                      /\ \A i \in Page : i <= jrnl.size =>
                           f.page[i] \in {file.page[i], Content.page[i]} \/ Synced(i)
      <4>1. f # file => jrnl # NoJournal /\ linked /\ Junk \notin jrnl.may
        BY <1>2, <2>4, UndoingTyped, WrittenIfLinked
      <4> QED
        BY <1>3, <1>4, <4>1
    <3> QED
      BY <1>1, <1>2, <1>4, <2>1, <3>1, FileWritten, UndoingTyped
  <2>6. file' = f
    BY <2>1 DEF WriteFile
  <2> HIDE DEF r
  <2>7. Process(p)'
    <3>1. ASSUME NEW i \in DOMAIN r.cache, i <= jrnl.size, r.cache[i].needSync
          PROVE  Undone(p, i)'
      <4>1. i \in Page /\ h[p].cache[i].needSync /\ h[p].job # "read"
        BY <1>2, <2>2, <3>1, UndoingTyped, CacheTyped
      <4>2. Undone(p, i)
        BY <1>2, <2>2, <3>1, <4>1, UndoingTyped
      <4> QED
        BY <1>4, <2>5, <2>6, <3>1, <4>1, <4>2 DEF Undone
    <3>2. \A k \in 1..r.played : FALSE
      BY <2>2
    <3> QED
      BY <1>1, <1>2, <1>3, <1>4, <2>1, <2>2, <2>6, <3>1, <3>2, ProcessUndoes
  <2>8. UNCHANGED <<faults, fullSync>>
    BY <1>1
  <2>9. IInv'
    BY <1>1, <1>2, <2>1, <2>2, <2>3, <2>5, <2>7, <2>8, UndoingTyped, FileStep DEF IInv, Types
  <2> QED
    BY <2>5, <2>9
<1> QED
  BY <1>5, <1>6

\* Restoring a record leaves the content.
LEMMA StepPlaybackOnePage ==
  ASSUME IInv, NEW p \in Proc, PlaybackOnePage(p)
  PROVE  IInv' /\ Content' = Content
<1> DEFINE k == h[p].played + 1
           i == jrnl.recs[k].pg
           v == jrnl.recs[k].val
           c == h[p].cache
           toFile == i \notin DOMAIN c \/ ~c[i].needSync
           d == IF i \notin DOMAIN c THEN c
                ELSE [c EXCEPT ![i].val = v, ![i].dirty = c[i].dirty /\ ~toFile]
           f == IF toFile THEN Store(file, i, v) ELSE file
           r == [h[p] EXCEPT !.played = k, !.cache = d]
<1>1. /\ h[p].pc = "play" /\ MoreRecords(p) /\ UNCHANGED <<jrnlVars, histVars, faults, fullSync>>
      /\ jrnl' = jrnl /\ linked' = linked /\ ghosts' = ghosts /\ clock' = clock /\ before' = before
  BY DEF PlaybackOnePage, jrnlVars, histVars
<1>2. h[p].pc \in Undoing
  BY <1>1 DEF Undoing
<1>3. /\ file \in File /\ Content \in File /\ Zeroed(file)
      /\ jrnl.size \in 0..MaxPage /\ jrnl.count \in Nat \union {Junk}
      /\ Len(jrnl.recs) \in Nat /\ h[p].played \in Nat /\ h[p].played <= Len(jrnl.recs)
      /\ jrnl.count # Junk => file.size = jrnl.size
      /\ \A m \in 1..h[p].played : Restores(jrnl, m) /\ Undone(p, jrnl.recs[m].pg)
  BY <1>1, <1>2, UndoingTyped, ContentTyped, JournalTyped, HandleTyped, CallTyped DEF Process, UndoingOK
<1>4. /\ k \in DOMAIN jrnl.recs /\ k \in 1..k /\ k <= Len(jrnl.recs) /\ k \in Nat
      /\ Restores(jrnl, k) /\ jrnl.count # Junk
  BY <1>1, <1>2, <1>3, UndoingTyped, JournalTyped DEF MoreRecords, Restores
<1>5. /\ i \in Page /\ i <= jrnl.size /\ v = Content.page[i] /\ v \in Val /\ v # Junk
  <2>1. i \in Page /\ i <= jrnl.size /\ Distinct(jrnl)
    <3>1. jrnl \in Journal /\ Brings(jrnl, Rest, Content)
      BY <1>2, UndoingTyped
    <3> HIDE DEF k
    <3>2. Distinct(jrnl)
      BY <3>1, BringsDistinct
    <3>3. \A l \in DOMAIN jrnl.recs : jrnl.recs[l].pg <= jrnl.size
      BY <3>1 DEF Brings
    <3>4. k \in DOMAIN jrnl.recs /\ jrnl.recs[k].pg \in Page
      BY <1>4, <3>1, JournalTyped
    <3> QED
      BY <3>2, <3>3, <3>4
  <2>2. Content.page[i] = v
    BY <1>2, <1>3, <1>4, <2>1, UndoingTyped, RestoredFile DEF Content
  <2>3. Content.page[i] \in Val
    BY <1>3, <2>1 DEF File
  <2> QED
    BY <2>1, <2>2, <2>3, Numbers
<1>6. c \in Cache /\ DOMAIN c \subseteq Page
  BY <1>2, UndoingTyped, CacheTyped
<1>7. /\ DOMAIN d = DOMAIN c /\ d \in Cache
      /\ \A l \in DOMAIN c : d[l].needSync = c[l].needSync
  <2>1. CASE i \notin DOMAIN c
    BY <1>6, <2>1
  <2>2. CASE i \in DOMAIN c
    <3>1. /\ c[i] \in Entry /\ c[i].dirty \in BOOLEAN
          /\ c[i].needSync \in BOOLEAN /\ c[i].inJournal \in BOOLEAN
      BY <1>6, <2>2, CacheTyped
    <3> DEFINE e == [c[i] EXCEPT !.val = v, !.dirty = c[i].dirty /\ ~toFile]
    <3>2. d = [c EXCEPT ![i] = e]
      BY <2>2
    <3>3. e.needSync = c[i].needSync /\ e \in Entry
      <4> HIDE DEF v, toFile
      <4>1. (c[i].dirty /\ ~toFile) \in BOOLEAN
        OBVIOUS
      <4> QED
        BY <1>5, <3>1, <4>1 DEF Entry
    <3> HIDE DEF e, d
    <3>4. PICK S \in SUBSET Page : c \in [S -> Entry]
      BY <1>6 DEF Cache
    <3>5. d \in [S -> Entry] /\ DOMAIN d = DOMAIN c /\ \A l \in DOMAIN c : d[l] = IF l = i THEN e ELSE c[l]
      BY <2>2, <3>2, <3>3, <3>4
    <3> QED
      BY <3>3, <3>4, <3>5, CacheMade
  <2> QED
    BY <2>1, <2>2
<1>8. h' = [h EXCEPT ![p] = r] /\ h'[p] = r
  BY <1>2, UndoingTyped DEF PlaybackOnePage
<1>9. toFile => WriteFile(Store(file, i, v))
  BY DEF PlaybackOnePage
<1>10. ~toFile => UNCHANGED fileVars
  BY DEF PlaybackOnePage
<1> HIDE DEF d, v
<1>11. /\ r.pc = "play" /\ r.lock = h[p].lock /\ r.state = h[p].state /\ r.resv = h[p].resv
       /\ r.job = h[p].job /\ r.tx = h[p].tx /\ r.orig = h[p].orig /\ r.inJournal = h[p].inJournal
       /\ r.needSync = h[p].needSync /\ r.cache = d /\ r.dbSize = h[p].dbSize
       /\ r.played = k
  BY <1>1, <1>2, UndoingTyped DEF Handle
<1>12. r \in Handle
  <2>1. h[p] \in Handle
    BY <1>2, UndoingTyped
  <2> HIDE DEF k
  <2> QED
    BY <1>4, <1>7, <2>1 DEF Handle
<1>13. WriteFile(f)
  <2>1. CASE toFile
    BY <1>9, <2>1
  <2>2. CASE ~toFile
    BY <1>2, <1>10, <2>2, UndoingTyped, ContentTyped, WrittenFile DEF WriteFile, fileVars
  <2> QED
    BY <2>1, <2>2
<1>14. /\ f \in File /\ f.size = file.size /\ Zeroed(f)
       /\ \A l \in Page : f.page[l] = IF l = i THEN Content.page[i] ELSE file.page[l]
  <2>1. CASE toFile
    <3>1. ~(i > file.size)
      BY <1>3, <1>4, <1>5, Numbers
    <3>2. f = Store(file, i, v)
      BY <2>1
    <3> HIDE DEF f, toFile, i, k
    <3> QED
      BY <1>3, <1>5, <3>1, <3>2, StoredFile
  <2>2. CASE ~toFile
    <3>1. i \in DOMAIN c /\ c[i].needSync /\ h[p].job # "read"
      BY <1>2, <2>2, UndoingTyped
    <3>2. Undone(p, i)
      BY <1>2, <1>5, <3>1, UndoingTyped
    <3> QED
      BY <1>3, <2>2, <3>2 DEF Undone
  <2> QED
    BY <2>1, <2>2
<1> HIDE DEF f, toFile, r
<1>15. Files' /\ Content' = Content /\ file' \in File /\ disk' \in Disk
  <2>1. ASSUME f # file
        PROVE  file # Content
    <3>1. SUFFICES ASSUME file = Content
                   PROVE  f = file
      BY <2>1
    <3> QED
      BY <1>3, <1>14, <3>1, SameFile
  <2>2. f # file => jrnl # NoJournal /\ linked /\ Junk \notin jrnl.may
    BY <1>2, <2>1, UndoingTyped, WrittenIfLinked
  <2>3. /\ jrnl.size <= f.size
        /\ \A l \in Page : l <= jrnl.size =>
             f.page[l] \in {file.page[l], Content.page[l]} \/ Synced(l)
    BY <1>3, <1>4, <1>14
  <2> QED
    BY <1>1, <1>2, <1>13, <1>14, <2>2, <2>3, FileWritten, UndoingTyped
<1>16. file' = f
  BY <1>13 DEF WriteFile
<1>17. Process(p)'
  <2>1. ASSUME NEW l \in DOMAIN r.cache, l <= jrnl.size, r.cache[l].needSync
        PROVE  Undone(p, l)'
    <3>1. l \in Page /\ c[l].needSync /\ h[p].job # "read" /\ l \in DOMAIN c
      BY <1>2, <1>6, <1>7, <1>11, <2>1, UndoingTyped
    <3>2. Undone(p, l)
      BY <1>2, <2>1, <3>1, UndoingTyped
    <3> QED
      BY <1>14, <1>15, <1>16, <3>1, <3>2 DEF Undone
  <2>2. ASSUME NEW m \in 1..r.played
        PROVE  Restores(jrnl, m) /\ Undone(p, jrnl.recs[m].pg)'
    <3>1. CASE m = k
      BY <1>1, <1>4, <1>5, <1>14, <1>15, <1>16, <3>1 DEF Undone
    <3>2. CASE m # k
      <4>1. m \in 1..h[p].played /\ m \in DOMAIN jrnl.recs
        BY <1>2, <1>3, <1>11, <2>2, <3>2, UndoingTyped, JournalTyped
      <4>2. jrnl.recs[m].pg \in Page
        BY <1>2, <4>1, UndoingTyped, JournalTyped
      <4>3. Restores(jrnl, m) /\ Undone(p, jrnl.recs[m].pg)
        BY <1>3, <4>1
      <4>4. \A x \in Page : Undone(p, x) => Undone(p, x)'
        BY <1>14, <1>15, <1>16 DEF Undone
      <4>5. jrnl' = jrnl
        BY <1>1
      <4> QED
        BY <4>2, <4>3, <4>4, <4>5 DEF Undone
    <3> QED
      BY <3>1, <3>2
  <2> QED
    BY <1>1, <1>2, <1>3, <1>4, <1>7, <1>8, <1>11, <1>14, <1>16, <2>1, <2>2, ProcessUndoes
<1>18. UNCHANGED <<faults, fullSync>>
  BY <1>1
<1>19. IInv'
  BY <1>1, <1>2, <1>8, <1>11, <1>12, <1>15, <1>17, <1>18, UndoingTyped, FileStep DEF IInv, Types
<1> QED
  BY <1>19, <1>15

\* Pages that are read into a cache, or no longer dirty.
LEMMA CleanEntry ==
  ASSUME NEW v \in Val
  PROVE  Clean(v) \in Entry
BY DEF Clean, Entry

\* The first half of pager_unwritelock.
LEMMA UnwriteTyped ==
  ASSUME NEW r \in Handle
  PROVE  /\ Unwrite(r) \in Handle
         /\ Unwrite(r).pc = "unlock" /\ Unwrite(r).lock = r.lock /\ Unwrite(r).state = r.state
         /\ Unwrite(r).resv = r.resv /\ Unwrite(r).job = r.job /\ Unwrite(r).tx = r.tx
         /\ Unwrite(r).orig = r.orig /\ Unwrite(r).dbSize = r.dbSize
         /\ Unwrite(r).inJournal = {} /\ ~Unwrite(r).needSync
         /\ DOMAIN Unwrite(r).cache = DOMAIN r.cache
         /\ \A i \in DOMAIN r.cache : Unwrite(r).cache[i] = Clean(r.cache[i].val)
<1> DEFINE c == [i \in DOMAIN r.cache |-> Clean(r.cache[i].val)]
<1>1. r.cache \in Cache
  BY DEF Handle
<1>2. c \in Cache
  <2>1. DOMAIN r.cache \in SUBSET Page /\ \A i \in DOMAIN r.cache : r.cache[i].val \in Val
    BY <1>1, CacheTyped
  <2>2. c \in [DOMAIN r.cache -> Entry]
    BY <2>1, CleanEntry
  <2> QED
    BY <2>1, <2>2, CacheMade
<1>3. DOMAIN c = DOMAIN r.cache /\ \A i \in DOMAIN r.cache : c[i] = Clean(r.cache[i].val)
  OBVIOUS
<1>4. Unwrite(r) = [r EXCEPT !.pc = "unlock", !.needSync = FALSE, !.dirtyCache = FALSE, !.nRec = 0,
                             !.hdr = 0, !.inJournal = {}, !.played = 0, !.cache = c]
  BY DEF Unwrite
<1> HIDE DEF c
<1>5. Unwrite(r) \in Handle
  <2> DEFINE s == [r EXCEPT !.pc = "unlock", !.needSync = FALSE, !.dirtyCache = FALSE]
             t == [s EXCEPT !.nRec = 0, !.hdr = 0, !.inJournal = {}, !.played = 0]
  <2>1. s \in Handle
    BY <1>2 DEF Handle
  <2>2. Unwrite(r) = [t EXCEPT !.cache = c]
    BY <1>4
  <2> HIDE DEF s
  <2>3. t \in Handle
    BY <2>1 DEF Handle
  <2> HIDE DEF t
  <2> QED
    BY <1>2, <2>2, <2>3 DEF Handle
<1> QED
  BY <1>3, <1>4, <1>5 DEF Handle

\* A process whose journal is gone, and that has not given its lock back.
LEMMA ProcessUnlocks ==
  ASSUME NEW p \in Proc, NEW r \in Handle, h'[p] = r, r.pc = "unlock", jrnl' = NoJournal,
         r.job \in {"read", "commit", "rollback"}, r.lock # NO_LOCK,
         r.inJournal = {}, ~r.needSync,
         IF r.job = "read"
         THEN /\ r.lock = EXCLUSIVE /\ ~r.resv /\ r.tx = 0
              /\ DOMAIN r.cache = {} /\ r.orig = 0
         ELSE /\ r.resv /\ r.tx # 0 /\ r.lock >= RESERVED /\ r.state >= RESERVED
              /\ r.state >= EXCLUSIVE <=> r.lock = EXCLUSIVE,
         CommittedOK(p)'
  PROVE  Process(p)'
<1>1. Levels(p)'
  BY DEF Levels, Opening, Syncing, Writing, Undoing
<1>2. OpeningOK(p)' /\ ReadingOK(p)' /\ OwnJournal(p)' /\ ChangesOK(p)'
  BY DEF OpeningOK, ReadingOK, OwnJournal, ChangesOK, Open, Opening, Undoing
<1>3. CallOK(p)' /\ UndoingOK(p)'
  BY DEF CallOK, UndoingOK, Syncing, Writing, Undoing
<1> QED
  BY <1>1, <1>2, <1>3 DEF Process

\* When no record is left to restore, the file is what the journal stood for.
LEMMA AllRestored ==
  ASSUME IInv, NEW p \in Proc, h[p].pc = "play", ~MoreRecords(p)
  PROVE  file = Content
<1>1. h[p].pc \in Undoing
  BY DEF Undoing
<1>2. /\ file \in File /\ Content \in File /\ Zeroed(file) /\ Zeroed(Content) /\ jrnl \in Journal
      /\ Len(jrnl.recs) \in Nat /\ DOMAIN jrnl.recs = 1..Len(jrnl.recs)
      /\ h[p].played \in Nat /\ h[p].played <= Len(jrnl.recs)
      /\ jrnl.count # Junk => file.size = jrnl.size
      /\ \A m \in 1..h[p].played : Restores(jrnl, m) /\ Undone(p, jrnl.recs[m].pg)
      /\ jrnl.count \in Nat \union {Junk} /\ jrnl.size = Content.size
  BY <1>1, UndoingTyped, ContentTyped, JournalTyped, HandleTyped, CallTyped
     DEF Process, UndoingOK, Brings
<1>3. CASE jrnl.count = Junk
  BY <1>2, <1>3, RestoredFile DEF Content
<1>4. CASE jrnl.count # Junk
  <2>1. ASSUME NEW m \in DOMAIN jrnl.recs, Restores(jrnl, m)
        PROVE  m \in 1..h[p].played
    <3> SUFFICES ASSUME m > h[p].played
                 PROVE  FALSE
      BY <1>2
    <3>1. Restores(jrnl, h[p].played + 1) /\ h[p].played < Len(jrnl.recs)
      BY <1>2, <1>4, <2>1 DEF Restores
    <3> QED
      BY <3>1 DEF MoreRecords
  <2>2. ASSUME NEW i \in Page, i <= jrnl.size
        PROVE  file.page[i] = Content.page[i]
    <3>1. CASE Originals(jrnl, i) = {}
      BY <1>2, <1>4, <2>2, <3>1, RestoredFile DEF Content
    <3>2. CASE Originals(jrnl, i) # {}
      <4>1. PICK m \in DOMAIN jrnl.recs : jrnl.recs[m].pg = i /\ Restores(jrnl, m)
        BY <3>2 DEF Originals
      <4> QED
        BY <1>2, <2>1, <4>1 DEF Undone
    <3> QED
      BY <3>1, <3>2
  <2>3. \A i \in Page : file.page[i] = Content.page[i]
    <3>1. jrnl.size \in 0..MaxPage
      BY <1>2, JournalTyped
    <3> QED
      BY <1>2, <1>4, <2>2, <3>1, Numbers DEF Zeroed
  <2> QED
    BY <1>2, <1>4, <2>3, SameFile
<1> QED
  BY <1>3, <1>4

\* When the last record is restored the file is the content, and the journal is not needed.
LEMMA StepPlaybackEnd ==
  ASSUME IInv, NEW p \in Proc, PlaybackEnd(p)
  PROVE  IInv' /\ Content' = Content
<1> DEFINE r == Unwrite(h[p])
<1>1. /\ h[p].pc = "play" /\ ~MoreRecords(p) /\ DeleteJournal
      /\ file' = file /\ disk' = disk /\ clock' = clock /\ before' = before
      /\ UNCHANGED fileVars /\ UNCHANGED <<faults, fullSync>>
  BY DEF PlaybackEnd, fileVars, histVars
<1>2. h[p].pc \in Undoing
  BY <1>1 DEF Undoing
<1>3. file = Content
  BY <1>1, AllRestored
<1>4. Files' /\ Content' = file /\ jrnl' \in Journal /\ linked' = FALSE /\ ghosts' \in Seq(Journal)
  BY <1>1, <1>3, CallTyped, JournalDeleted
<1>5. /\ r \in Handle /\ r.pc = "unlock" /\ r.lock = h[p].lock /\ r.state = h[p].state
      /\ r.resv = h[p].resv /\ r.job = h[p].job /\ r.tx = h[p].tx /\ r.orig = h[p].orig
      /\ r.dbSize = h[p].dbSize /\ r.inJournal = {} /\ ~r.needSync /\ DOMAIN r.cache = DOMAIN h[p].cache
  BY <1>2, UndoingTyped, UnwriteTyped
<1>6. h' = [h EXCEPT ![p] = r] /\ h'[p] = r
  BY <1>2, UndoingTyped DEF PlaybackEnd
<1> HIDE DEF r
<1>7. jrnl' = NoJournal
  BY <1>1 DEF DeleteJournal
<1>8. CommittedOK(p)'
  BY <1>2, <1>5, <1>6, UndoingTyped DEF CommittedOK
<1>9. /\ h[p].lock = EXCLUSIVE /\ h[p].state >= EXCLUSIVE /\ h[p].job \in {"read", "rollback"}
      /\ h[p].state \in {NO_LOCK, SHARED, RESERVED, EXCLUSIVE, SYNCED}
      /\ IF h[p].job = "read"
         THEN /\ ~h[p].resv /\ h[p].tx = 0
              /\ DOMAIN h[p].cache = {} /\ h[p].orig = 0
         ELSE h[p].resv /\ h[p].tx # 0
  BY <1>2, UndoingTyped, HandleTyped
<1>10. Process(p)'
  BY <1>1, <1>5, <1>6, <1>7, <1>8, <1>9, ProcessUnlocks
<1>11. IInv'
  BY <1>1, <1>2, <1>4, <1>5, <1>6, <1>10, UndoingTyped, FileStep DEF IInv, Types
<1> QED
  BY <1>11, <1>3, <1>4

\* The lock becomes SHARED again: after a commit, a rollback or a recovery.
LEMMA StepUnlockToShared ==
  ASSUME Risks = {}, IInv, Straight, NEW p \in Proc, UnlockToShared(p)
  PROVE  IInv'
<1>1. /\ h[p].pc = "unlock" /\ UNCHANGED <<fileVars, jrnlVars, histVars, faults, fullSync>>
      /\ file' = file /\ Content' = Content
  BY DEF UnlockToShared, fileVars, jrnlVars, Content
<1>2. /\ h \in [Proc -> Handle] /\ h[p] \in Handle /\ Process(p) /\ jrnl = NoJournal
      /\ h[p].job \in {"read", "commit", "rollback"} /\ h[p].lock # NO_LOCK
  BY <1>1, CallTyped, HandleTyped DEF Process, UndoingOK, Levels
<1>3. file = Content /\ file \in File
  BY <1>2, CallTyped, NothingToRestore, ContentTyped
<1>4. CASE h[p].job = "read"
  <2> DEFINE r == [h[p] EXCEPT !.lock = SHARED, !.state = SHARED, !.resv = FALSE, !.job = "none",
                              !.pc = "first"]
  <2>1. h' = [h EXCEPT ![p] = r] /\ h'[p] = r
    BY <1>2, <1>4 DEF UnlockToShared
  <2>2. /\ h[p].tx = 0 /\ DOMAIN h[p].cache = {} /\ h[p].orig = 0 /\ h[p].inJournal = {}
        /\ ~h[p].needSync
    BY <1>2, <1>4 DEF Process, OpeningOK
  <2>3. /\ r.pc = "first" /\ r.lock = SHARED /\ r.state = SHARED /\ ~r.resv /\ r.tx = h[p].tx
        /\ r.job = "none" /\ r.cache = h[p].cache /\ r.orig = h[p].orig
        /\ r.inJournal = h[p].inJournal /\ r.needSync = h[p].needSync /\ r.dbSize = h[p].dbSize
    BY <1>2 DEF Handle
  <2>4. r \in Handle
    BY <1>2 DEF Handle
  <2> HIDE DEF r
  <2>5. Process(p)'
    BY <1>1, <1>3, <2>1, <2>2, <2>3, ProcessOpens
  <2>6. r.lock < EXCLUSIVE /\ h[p].lock # NO_LOCK /\ ~r.resv /\ h[p].pc # "out"
    BY <1>1, <1>2, <2>3
  <2> QED
    BY <1>1, <2>1, <2>4, <2>5, <2>6, SameLocks
<1>5. CASE h[p].job = "commit"
  <2> DEFINE r == [h[p] EXCEPT !.lock = SHARED, !.state = SHARED, !.resv = FALSE, !.job = "none",
                              !.pc = "idle", !.dbSize = -1, !.orig = 0, !.tx = 0]
  <2>1. h' = [h EXCEPT ![p] = r] /\ h'[p] = r
    BY <1>2, <1>5 DEF UnlockToShared
  <2>2. /\ h[p].inJournal = {} /\ ~h[p].needSync /\ 1 \in DOMAIN h[p].cache
        /\ \A i \in DOMAIN h[p].cache : i <= file.size + 1 /\ h[p].cache[i] = Clean(file.page[i])
    BY <1>1, <1>2, <1>5 DEF Process, CommittedOK
  <2>3. /\ r.pc = "idle" /\ r.lock = SHARED /\ r.state = SHARED /\ ~r.resv /\ r.tx = 0
        /\ r.job = "none" /\ r.cache = h[p].cache /\ r.orig = 0
        /\ r.inJournal = h[p].inJournal /\ r.needSync = h[p].needSync /\ r.dbSize = -1
        /\ r.misled = h[p].misled
    BY <1>2 DEF Handle
  <2>4. r \in Handle
    <3>1. 0 \in 0..MaxPage /\ 0 \in Val /\ -1 \in -1..MaxPage
      BY Numbers
    <3> QED
      BY <1>2, <3>1 DEF Handle
  <2> HIDE DEF r
  <2>5. ReadingOK(p)'
    <3>1. ~r.misled
      BY <1>1, <1>2, <1>5, <2>3 DEF Straight, Process, Levels
    <3>2. Cached(h[p])'
      BY <1>1, <2>1, <2>2, <2>3, <3>1 DEF Cached
    <3> QED
      BY <1>1, <1>3, <2>1, <2>2, <2>3, <3>2 DEF ReadingOK
  <2>6. Process(p)'
    BY <2>1, <2>3, <2>5, ProcessReads
  <2>7. r.lock < EXCLUSIVE /\ h[p].lock # NO_LOCK /\ ~r.resv /\ h[p].pc # "out"
    BY <1>1, <1>2, <2>3
  <2> QED
    BY <1>1, <2>1, <2>4, <2>6, <2>7, SameLocks
<1>6. CASE h[p].job = "rollback"
  <2>1. h' = [h EXCEPT ![p] = Unopened]
    BY <1>2, <1>6 DEF UnlockToShared
  <2> QED
    BY <1>1, <2>1, CallTyped, StepOut
<1> QED
  BY <1>2, <1>4, <1>5, <1>6

\* A process without a transaction leaves nothing behind.
LEMMA StepRelease ==
  ASSUME IInv, NEW p \in Proc, Release(p)
  PROVE  IInv'
<1>1. h' = [h EXCEPT ![p] = Unopened] /\ UNCHANGED <<fileVars, jrnlVars, histVars, faults, fullSync>>
  BY DEF Release
<1> QED
  BY <1>1, CallTyped, StepOut

\* Nor does one that could not create its journal.
LEMMA StepCannotCreate ==
  ASSUME Risks = {}, IInv, NEW p \in Proc, CannotCreate(p)
  PROVE  IInv'
<1>1. h' = [h EXCEPT ![p] = Unopened] /\ UNCHANGED <<fileVars, jrnlVars, histVars, faults, fullSync>>
  BY DEF CannotCreate
<1> QED
  BY <1>1, CallTyped, StepOut

\* A process that dies may leave a journal, which brings the file back.
LEMMA StepCrash ==
  ASSUME IInv, NEW p \in Proc, Crash(p)
  PROVE  IInv'
<1>1. h' = [h EXCEPT ![p] = Unopened] /\ UNCHANGED <<fileVars, jrnlVars, histVars, fullSync>>
  BY DEF Crash
<1>2. faults' \in Nat /\ clock + faults' <= MaxTx + 1
  BY CallTyped, PagerAssumption DEF Crash
<1> QED
  BY <1>1, <1>2, StepOut

-----------------------------------------------------------------------------
(* sqlite3pager_begin.                                                      *)

\* What is known of a process that reads.
LEMMA ReadingTyped ==
  ASSUME IInv, NEW p \in Proc, h[p].pc \in {"idle", "create"}, h[p].tx = 0
  PROVE  /\ h \in [Proc -> Handle] /\ h[p] \in Handle /\ h[p].cache \in Cache
         /\ Types /\ Files /\ file \in File /\ Zeroed(file) /\ file = Content
         /\ file.size \in 0..MaxPage /\ file.size \in -1..MaxPage /\ file.size \in Nat
         /\ h[p].job = "none" /\ h[p].orig = 0 /\ h[p].inJournal = {} /\ ~h[p].needSync
         /\ 1 \in DOMAIN h[p].cache /\ Cached(h[p])
         /\ PageCount(p) = IF h[p].misled THEN h[p].dbSize ELSE file.size
         /\ h[p].pc = "idle" => h[p].lock = SHARED /\ h[p].state = SHARED /\ ~h[p].resv
         /\ h[p].pc = "create" => h[p].lock = RESERVED /\ h[p].state = RESERVED /\ h[p].resv
<1>1. /\ h \in [Proc -> Handle] /\ h[p] \in Handle /\ h[p].cache \in Cache /\ Types /\ Files
      /\ Levels(p) /\ ReadingOK(p)
  BY CallTyped, HandleTyped DEF Process
<1>2. file \in File /\ Zeroed(file)
  BY <1>1, ContentTyped
<1>3. file.size \in 0..MaxPage /\ file.size \in -1..MaxPage /\ file.size \in Nat
  BY <1>2, Numbers DEF File
<1>4. PageCount(p) = IF h[p].misled THEN h[p].dbSize ELSE file.size
  BY <1>1, <1>3 DEF ReadingOK, Cached, PageCount
<1> QED
  BY <1>1, <1>2, <1>3, <1>4 DEF Levels, ReadingOK, Opening

\* The reserved lock: a reader becomes the one writer.
LEMMA StepBeginReserved ==
  ASSUME IInv, NEW p \in Proc, BeginReserved(p)
  PROVE  IInv'
<1> DEFINE r == [h[p] EXCEPT !.pc = "create", !.lock = RESERVED, !.resv = TRUE,
                            !.state = RESERVED, !.dirtyCache = FALSE]
<1>1. /\ h[p].pc = "idle" /\ h[p].state = SHARED /\ \A q \in Others(p) : ~h[q].resv
      /\ UNCHANGED <<fileVars, jrnlVars, histVars, faults, fullSync>>
      /\ file' = file /\ Content' = Content
  BY DEF BeginReserved, InUse, fileVars, jrnlVars, Content
<1>2. h[p].tx = 0
  BY <1>1, CallTyped DEF Process, Levels
<1>3. h[p] \in Handle /\ h \in [Proc -> Handle]
  BY CallTyped, HandleTyped
<1>4. h' = [h EXCEPT ![p] = r] /\ h'[p] = r
  BY <1>3 DEF BeginReserved
<1>5. r \in Handle
  BY <1>3 DEF Handle
<1>6. /\ r.pc = "create" /\ r.lock = RESERVED /\ r.state = RESERVED /\ r.resv /\ r.tx = h[p].tx
      /\ r.job = h[p].job /\ r.cache = h[p].cache /\ r.orig = h[p].orig
      /\ r.inJournal = h[p].inJournal /\ r.needSync = h[p].needSync /\ r.dbSize = h[p].dbSize
      /\ r.misled = h[p].misled
  BY <1>3 DEF Handle
<1> HIDE DEF r
<1>7. /\ h[p].job = "none" /\ file = Content
      /\ h[p].orig = 0 /\ h[p].inJournal = {} /\ ~h[p].needSync
      /\ 1 \in DOMAIN h[p].cache /\ Cached(h[p])
      /\ h[p].lock = SHARED
  BY <1>1, <1>2, ReadingTyped
<1>8. ReadingOK(p)'
  <2>1. Cached(h[p])'
    BY <1>1, <1>4, <1>6, <1>7 DEF Cached
  <2> QED
    BY <1>1, <1>2, <1>4, <1>6, <1>7, <2>1 DEF ReadingOK
<1>9. Process(p)'
  BY <1>2, <1>4, <1>6, <1>7, <1>8, ProcessReads
<1>10. \A q \in Others(p) : /\ r.lock = EXCLUSIVE => h[q].lock = NO_LOCK
                            /\ h[q].lock = EXCLUSIVE => r.lock = NO_LOCK
                            /\ r.resv => ~h[q].resv
                            /\ file.size = 0 => r.pc = "out" \/ h[q].pc = "out"
  <2> SUFFICES ASSUME NEW q \in Others(p)
               PROVE  h[q].lock # EXCLUSIVE /\ (file.size = 0 => h[q].pc = "out")
    BY <1>1, <1>6
  <2> QED
    BY <1>1, <1>7 DEF IInv, Exclusion, Others
<1> QED
  BY <1>1, <1>4, <1>5, <1>9, <1>10, CallTyped, CallStep

\* A process with a transaction whose journal it has.
LEMMA ProcessWorks ==
  ASSUME NEW p \in Proc, NEW r \in Handle, h'[p] = r, r.tx # 0,
         r.pc \in {"idle"} \union Syncing \union Writing, r.resv,
         r.lock >= RESERVED, r.state >= RESERVED, r.state >= EXCLUSIVE <=> r.lock = EXCLUSIVE,
         r.pc \in {"write", "synced"} => r.state >= EXCLUSIVE,
         r.state = SYNCED => r.pc = "synced",
         r.pc = "synced" => r.job = "commit",
         r.pc \in Syncing \union {"wait", "write"} => r.job \in {"spill", "commit"},
         r.pc = "idle" => r.job = "none",
         jrnl' # NoJournal, jrnl'.count # Junk,
         \A k \in DOMAIN jrnl'.recs : jrnl'.recs[k].val # Junk,
         jrnl'.size = r.orig,
         ChangesOK(p)', CallOK(p)'
  PROVE  Process(p)'
<1>1. Levels(p)'
  BY DEF Levels, Opening, Syncing, Writing, Undoing
<1>2. OpeningOK(p)' /\ ReadingOK(p)' /\ OwnJournal(p)' /\ CommittedOK(p)'
  BY DEF OpeningOK, ReadingOK, OwnJournal, CommittedOK, Open, Opening, Syncing, Writing, Undoing
<1>3. UndoingOK(p)'
  BY DEF UndoingOK, Syncing, Writing, Undoing
<1> QED
  BY <1>1, <1>2, <1>3 DEF Process

\* An empty journal brings back the file as it is, unless its size is not the file's.
LEMMA StepCreateJournal ==
  ASSUME IInv, NEW p \in Proc, CreateJournal(p), ~h[p].misled
  PROVE  IInv' /\ Content' = Content
<1> DEFINE n == file.size
           r == [h[p] EXCEPT !.pc = "idle", !.dbSize = n, !.orig = n,
                            !.needSync = FALSE, !.started = FALSE, !.hdr = 0, !.nRec = 0,
                            !.inJournal = {}, !.tx = clock + 1]
<1>1. /\ h[p].pc = "create" /\ jrnl = NoJournal /\ clock + faults <= MaxTx
      /\ jrnl' = NewJournal(PageCount(p)) /\ linked' = FALSE /\ clock' = clock + 1
      /\ UNCHANGED <<fileVars, ghosts, before>> /\ UNCHANGED <<faults, fullSync>>
      /\ file' = file /\ disk' = disk /\ ghosts' = ghosts /\ before' = before
  BY DEF CreateJournal, fileVars
<1>2. h[p].tx = 0
  BY <1>1, CallTyped DEF Process, Levels, Syncing, Writing, Undoing
<1>3. /\ h[p] \in Handle /\ h \in [Proc -> Handle] /\ h[p].job = "none" /\ file = Content
      /\ n \in 0..MaxPage /\ n \in -1..MaxPage /\ n \in Nat /\ PageCount(p) = n
      /\ 1 \in DOMAIN h[p].cache /\ h[p].cache \in Cache
      /\ \A i \in DOMAIN h[p].cache : i <= n + 1 /\ h[p].cache[i] = Clean(file.page[i])
      /\ h[p].lock = RESERVED /\ h[p].state = RESERVED /\ h[p].resv
  BY <1>1, <1>2, ReadingTyped DEF Cached
<1>4. /\ clock + 1 \in Val /\ clock + 1 # 0 /\ clock \in Nat /\ clock' \in 1..(MaxTx + 1)
      /\ clock' + faults <= MaxTx + 1
  BY <1>1, CallTyped, PagerAssumption DEF Val, Types
<1>5. /\ Files' /\ Content' = file /\ jrnl' \in Journal /\ jrnl' # NoJournal
      /\ jrnl'.size = n /\ jrnl'.count = 0 /\ jrnl'.recs = <<>>
  BY <1>1, <1>3, CallTyped, JournalCreated
<1>6. h' = [h EXCEPT ![p] = r] /\ h'[p] = r
  <2> DEFINE m == PageCount(p)
  <2>1. h' = [h EXCEPT ![p] = [h[p] EXCEPT !.pc = "idle", !.dbSize = m, !.orig = m,
                                          !.needSync = FALSE, !.started = FALSE, !.hdr = 0,
                                          !.nRec = 0, !.inJournal = {}, !.tx = clock + 1]]
    BY DEF CreateJournal
  <2>2. m = n
    BY <1>3
  <2> HIDE DEF m
  <2>3. h' = [h EXCEPT ![p] = r]
    BY <2>1, <2>2
  <2> HIDE DEF r
  <2> QED
    BY <1>3, <2>3
<1>7. r \in Handle
  <2> DEFINE s == [h[p] EXCEPT !.pc = "idle", !.dbSize = n, !.orig = n, !.needSync = FALSE]
  <2>1. s \in Handle
    BY <1>3 DEF Handle
  <2>2. r = [s EXCEPT !.started = FALSE, !.hdr = 0, !.nRec = 0, !.inJournal = {}, !.tx = clock + 1]
    OBVIOUS
  <2>3. {} \in SUBSET Page /\ 0 \in Nat
    OBVIOUS
  <2> HIDE DEF s, r
  <2> QED
    BY <1>4, <2>1, <2>2, <2>3 DEF Handle
<1>8. /\ r.pc = "idle" /\ r.lock = h[p].lock /\ r.state = h[p].state /\ r.resv = h[p].resv
      /\ r.tx = clock + 1 /\ r.job = h[p].job /\ r.cache = h[p].cache /\ r.orig = n /\ r.dbSize = n
      /\ r.inJournal = {} /\ r.needSync = FALSE /\ r.started = FALSE /\ r.hdr = 0 /\ r.nRec = 0
  BY <1>3 DEF Handle
<1> HIDE DEF r
<1>9. Changed(p)' = {}
  <2>1. PageCount(p)' = n
    BY <1>3, <1>6, <1>8 DEF PageCount
  <2>2. Changed(p)' = {} \union {i \in Page : n < i /\ i <= n}
    BY <1>6, <1>8, <2>1 DEF Changed
  <2>3. \A i \in Page : ~(n < i /\ i <= n)
    BY <1>3, Numbers
  <2> QED
    BY <2>2, <2>3
<1>10. ASSUME NEW i \in Page
       PROVE  PageOK(p, i)'
  BY <1>1, <1>3, <1>5, <1>6, <1>8, <1>9, <1>10 DEF PageOK, Clean
<1>11. Recorded' = {} /\ Len(jrnl'.recs) = 0 /\ DOMAIN jrnl'.recs = {}
  BY <1>5 DEF Recorded
<1>12. ChangesOK(p)'
  <2>1. /\ r.inJournal = Recorded' /\ r.hdr + r.nRec = Len(jrnl'.recs)
        /\ r.orig <= file'.size /\ file'.size <= r.dbSize
        /\ ~r.started /\ file' = Content'
        /\ 1 \in DOMAIN r.cache /\ \A i \in DOMAIN r.cache : i <= r.dbSize + 1
    BY <1>1, <1>3, <1>5, <1>8, <1>11
  <2> QED
    BY <1>6, <1>9, <1>10, <2>1 DEF ChangesOK
<1>13. CallOK(p)'
  BY <1>6, <1>8 DEF CallOK, Syncing, Writing
<1>14. Process(p)'
  <2>1. /\ r.tx # 0 /\ r.lock = RESERVED /\ r.state = RESERVED /\ r.resv
        /\ jrnl'.count # Junk /\ jrnl'.size = r.orig /\ r.job = "none"
        /\ \A k \in DOMAIN jrnl'.recs : jrnl'.recs[k].val # Junk
    BY <1>3, <1>4, <1>5, <1>8, <1>11
  <2>2. r.lock >= RESERVED /\ r.state >= RESERVED /\ (r.state >= EXCLUSIVE <=> r.lock = EXCLUSIVE)
    BY <2>1
  <2> QED
    BY <1>5, <1>6, <1>7, <1>8, <1>12, <1>13, <2>1, <2>2, ProcessWorks DEF Syncing, Writing
<1>15. IInv'
  BY <1>1, <1>3, <1>4, <1>5, <1>6, <1>7, <1>8, <1>14, FileStep DEF IInv, Types
<1> QED
  BY <1>15, <1>3, <1>5

-----------------------------------------------------------------------------
(* sqlite3pager_get of another page.                                        *)

\* What is known of a process with a transaction.
LEMMA OpenTyped ==
  ASSUME IInv, NEW p \in Proc, Open(p)
  PROVE  /\ h \in [Proc -> Handle] /\ h[p] \in Handle /\ h[p].cache \in Cache
         /\ Types /\ Files /\ file \in File /\ Content \in File /\ Zeroed(file) /\ Zeroed(Content)
         /\ jrnl \in Journal /\ jrnl # NoJournal /\ jrnl.count # Junk /\ Brings(jrnl, Rest, Content)
         /\ \A k \in DOMAIN jrnl.recs : jrnl.recs[k].val # Junk
         /\ jrnl.size = h[p].orig /\ Content.size = h[p].orig
         /\ file.size \in 0..MaxPage /\ h[p].orig \in 0..MaxPage /\ h[p].dbSize \in 0..MaxPage
         /\ h[p].orig <= file.size /\ file.size <= h[p].dbSize /\ PageCount(p) = h[p].dbSize
         /\ h[p].tx # 0 /\ h[p].tx \in Val /\ h[p].resv /\ h[p].pc # "out"
         /\ h[p].pc \in {"idle"} \union Syncing \union Writing
         /\ h[p].lock >= RESERVED /\ h[p].state >= RESERVED
         /\ h[p].state >= EXCLUSIVE <=> h[p].lock = EXCLUSIVE
         /\ h[p].state = SYNCED => h[p].pc = "synced"
         /\ h[p].state = RESERVED => file = Content
         /\ h[p].pc = "idle" => h[p].job = "none"
         /\ 1 \in DOMAIN h[p].cache /\ \A i \in DOMAIN h[p].cache : i <= h[p].dbSize + 1
         /\ \A i \in Page : PageOK(p, i)
         /\ ChangesOK(p) /\ CallOK(p)
<1>1. /\ h \in [Proc -> Handle] /\ h[p] \in Handle /\ h[p].cache \in Cache /\ Types /\ Files
      /\ Levels(p) /\ OwnJournal(p) /\ ChangesOK(p) /\ CallOK(p)
      /\ h[p].orig \in 0..MaxPage /\ h[p].dbSize \in -1..MaxPage /\ h[p].tx \in Val
  BY CallTyped, HandleTyped DEF Process
<1>2. /\ h[p].tx # 0 /\ h[p].resv /\ h[p].pc \in {"idle"} \union Syncing \union Writing
      /\ h[p].lock >= RESERVED /\ h[p].state >= RESERVED
      /\ h[p].state >= EXCLUSIVE <=> h[p].lock = EXCLUSIVE
      /\ h[p].state = SYNCED => h[p].pc = "synced"
      /\ h[p].pc = "idle" => h[p].job = "none"
      /\ h[p].pc # "out"
  BY <1>1 DEF Levels, Open, Opening, Syncing, Writing, Undoing
<1>3. /\ jrnl # NoJournal /\ jrnl.count # Junk /\ jrnl.size = h[p].orig
      /\ \A k \in DOMAIN jrnl.recs : jrnl.recs[k].val # Junk
  BY <1>1 DEF OwnJournal
<1>4. /\ file \in File /\ Content \in File /\ Zeroed(file) /\ Zeroed(Content) /\ jrnl \in Journal
      /\ Brings(jrnl, Rest, Content) /\ file.size \in 0..MaxPage /\ jrnl.size = Content.size
  BY <1>1, <1>3, ContentTyped DEF File, Brings
<1>5. /\ h[p].orig <= file.size /\ file.size <= h[p].dbSize
      /\ h[p].state = RESERVED => file = Content
      /\ 1 \in DOMAIN h[p].cache /\ \A i \in DOMAIN h[p].cache : i <= h[p].dbSize + 1
      /\ \A i \in Page : PageOK(p, i)
  BY <1>1 DEF ChangesOK
<1>6. h[p].dbSize \in 0..MaxPage /\ PageCount(p) = h[p].dbSize
  BY <1>1, <1>4, <1>5, Numbers DEF PageCount
<1> QED
  BY <1>1, <1>2, <1>3, <1>4, <1>5, <1>6

\* The Pager after page i came into the cache in the place of page v.
LEMMA LoadTyped ==
  ASSUME IInv, NEW p \in Proc, NEW i \in Page \ DOMAIN h[p].cache, NEW v
  PROVE  LET r == Load(p, i, v)
         IN  /\ r \in Handle
             /\ r.pc = "idle" /\ r.job = "none" /\ r.dbSize = PageCount(p)
             /\ r.lock = h[p].lock /\ r.state = h[p].state /\ r.resv = h[p].resv
             /\ r.orig = h[p].orig /\ r.inJournal = h[p].inJournal /\ r.hdr = h[p].hdr
             /\ r.nRec = h[p].nRec /\ r.needSync = h[p].needSync /\ r.started = h[p].started
             /\ r.dirtyCache = h[p].dirtyCache /\ r.tx = h[p].tx /\ r.misled = h[p].misled
             /\ DOMAIN r.cache = (DOMAIN h[p].cache \ {v}) \union {i}
             /\ \A k \in DOMAIN h[p].cache \ {v} : r.cache[k] = h[p].cache[k]
             /\ r.cache[i] = [Clean(Fetch(p, i)) EXCEPT
                                !.inJournal = i <= h[p].orig /\ i \in h[p].inJournal]
<1> DEFINE e == [Clean(Fetch(p, i)) EXCEPT !.inJournal = i <= h[p].orig /\ i \in h[p].inJournal]
           S == (DOMAIN h[p].cache \ {v}) \union {i}
           c == [k \in S |-> IF k = i THEN e ELSE h[p].cache[k]]
<1>1. /\ h[p] \in Handle /\ h[p].cache \in Cache /\ file \in File /\ h[p].dbSize \in -1..MaxPage
  BY CallTyped, HandleTyped, ContentTyped
<1>2. PageCount(p) \in -1..MaxPage
  BY <1>1, Numbers DEF PageCount, File
<1>3. Fetch(p, i) \in Val
  BY <1>1, Numbers DEF Fetch, File
<1>4. e \in Entry
  <2>1. (i <= h[p].orig /\ i \in h[p].inJournal) \in BOOLEAN
    OBVIOUS
  <2> QED
    BY <1>3, <2>1 DEF Entry, Clean
<1> HIDE DEF e
<1>5. S \in SUBSET Page /\ \A k \in S : k # i => h[p].cache[k] \in Entry
  BY <1>1, CacheTyped
<1>6. c \in Cache
  <2>1. c \in [S -> Entry]
    BY <1>4, <1>5
  <2> HIDE DEF c
  <2> QED
    BY <1>5, <2>1, CacheMade
<1>7. /\ DOMAIN c = S /\ \A k \in DOMAIN h[p].cache \ {v} : c[k] = h[p].cache[k]
      /\ c[i] = e
  OBVIOUS
<1>8. Load(p, i, v) = [h[p] EXCEPT !.pc = "idle", !.job = "none", !.want = NoPage,
                                   !.victim = NoPage, !.dbSize = PageCount(p), !.cache = c]
  BY DEF Load, e
<1> HIDE DEF c, S
<1>9. Load(p, i, v) \in Handle
  <2> DEFINE s == [h[p] EXCEPT !.pc = "idle", !.job = "none", !.dbSize = PageCount(p)]
             t == [s EXCEPT !.want = NoPage, !.victim = NoPage]
  <2>1. s \in Handle
    BY <1>1, <1>2 DEF Handle
  <2>2. Load(p, i, v) = [t EXCEPT !.cache = c]
    BY <1>8
  <2>3. NoPage \in 0..MaxPage
    BY Numbers
  <2> HIDE DEF s
  <2>4. t \in Handle
    BY <2>1, <2>3 DEF Handle
  <2> HIDE DEF t
  <2> QED
    BY <1>6, <2>2, <2>4 DEF Handle
<1>10. LET r == Load(p, i, v)
       IN  /\ r.pc = "idle" /\ r.job = "none" /\ r.dbSize = PageCount(p)
           /\ r.lock = h[p].lock /\ r.state = h[p].state /\ r.resv = h[p].resv
           /\ r.orig = h[p].orig /\ r.inJournal = h[p].inJournal /\ r.hdr = h[p].hdr
           /\ r.nRec = h[p].nRec /\ r.needSync = h[p].needSync /\ r.started = h[p].started
           /\ r.dirtyCache = h[p].dirtyCache /\ r.tx = h[p].tx /\ r.cache = c
           /\ r.misled = h[p].misled
  BY <1>1, <1>8 DEF Handle
<1> QED
  BY <1>7, <1>9, <1>10 DEF e, S

\* A reader reads another page.
LEMMA LoadedByReader ==
  ASSUME IInv, NEW p \in Proc, h[p].pc = "idle", h[p].tx = 0,
         NEW i \in Page \ DOMAIN h[p].cache, i <= PageCount(p) \/ h[p].misled, NEW v, v # 1,
         h' = [h EXCEPT ![p] = Load(p, i, v)],
         UNCHANGED <<fileVars, jrnlVars, histVars, faults, fullSync>>
  PROVE  IInv'
<1> DEFINE r == Load(p, i, v)
           n == PageCount(p)
<1>1. /\ file \in File /\ file = Content /\ file.size \in Nat /\ h[p].misled \in BOOLEAN
      /\ h[p].orig = 0 /\ h[p].inJournal = {} /\ ~h[p].needSync /\ 1 \in DOMAIN h[p].cache
      /\ Cached(h[p]) /\ n = IF h[p].misled THEN h[p].dbSize ELSE file.size
      /\ h[p].lock = SHARED /\ h[p].state = SHARED /\ ~h[p].resv /\ h[p].job = "none"
      /\ h \in [Proc -> Handle]
  BY ReadingTyped, CallTyped, HandleTyped
<1>2. file' = file /\ Content' = Content
  BY DEF fileVars, jrnlVars, Content
<1>3. h'[p] = r
  BY <1>1
<1>4. /\ r \in Handle
      /\ r.pc = "idle" /\ r.job = "none" /\ r.dbSize = n
      /\ r.lock = h[p].lock /\ r.state = h[p].state /\ r.resv = h[p].resv
      /\ r.orig = h[p].orig /\ r.inJournal = h[p].inJournal
      /\ r.needSync = h[p].needSync /\ r.tx = h[p].tx /\ r.misled = h[p].misled
      /\ DOMAIN r.cache = (DOMAIN h[p].cache \ {v}) \union {i}
      /\ \A k \in DOMAIN h[p].cache \ {v} : r.cache[k] = h[p].cache[k]
      /\ r.cache[i] = [Clean(Fetch(p, i)) EXCEPT !.inJournal = i <= h[p].orig /\ i \in h[p].inJournal]
  BY LoadTyped
<1> HIDE DEF r, n
<1>5. r.cache[i] = Clean(Fetch(p, i))
  <2>1. (i <= h[p].orig /\ i \in h[p].inJournal) = FALSE
    BY <1>1
  <2>2. r.cache[i] = [Clean(Fetch(p, i)) EXCEPT !.inJournal = FALSE]
    BY <1>4, <2>1
  <2> QED
    BY <2>2 DEF Clean
<1>6. /\ Fetch(p, i) = (IF i <= n THEN file.page[i] ELSE Blank)
      /\ n = file.size => Fetch(p, i) = file.page[i]
      /\ n \in 0..MaxPage
  BY Fetched DEF n
<1>7. Cached(h[p])'
  <2>1. CASE h[p].misled
    <3>1. n = h[p].dbSize /\ n >= 0
      BY <1>1, <1>6, <2>1, Numbers
    <3>2. \A k \in DOMAIN h[p].cache :
            h[p].cache[k] = Clean(IF k <= n THEN file.page[k] ELSE Blank)
      BY <1>1, <2>1, <3>1 DEF Cached
    <3>3. r.cache[i] = Clean(IF i <= n THEN file.page[i] ELSE Blank)
      BY <1>5, <1>6
    <3>4. \A k \in DOMAIN r.cache : r.cache[k] = Clean(IF k <= n THEN file.page[k] ELSE Blank)
      BY <1>4, <3>2, <3>3
    <3>5. r.misled
      BY <1>4, <2>1
    <3>6. r.dbSize = n
      BY <1>4
    <3>7. Cached(r)
      BY <3>1, <3>4, <3>5, <3>6 DEF Cached
    <3> QED
      BY <1>2, <1>3, <3>7 DEF Cached
  <2>2. CASE ~h[p].misled
    <3>1. i \in Nat /\ i <= file.size + 1 /\ n = file.size
      BY <1>1, <2>2, Numbers DEF n
    <3>2. \A k \in DOMAIN h[p].cache : k <= file.size + 1 /\ h[p].cache[k] = Clean(file.page[k])
      BY <1>1, <2>2 DEF Cached
    <3>3. \A k \in DOMAIN r.cache : k <= file.size + 1 /\ r.cache[k] = Clean(file.page[k])
      BY <1>4, <1>5, <1>6, <3>1, <3>2
    <3> QED
      BY <1>2, <1>3, <1>4, <2>2, <3>1, <3>3 DEF Cached
  <2> QED
    BY <2>1, <2>2
<1>8. ReadingOK(p)'
  <2>1. 1 \in DOMAIN r.cache
    BY <1>1, <1>4
  <2> QED
    BY <1>1, <1>2, <1>3, <1>4, <1>7, <2>1 DEF ReadingOK
<1>9. Process(p)'
  BY <1>1, <1>3, <1>4, <1>8, ProcessReads
<1> QED
  BY <1>1, <1>3, <1>4, <1>9, SameLocks DEF r

\* A writer reads another page, one it has spilled among them.
LEMMA LoadedByWriter ==
  ASSUME IInv, NEW p \in Proc, Open(p), h[p].state # SYNCED,
         NEW i \in Page \ DOMAIN h[p].cache, i <= h[p].dbSize + 1, NEW v, v # 1,
         v \in DOMAIN h[p].cache => ~h[p].cache[v].dirty,
         h' = [h EXCEPT ![p] = Load(p, i, v)],
         UNCHANGED <<fileVars, jrnlVars, histVars, faults, fullSync>>
  PROVE  IInv'
<1> DEFINE r == Load(p, i, v)
           c == h[p].cache
<1>1. /\ file' = file /\ Content' = Content /\ jrnl' = jrnl /\ linked' = linked
      /\ Recorded' = Recorded /\ \A k : Synced(k)' <=> Synced(k)
  BY DEF fileVars, jrnlVars, Content, Recorded, Synced
<1>2. h'[p] = r
  BY OpenTyped
<1>3. /\ r \in Handle
      /\ r.pc = "idle" /\ r.job = "none" /\ r.dbSize = PageCount(p)
      /\ r.lock = h[p].lock /\ r.state = h[p].state /\ r.resv = h[p].resv
      /\ r.orig = h[p].orig /\ r.inJournal = h[p].inJournal /\ r.hdr = h[p].hdr
      /\ r.nRec = h[p].nRec /\ r.needSync = h[p].needSync /\ r.started = h[p].started
      /\ r.dirtyCache = h[p].dirtyCache /\ r.tx = h[p].tx
      /\ DOMAIN r.cache = (DOMAIN c \ {v}) \union {i}
      /\ \A k \in DOMAIN c \ {v} : r.cache[k] = c[k]
      /\ r.cache[i] = [Clean(Fetch(p, i)) EXCEPT !.inJournal = i <= h[p].orig /\ i \in h[p].inJournal]
  BY LoadTyped
<1>4. PageCount(p) = h[p].dbSize /\ h[p].dbSize \in 0..MaxPage
  BY OpenTyped
<1> HIDE DEF r
<1>5. Changed(p)' = Changed(p)
  <2>1. PageCount(p)' = h[p].dbSize
    BY <1>1, <1>2, <1>3, <1>4 DEF PageCount
  <2> QED
    BY <1>2, <1>3, <1>4, <2>1 DEF Changed
<1>6. Fetch(p, i) = file.page[i]
  <2>1. /\ Zeroed(file) /\ file.size <= h[p].dbSize /\ file.size \in 0..MaxPage /\ h[p].dbSize \in 0..MaxPage
    BY OpenTyped
  <2> QED
    BY <1>4, <2>1, Numbers DEF Fetch, Zeroed
<1>7. /\ r.cache[i].val = file.page[i] /\ ~r.cache[i].dirty /\ ~r.cache[i].needSync
      /\ r.cache[i].inJournal = (i <= h[p].orig /\ i \in h[p].inJournal)
      /\ i \notin h[p].inJournal => r.cache[i] = Clean(file.page[i])
  BY <1>3, <1>6 DEF Clean
<1>8. ASSUME NEW k \in Page
      PROVE  PageOK(p, k)'
  <2>1. PageOK(p, k)
    BY OpenTyped
  <2>2. CASE k = i
    <3>1. k \notin DOMAIN c /\ k \in DOMAIN r.cache
      BY <1>3, <2>2
    <3>2. k \in Changed(p) => /\ file.page[k] = h[p].tx /\ k <= file.size
                              /\ h[p].started /\ (k <= h[p].orig => Synced(k))
      BY <2>1, <3>1 DEF PageOK
    <3>3. k \notin Changed(p) => file.page[k] = Content.page[k] /\ k \notin h[p].inJournal
      BY <2>1, <3>1 DEF PageOK, Changed
    <3>4. /\ k \in Changed(p)' => /\ r.cache[k].val = r.tx
                                  /\ r.cache[k].dirty \/ (file'.page[k] = r.tx /\ k <= file'.size)
          /\ k \notin Changed(p)' =>
               r.cache[k] = Clean(Content'.page[k]) /\ file'.page[k] = Content'.page[k]
          /\ k <= r.orig => (r.cache[k].inJournal <=> k \in r.inJournal)
          /\ ~r.cache[k].needSync
          /\ k \in Changed(p)' => r.started /\ (k <= r.orig => Synced(k)')
      BY <1>1, <1>3, <1>5, <1>7, <2>2, <3>2, <3>3
    <3> QED
      BY <1>2, <3>1, <3>4 DEF PageOK
  <2>3. CASE k # i /\ k \in DOMAIN c /\ k # v
    <3>1. k \in DOMAIN r.cache /\ r.cache[k] = c[k]
      BY <1>3, <2>3
    <3> QED
      BY <1>1, <1>2, <1>3, <1>5, <2>1, <2>3, <3>1 DEF PageOK
  <2>4. CASE k # i /\ k \in DOMAIN c /\ k = v
    <3>1. k \notin DOMAIN r.cache /\ ~c[k].dirty
      BY <1>3, <2>4
    <3>2. ~c[k].needSync
      BY <2>1, <2>4, <3>1 DEF PageOK
    <3> QED
      BY <1>1, <1>2, <1>3, <1>5, <2>1, <2>4, <3>1, <3>2 DEF PageOK
  <2>5. CASE k # i /\ k \notin DOMAIN c
    <3>1. k \notin DOMAIN r.cache
      BY <1>3, <2>5
    <3> QED
      BY <1>1, <1>2, <1>3, <1>5, <2>1, <2>5, <3>1 DEF PageOK
  <2> QED
    BY <2>2, <2>3, <2>4, <2>5
<1>9. ChangesOK(p)'
  <2>1. ChangesOK(p) /\ Open(p)
    BY OpenTyped
  <2>2. /\ 1 \in DOMAIN r.cache /\ \A k \in DOMAIN r.cache : k <= r.dbSize + 1
        /\ Junk \notin jrnl'.may <=> Junk \notin jrnl.may
    BY <1>1, <1>3, <1>4, OpenTyped
  <2> QED
    BY <1>1, <1>2, <1>3, <1>4, <1>5, <1>8, <2>1, <2>2 DEF ChangesOK
<1>10. CallOK(p)'
  BY <1>2, <1>3 DEF CallOK, Syncing, Writing
<1>11. Process(p)'
  <2>1. /\ r.tx # 0 /\ r.resv /\ r.lock >= RESERVED /\ r.state >= RESERVED
        /\ (r.state >= EXCLUSIVE <=> r.lock = EXCLUSIVE) /\ r.state # SYNCED
        /\ jrnl' # NoJournal /\ jrnl'.count # Junk /\ jrnl'.size = r.orig
        /\ \A k \in DOMAIN jrnl'.recs : jrnl'.recs[k].val # Junk
    BY <1>1, <1>3, OpenTyped
  <2> QED
    BY <1>2, <1>3, <1>9, <1>10, <2>1, ProcessWorks DEF Syncing, Writing
<1>12. h[p].pc # "out"
  BY OpenTyped
<1> QED
  BY <1>2, <1>3, <1>11, <1>12, SameLocks DEF r

\* A page is read into a free place, or that of an unchanged page.
LEMMA StepGet ==
  ASSUME IInv, Straight, NEW p \in Proc, NEW i \in Page, Get(p, i)
  PROVE  IInv'
<1>1. /\ Wanted(p, i) /\ h[p].pc = "idle" /\ i \in Page \ DOMAIN h[p].cache
      /\ UNCHANGED <<fileVars, jrnlVars, histVars, faults, fullSync>>
  BY DEF Get, Wanted, InUse
<1>2. PICK v : /\ v # 1 /\ (v # NoPage => ~h[p].cache[v].dirty)
               /\ h' = [h EXCEPT ![p] = Load(p, i, v)]
  <2>1. PICK v \in IF Full(p) THEN {k \in Recyclable(p) : ~h[p].cache[k].needSync} ELSE {NoPage} :
          (v # NoPage => ~h[p].cache[v].dirty) /\ h' = [h EXCEPT ![p] = Load(p, i, v)]
    BY DEF Get
  <2>2. v # 1
    BY <2>1 DEF Recyclable
  <2> QED
    BY <2>1, <2>2
<1>3. CASE h[p].tx = 0
  <2>1. h[p].state = SHARED
    BY <1>1, <1>3, ReadingTyped
  <2>2. i <= PageCount(p) \/ h[p].misled
    <3>1. PageCount(p) \in Nat
      BY Fetched, Numbers
    <3> QED
      BY <1>1, <2>1, <3>1 DEF Wanted
  <2> QED
    BY <1>1, <1>2, <1>3, <2>2, LoadedByReader
<1>4. CASE h[p].tx # 0
  <2>1. Open(p)
    BY <1>1, <1>4 DEF Open, Undoing
  <2>2. h[p].state # SYNCED /\ h[p].dbSize \in 0..MaxPage /\ PageCount(p) = h[p].dbSize
        /\ h[p].state >= RESERVED /\ h[p].cache \in Cache
    BY <1>1, <2>1, OpenTyped
  <2>3. i <= h[p].dbSize + 1
    BY <1>1, <1>4, <2>2 DEF Wanted, Straight
  <2>4. v \in DOMAIN h[p].cache => ~h[p].cache[v].dirty
    BY <1>2, <2>2, CacheTyped, Numbers
  <2> QED
    BY <1>1, <1>2, <2>1, <2>2, <2>3, <2>4, LoadedByWriter
<1> QED
  BY <1>3, <1>4

\* A page is read into the place of one that was written.
LEMMA StepRecycle ==
  ASSUME IInv, NEW p \in Proc, Recycle(p)
  PROVE  IInv'
<1>1. /\ h[p].pc = "write" /\ h[p].job = "spill" /\ h[p].victim \notin Dirty(p)
      /\ h' = [h EXCEPT ![p] = Load(p, h[p].want, h[p].victim)]
      /\ UNCHANGED <<fileVars, jrnlVars, histVars, faults, fullSync>>
  BY DEF Recycle
<1>2. Open(p)
  BY <1>1, CallTyped DEF Open, Undoing, Process, Levels, Writing
<1>3. /\ h[p].victim # 1 /\ h[p].want \in Page \ DOMAIN h[p].cache /\ h[p].want <= h[p].dbSize + 1
      /\ h[p].state # SYNCED
  BY <1>1, <1>2, OpenTyped DEF CallOK, Writing
<1>4. h[p].victim \in DOMAIN h[p].cache => ~h[p].cache[h[p].victim].dirty
  BY <1>1 DEF Dirty
<1> QED
  BY <1>1, <1>2, <1>3, <1>4, LoadedByWriter

\* A page that is not clean was changed by a transaction.
LEMMA DirtyChanged ==
  ASSUME IInv, NEW p \in Proc, h[p].pc = "idle", NEW v \in DOMAIN h[p].cache,
         h[p].cache[v].dirty \/ h[p].cache[v].needSync
  PROVE  /\ Open(p) /\ v \in Page /\ v \in Changed(p) /\ h[p].cache[v].dirty
         /\ ~h[p].cache[v].needSync => h[p].started
<1>1. h[p].tx # 0
  <2> SUFFICES ASSUME h[p].tx = 0
               PROVE  FALSE
    OBVIOUS
  <2>1. Cached(h[p])
    BY ReadingTyped
  <2>2. \E x : h[p].cache[v] = Clean(x)
    BY <2>1 DEF Cached
  <2> QED
    BY <2>2 DEF Clean
<1>2. Open(p)
  BY <1>1 DEF Open, Undoing
<1>3. v \in Page /\ PageOK(p, v)
  BY <1>2, OpenTyped, CacheTyped
<1>4. v \in Changed(p)
  BY <1>3 DEF PageOK, Clean
<1> QED
  BY <1>2, <1>3, <1>4 DEF PageOK

\* A call goes on, without a change to a page, a file or a lock.
LEMMA CallGoesOn ==
  ASSUME IInv, NEW p \in Proc, Open(p), NEW r \in Handle, h' = [h EXCEPT ![p] = r],
         UNCHANGED <<fileVars, jrnlVars, histVars, faults, fullSync>>,
         r.lock = h[p].lock \/ (r.lock = PENDING /\ h[p].lock # EXCLUSIVE),
         r.state = h[p].state, r.resv = h[p].resv,
         r.tx = h[p].tx, r.cache = h[p].cache, r.dbSize = h[p].dbSize, r.orig = h[p].orig,
         r.inJournal = h[p].inJournal, r.hdr + r.nRec = h[p].hdr + h[p].nRec,
         r.needSync = h[p].needSync, r.started = h[p].started, r.dirtyCache = h[p].dirtyCache,
         r.pc \in {"idle", "wait"} \union Syncing, h[p].state # SYNCED,
         r.pc = "idle" => r.job = "none",
         r.pc # "idle" => r.job \in {"spill", "commit"},
         CallOK(p)'
  PROVE  IInv'
<1>1. /\ file' = file /\ Content' = Content /\ jrnl' = jrnl /\ linked' = linked
      /\ Recorded' = Recorded /\ \A k : Synced(k)' <=> Synced(k)
  BY DEF fileVars, jrnlVars, Content, Recorded, Synced
<1>2. h'[p] = r
  BY OpenTyped
<1>3. Changed(p)' = Changed(p)
  BY <1>1, <1>2 DEF Changed, PageCount
<1>4. \A k \in Page : PageOK(p, k)'
  <2> TAKE k \in Page
  <2>1. PageOK(p, k)
    BY OpenTyped
  <2> QED
    BY <1>1, <1>2, <1>3, <2>1 DEF PageOK
<1>5. ChangesOK(p)'
  <2>1. ChangesOK(p)
    BY OpenTyped
  <2> QED
    BY <1>1, <1>2, <1>3, <1>4, <2>1 DEF ChangesOK
<1>6. /\ r.tx # 0 /\ r.resv /\ r.lock >= RESERVED /\ r.state >= RESERVED
      /\ (r.state >= EXCLUSIVE <=> r.lock = EXCLUSIVE) /\ r.state # SYNCED
      /\ jrnl' # NoJournal /\ jrnl'.count # Junk /\ jrnl'.size = r.orig
      /\ \A k \in DOMAIN jrnl'.recs : jrnl'.recs[k].val # Junk
  <2>1. /\ h[p].tx # 0 /\ h[p].resv /\ h[p].lock >= RESERVED /\ h[p].state >= RESERVED
        /\ (h[p].state >= EXCLUSIVE <=> h[p].lock = EXCLUSIVE)
        /\ jrnl # NoJournal /\ jrnl.count # Junk /\ jrnl.size = h[p].orig
        /\ \A k \in DOMAIN jrnl.recs : jrnl.recs[k].val # Junk
    BY OpenTyped
  <2> QED
    BY <1>1, <2>1
<1>7. Process(p)'
  BY <1>2, <1>5, <1>6, ProcessWorks DEF Syncing, Writing
<1>8. h[p].pc # "out" /\ h[p].lock # NO_LOCK
  BY OpenTyped
<1>9. r.lock = h[p].lock \/ (r.lock < EXCLUSIVE /\ h[p].lock # NO_LOCK)
  BY <1>8
<1> QED
  BY <1>2, <1>7, <1>8, <1>9, SameLocks

-----------------------------------------------------------------------------
(* A page gives way, the journal is synced, the last reader is waited for.  *)

\* A changed page that may be written gives way.
LEMMA StepSpill ==
  ASSUME IInv, Straight, NEW p \in Proc, NEW i \in Page, Spill(p, i)
  PROVE  IInv'
<1>1. /\ h[p].pc = "idle" /\ i \in Page \ DOMAIN h[p].cache
      /\ i <= PageCount(p) + (IF h[p].state >= RESERVED THEN 1 ELSE 0) \/ h[p].misled
      /\ UNCHANGED <<fileVars, jrnlVars, histVars, faults, fullSync>>
  BY DEF Spill, Wanted, InUse
<1>2. PICK v \in Recyclable(p) :
        /\ h[p].cache[v].dirty /\ ~h[p].cache[v].needSync
        /\ h' = [h EXCEPT ![p].pc = "wait", ![p].job = "spill", ![p].want = i, ![p].victim = v]
  BY DEF Spill
<1> DEFINE r == [h[p] EXCEPT !.pc = "wait", !.job = "spill", !.want = i, !.victim = v]
<1> HIDE DEF r
<1>3. v \in DOMAIN h[p].cache /\ v # 1
  BY DEF Recyclable
<1>4. Open(p) /\ h[p].started
  BY <1>1, <1>2, <1>3, DirtyChanged
<1>5. /\ h[p].dbSize \in 0..MaxPage /\ PageCount(p) = h[p].dbSize /\ h[p].state >= RESERVED
      /\ h \in [Proc -> Handle] /\ h[p].state # SYNCED
  BY <1>1, <1>4, OpenTyped
<1>6. h' = [h EXCEPT ![p] = r] /\ h'[p] = r
  BY <1>2, <1>5 DEF r
<1>7. /\ r \in Handle
      /\ r.pc = "wait" /\ r.job = "spill" /\ r.want = i /\ r.victim = v
      /\ r.lock = h[p].lock /\ r.state = h[p].state /\ r.resv = h[p].resv
      /\ r.tx = h[p].tx /\ r.cache = h[p].cache /\ r.dbSize = h[p].dbSize
      /\ r.orig = h[p].orig /\ r.inJournal = h[p].inJournal
      /\ r.hdr = h[p].hdr /\ r.nRec = h[p].nRec /\ r.needSync = h[p].needSync
      /\ r.started = h[p].started /\ r.dirtyCache = h[p].dirtyCache
  <2>1. h[p] \in Handle /\ v \in Page
    BY <1>3, <1>4, OpenTyped, CacheTyped
  <2>2. i \in 0..MaxPage /\ v \in 0..MaxPage
    BY <2>1, Numbers
  <2> QED
    BY <2>1, <2>2 DEF r, Handle, Syncing, Writing
<1>8. i <= r.dbSize + 1
  BY <1>1, <1>4, <1>5, <1>7 DEF Open, Straight
<1>9. CallOK(p)'
  BY <1>1, <1>2, <1>3, <1>4, <1>6, <1>7, <1>8 DEF CallOK, Syncing, Writing
<1> QED
  BY <1>1, <1>4, <1>5, <1>6, <1>7, <1>9, CallGoesOn

\* A changed page gives way whose original must be synced first.
LEMMA StepSpillSyncs ==
  ASSUME IInv, Straight, NEW p \in Proc, NEW i \in Page, SpillSyncs(p, i)
  PROVE  IInv'
<1>1. /\ h[p].pc = "idle" /\ i \in Page \ DOMAIN h[p].cache
      /\ i <= PageCount(p) + (IF h[p].state >= RESERVED THEN 1 ELSE 0) \/ h[p].misled
      /\ UNCHANGED <<fileVars, jrnlVars, histVars, faults, fullSync>>
      /\ \A v \in Recyclable(p) : h[p].cache[v].needSync
  BY DEF SpillSyncs, Wanted, InUse
<1>2. PICK v \in Recyclable(p) :
        h' = [h EXCEPT ![p].pc = "sync", ![p].job = "spill", ![p].want = i, ![p].victim = v]
  BY DEF SpillSyncs
<1> DEFINE r == [h[p] EXCEPT !.pc = "sync", !.job = "spill", !.want = i, !.victim = v]
<1> HIDE DEF r
<1>3. v \in DOMAIN h[p].cache /\ v # 1 /\ h[p].cache[v].needSync
  BY <1>1 DEF Recyclable
<1>4. Open(p)
  BY <1>1, <1>3, DirtyChanged
<1>5. /\ h[p].dbSize \in 0..MaxPage /\ PageCount(p) = h[p].dbSize /\ h[p].state >= RESERVED
      /\ h \in [Proc -> Handle] /\ h[p].state # SYNCED
  BY <1>1, <1>4, OpenTyped
<1>6. h' = [h EXCEPT ![p] = r] /\ h'[p] = r
  BY <1>2, <1>5 DEF r
<1>7. /\ r \in Handle
      /\ r.pc = "sync" /\ r.job = "spill" /\ r.want = i /\ r.victim = v
      /\ r.lock = h[p].lock /\ r.state = h[p].state /\ r.resv = h[p].resv
      /\ r.tx = h[p].tx /\ r.cache = h[p].cache /\ r.dbSize = h[p].dbSize
      /\ r.orig = h[p].orig /\ r.inJournal = h[p].inJournal
      /\ r.hdr = h[p].hdr /\ r.nRec = h[p].nRec /\ r.needSync = h[p].needSync
      /\ r.started = h[p].started /\ r.dirtyCache = h[p].dirtyCache
  <2>1. h[p] \in Handle /\ v \in Page
    BY <1>3, <1>4, OpenTyped, CacheTyped
  <2>2. i \in 0..MaxPage /\ v \in 0..MaxPage
    BY <2>1, Numbers
  <2> QED
    BY <2>1, <2>2 DEF r, Handle, Syncing, Writing
<1>8. i <= r.dbSize + 1
  BY <1>1, <1>4, <1>5, <1>7 DEF Open, Straight
<1>9. CallOK(p)'
  BY <1>1, <1>3, <1>6, <1>7, <1>8 DEF CallOK, Syncing, Writing
<1> QED
  BY <1>1, <1>4, <1>5, <1>6, <1>7, <1>9, CallGoesOn DEF Syncing

\* A commit that does not get the lock can go on as a transaction.
LEMMA StepBusy ==
  ASSUME IInv, NEW p \in Proc, Busy(p)
  PROVE  IInv'
<1> DEFINE r == [h[p] EXCEPT !.pc = "idle", !.job = "none"]
<1>1. /\ h[p].pc = "wait" /\ h' = [h EXCEPT ![p].pc = "idle", ![p].job = "none"]
      /\ UNCHANGED <<fileVars, jrnlVars, histVars, faults, fullSync>>
  BY DEF Busy
<1>2. Open(p)
  BY <1>1, CallTyped DEF Open, Undoing, Process, Levels, Writing
<1>3. h \in [Proc -> Handle] /\ h[p] \in Handle /\ h[p].state # SYNCED
  BY <1>1, <1>2, OpenTyped
<1>4. h' = [h EXCEPT ![p] = r] /\ h'[p] = r
  BY <1>1, <1>3
<1>5. /\ r \in Handle
      /\ r.pc = "idle" /\ r.job = "none"
      /\ r.lock = h[p].lock /\ r.state = h[p].state /\ r.resv = h[p].resv
      /\ r.tx = h[p].tx /\ r.cache = h[p].cache /\ r.dbSize = h[p].dbSize
      /\ r.orig = h[p].orig /\ r.inJournal = h[p].inJournal
      /\ r.hdr = h[p].hdr /\ r.nRec = h[p].nRec /\ r.needSync = h[p].needSync
      /\ r.started = h[p].started /\ r.dirtyCache = h[p].dirtyCache
  BY <1>3 DEF Handle
<1> HIDE DEF r
<1>6. CallOK(p)'
  BY <1>4, <1>5 DEF CallOK, Syncing, Writing
<1> QED
  BY <1>1, <1>2, <1>3, <1>4, <1>5, <1>6, CallGoesOn

\* Nothing in the journal waits for a sync.
LEMMA StepSyncNotNeeded ==
  ASSUME IInv, NEW p \in Proc, SyncNotNeeded(p)
  PROVE  IInv'
<1> DEFINE r == [h[p] EXCEPT !.pc = "wait"]
<1>1. /\ h[p].pc = "sync" /\ ~h[p].needSync /\ h' = [h EXCEPT ![p].pc = "wait"]
      /\ UNCHANGED <<fileVars, jrnlVars, histVars, faults, fullSync>>
  BY DEF SyncNotNeeded
<1>2. Open(p) /\ h[p].job \in {"spill", "commit"}
  BY <1>1, CallTyped DEF Open, Undoing, Process, Levels, Syncing
<1>3. /\ h \in [Proc -> Handle] /\ h[p] \in Handle /\ h[p].state # SYNCED /\ h[p].cache \in Cache
      /\ CallOK(p) /\ \A i \in Page : PageOK(p, i)
  BY <1>1, <1>2, OpenTyped
<1>4. h' = [h EXCEPT ![p] = r] /\ h'[p] = r
  BY <1>1, <1>3
<1>5. /\ r \in Handle
      /\ r.pc = "wait" /\ r.job = h[p].job
      /\ r.lock = h[p].lock /\ r.state = h[p].state /\ r.resv = h[p].resv
      /\ r.tx = h[p].tx /\ r.cache = h[p].cache /\ r.dbSize = h[p].dbSize
      /\ r.orig = h[p].orig /\ r.inJournal = h[p].inJournal
      /\ r.hdr = h[p].hdr /\ r.nRec = h[p].nRec /\ r.needSync = h[p].needSync
      /\ r.started = h[p].started /\ r.dirtyCache = h[p].dirtyCache
  BY <1>3 DEF Handle, Writing
<1> HIDE DEF r
<1>6. \A i \in DOMAIN h[p].cache : i \in Page /\ ~h[p].cache[i].needSync
  BY <1>1, <1>3, CacheTyped DEF PageOK
<1>7. h[p].job = "commit"
  BY <1>1, <1>2, <1>3, <1>6 DEF CallOK, Syncing
<1>8. 1 \in Changed(p) /\ h[p].started
  <2>1. 1 \in Changed(p)
    BY <1>1, <1>3, <1>7 DEF CallOK, Syncing
  <2>2. PageOK(p, 1) /\ (1 \in DOMAIN h[p].cache => ~h[p].cache[1].needSync)
    BY <1>3, <1>6, Numbers
  <2> QED
    BY <2>1, <2>2 DEF PageOK
<1>9. 1 \in Changed(p)'
  BY <1>4, <1>5, <1>8, <1>1 DEF Changed, PageCount, fileVars
<1>10. CallOK(p)'
  BY <1>4, <1>5, <1>6, <1>7, <1>8, <1>9 DEF CallOK, Syncing, Writing
<1> QED
  BY <1>1, <1>2, <1>3, <1>4, <1>5, <1>10, CallGoesOn

\* A header for the records to come counts none of those there are.
LEMMA StepNewSegment ==
  ASSUME IInv, NEW p \in Proc, NewSegment(p)
  PROVE  IInv'
<1> DEFINE r == [h[p] EXCEPT !.pc = "wait", !.hdr = h[p].hdr + h[p].nRec, !.nRec = 0]
<1>1. /\ h[p].pc = "segment"
      /\ h' = [h EXCEPT ![p].pc = "wait", ![p].hdr = h[p].hdr + h[p].nRec, ![p].nRec = 0]
      /\ UNCHANGED <<fileVars, jrnlVars, histVars, faults, fullSync>>
  BY DEF NewSegment
<1>2. Open(p) /\ h[p].job \in {"spill", "commit"}
  BY <1>1, CallTyped DEF Open, Undoing, Process, Levels, Syncing
<1>3. /\ h \in [Proc -> Handle] /\ h[p] \in Handle /\ h[p].state # SYNCED
      /\ CallOK(p) /\ h[p].hdr \in Nat /\ h[p].nRec \in Nat
  BY <1>1, <1>2, OpenTyped, HandleTyped
<1>4. h' = [h EXCEPT ![p] = r] /\ h'[p] = r
  BY <1>1, <1>3
<1>5. /\ r \in Handle
      /\ r.pc = "wait" /\ r.job = h[p].job /\ r.want = h[p].want /\ r.victim = h[p].victim
      /\ r.lock = h[p].lock /\ r.state = h[p].state /\ r.resv = h[p].resv
      /\ r.tx = h[p].tx /\ r.cache = h[p].cache /\ r.dbSize = h[p].dbSize
      /\ r.orig = h[p].orig /\ r.inJournal = h[p].inJournal
      /\ r.hdr = h[p].hdr + h[p].nRec /\ r.nRec = 0 /\ r.needSync = h[p].needSync
      /\ r.started = h[p].started /\ r.dirtyCache = h[p].dirtyCache
  <2> DEFINE n == h[p].hdr + h[p].nRec
  <2>1. n \in Nat /\ 0 \in Nat
    BY <1>3
  <2>2. r = [h[p] EXCEPT !.pc = "wait", !.hdr = n, !.nRec = 0]
    OBVIOUS
  <2> HIDE DEF n, r
  <2>3. /\ r \in Handle /\ r.pc = "wait" /\ r.hdr = n /\ r.nRec = 0
        /\ r.job = h[p].job /\ r.want = h[p].want /\ r.victim = h[p].victim
        /\ r.lock = h[p].lock /\ r.state = h[p].state /\ r.resv = h[p].resv
        /\ r.tx = h[p].tx /\ r.cache = h[p].cache /\ r.dbSize = h[p].dbSize
        /\ r.orig = h[p].orig /\ r.inJournal = h[p].inJournal /\ r.needSync = h[p].needSync
        /\ r.started = h[p].started /\ r.dirtyCache = h[p].dirtyCache
    BY <1>3, <2>1, <2>2 DEF Handle, Writing
  <2> QED
    BY <2>3 DEF n
<1> HIDE DEF r
<1>6. h[p].job = "spill"
  BY <1>1, <1>2, <1>3 DEF CallOK, Syncing
<1>7. CallOK(p)'
  BY <1>1, <1>3, <1>4, <1>5, <1>6 DEF CallOK, Syncing, Writing
<1>8. r.hdr + r.nRec = h[p].hdr + h[p].nRec
  BY <1>3, <1>5
<1> QED
  BY <1>1, <1>2, <1>3, <1>4, <1>5, <1>7, <1>8, CallGoesOn

\* What a transaction has done stays true when it changes no page and the journal keeps
\* its records, also when the journal was synced.
LEMMA ChangesKept ==
  ASSUME IInv, NEW p \in Proc, Open(p), NEW r, h'[p] = r,
         file' = file, Content' = Content, jrnl'.recs = jrnl.recs,
         \A l \in Page : Synced(l) => Synced(l)',
         r.tx = h[p].tx, r.dbSize = h[p].dbSize, r.orig = h[p].orig,
         r.inJournal = h[p].inJournal, r.hdr + r.nRec = h[p].hdr + h[p].nRec,
         r.dirtyCache = h[p].dirtyCache,
         r.state = RESERVED => file = Content,
         r.started => linked' /\ Junk \notin jrnl'.may, h[p].started => r.started,
         \/ r.cache = h[p].cache /\ r.needSync = h[p].needSync
         \/ /\ r.started /\ \A l \in Recorded : Synced(l)'
            /\ DOMAIN r.cache = DOMAIN h[p].cache
            /\ \A i \in DOMAIN h[p].cache : r.cache[i] = [h[p].cache[i] EXCEPT !.needSync = FALSE]
  PROVE  ChangesOK(p)' /\ Changed(p)' = Changed(p)
<1> DEFINE c == h[p].cache
<1>1. Changed(p)' = Changed(p)
  BY DEF Changed, PageCount
<1>2. /\ c \in Cache /\ ChangesOK(p) /\ \A i \in Page : PageOK(p, i)
      /\ h[p].dbSize \in 0..MaxPage /\ h[p].orig \in 0..MaxPage
  BY OpenTyped
<1>3. \A i \in Changed(p) : i <= h[p].orig => i \in Recorded
  <2>1. h[p].inJournal = Recorded
    BY <1>2 DEF ChangesOK
  <2> QED
    BY <1>2, <2>1, Numbers DEF Changed
<1>4. ASSUME NEW i \in Page
      PROVE  PageOK(p, i)'
  <2>1. PageOK(p, i)
    BY <1>2
  <2>2. CASE r.cache = c /\ r.needSync = h[p].needSync
    BY <1>1, <2>1, <2>2 DEF PageOK
  <2>3. CASE /\ r.started /\ \A l \in Recorded : Synced(l)'
             /\ DOMAIN r.cache = DOMAIN c
             /\ \A k \in DOMAIN c : r.cache[k] = [c[k] EXCEPT !.needSync = FALSE]
    <3>1. CASE i \in DOMAIN c
      <4>1. /\ i \in DOMAIN r.cache /\ r.cache[i].val = c[i].val /\ r.cache[i].dirty = c[i].dirty
            /\ ~r.cache[i].needSync /\ r.cache[i].inJournal = c[i].inJournal
        <5>1. c[i] \in Entry
          BY <1>2, <3>1, CacheTyped
        <5>2. r.cache[i] = [c[i] EXCEPT !.needSync = FALSE] /\ i \in DOMAIN r.cache
          BY <2>3, <3>1
        <5> QED
          BY <5>1, <5>2 DEF Entry
      <4>2. i \notin Changed(p) => r.cache[i] = Clean(Content.page[i])
        BY <2>1, <2>3, <3>1 DEF PageOK, Clean
      <4>3. i \in Changed(p) => (i <= h[p].orig => Synced(i)')
        BY <1>3, <2>3
      <4> QED
        BY <1>1, <2>1, <2>3, <3>1, <4>1, <4>2, <4>3 DEF PageOK
    <3>2. CASE i \notin DOMAIN c
      BY <1>1, <2>1, <2>3, <3>2 DEF PageOK
    <3> QED
      BY <3>1, <3>2
  <2> QED
    BY <2>2, <2>3
<1>5. Recorded' = Recorded
  BY DEF Recorded
<1> QED
  BY <1>1, <1>2, <1>4, <1>5 DEF ChangesOK

\* The exclusive lock, or PENDING until the readers have gone.
LEMMA StepWaitExclusive ==
  ASSUME IInv, NEW p \in Proc, WaitExclusive(p)
  PROVE  IInv'
<1>1. /\ h[p].pc = "wait"
      /\ h' = [h EXCEPT ![p] =
                 IF h[p].state >= EXCLUSIVE \/ \A q \in Others(p) : h[q].lock = NO_LOCK
                 THEN [h[p] EXCEPT !.pc = "write", !.lock = EXCLUSIVE, !.state = EXCLUSIVE]
                 ELSE [h[p] EXCEPT !.lock = PENDING]]
      /\ UNCHANGED <<fileVars, jrnlVars, histVars, faults, fullSync>>
      /\ UNCHANGED <<fileVars, jrnlVars, histVars, fullSync>> /\ faults' = faults
      /\ file' = file /\ Content' = Content /\ jrnl' = jrnl /\ linked' = linked
  BY DEF WaitExclusive, fileVars, jrnlVars, Content
<1>2. Open(p) /\ h[p].job \in {"spill", "commit"}
  BY <1>1, CallTyped DEF Open, Undoing, Process, Levels, Writing
<1>3. /\ h \in [Proc -> Handle] /\ h[p] \in Handle /\ h[p].state # SYNCED /\ CallOK(p)
      /\ h[p].state >= EXCLUSIVE <=> h[p].lock = EXCLUSIVE
      /\ h[p].tx # 0 /\ h[p].resv /\ h[p].lock >= RESERVED /\ h[p].state >= RESERVED
      /\ jrnl # NoJournal /\ jrnl.count # Junk /\ jrnl.size = h[p].orig
      /\ \A k \in DOMAIN jrnl.recs : jrnl.recs[k].val # Junk
      /\ ChangesOK(p)
  BY <1>1, <1>2, OpenTyped
<1>4. CASE h[p].state >= EXCLUSIVE \/ \A q \in Others(p) : h[q].lock = NO_LOCK
  <2> DEFINE r == [h[p] EXCEPT !.pc = "write", !.lock = EXCLUSIVE, !.state = EXCLUSIVE]
  <2>1. h' = [h EXCEPT ![p] = r] /\ h'[p] = r
    BY <1>1, <1>3, <1>4
  <2>2. /\ r \in Handle
        /\ r.pc = "write" /\ r.lock = EXCLUSIVE /\ r.state = EXCLUSIVE /\ r.job = h[p].job
        /\ r.want = h[p].want /\ r.victim = h[p].victim /\ r.resv = h[p].resv
        /\ r.tx = h[p].tx /\ r.cache = h[p].cache /\ r.dbSize = h[p].dbSize
        /\ r.orig = h[p].orig /\ r.inJournal = h[p].inJournal
        /\ r.hdr = h[p].hdr /\ r.nRec = h[p].nRec /\ r.needSync = h[p].needSync
        /\ r.started = h[p].started /\ r.dirtyCache = h[p].dirtyCache
    BY <1>3 DEF Handle, Writing
  <2> HIDE DEF r
  <2>3. \A l \in Page : Synced(l) => Synced(l)'
    BY <1>1 DEF Synced
  <2>4. r.started => linked' /\ Junk \notin jrnl'.may
    BY <1>1, <1>2, <1>3, <2>2 DEF ChangesOK
  <2>5. ChangesOK(p)' /\ Changed(p)' = Changed(p)
    BY <1>1, <1>2, <2>1, <2>2, <2>3, <2>4, ChangesKept
  <2>6. CallOK(p)'
    BY <1>1, <1>3, <2>1, <2>2, <2>5 DEF CallOK, Syncing, Writing
  <2>7. Process(p)'
    <3>1. /\ r.tx # 0 /\ r.resv /\ r.lock >= RESERVED /\ r.state >= RESERVED
          /\ r.state >= EXCLUSIVE <=> r.lock = EXCLUSIVE
          /\ r.state # SYNCED /\ r.job \in {"spill", "commit"} /\ jrnl'.size = r.orig
          /\ jrnl' # NoJournal /\ jrnl'.count # Junk
          /\ \A k \in DOMAIN jrnl'.recs : jrnl'.recs[k].val # Junk
      BY <1>1, <1>2, <1>3, <2>2
    <3> QED
      BY <2>1, <2>2, <2>5, <2>6, <3>1, ProcessWorks DEF Writing
  <2>8. \A q \in Others(p) : h[q].lock = NO_LOCK /\ ~h[q].resv /\ h[q].pc = "out"
    <3> SUFFICES ASSUME NEW q \in Others(p)
                 PROVE  h[q].lock = NO_LOCK /\ ~h[q].resv /\ h[q].pc = "out"
      OBVIOUS
    <3>1. q \in Proc /\ q # p /\ Levels(q) /\ Exclusion
      BY CallTyped DEF IInv, Process
    <3>2. h[q].lock = NO_LOCK /\ ~h[q].resv
      BY <1>3, <1>4, <3>1 DEF Exclusion
    <3> QED
      BY <3>1, <3>2 DEF Levels
  <2>9. \A q \in Others(p) : /\ r.lock = EXCLUSIVE => h[q].lock = NO_LOCK
                             /\ h[q].lock = EXCLUSIVE => r.lock = NO_LOCK
                             /\ r.resv => ~h[q].resv
                             /\ file.size = 0 => r.pc = "out" \/ h[q].pc = "out"
    BY <2>8
  <2>10. /\ UNCHANGED <<fileVars, jrnlVars, histVars, fullSync>>
         /\ faults' \in Nat /\ clock + faults' <= MaxTx + 1 /\ r \in Handle
    BY <1>1, <2>2, CallTyped
  <2> QED
    BY <2>1, <2>7, <2>9, <2>10, CallStep
<1>5. CASE ~(h[p].state >= EXCLUSIVE \/ \A q \in Others(p) : h[q].lock = NO_LOCK)
  <2> DEFINE r == [h[p] EXCEPT !.lock = PENDING]
  <2>1. h' = [h EXCEPT ![p] = r] /\ h'[p] = r
    BY <1>1, <1>3, <1>5
  <2>2. /\ r \in Handle
        /\ r.pc = "wait" /\ r.lock = PENDING /\ r.state = h[p].state /\ r.job = h[p].job
        /\ r.want = h[p].want /\ r.victim = h[p].victim /\ r.resv = h[p].resv
        /\ r.tx = h[p].tx /\ r.cache = h[p].cache /\ r.dbSize = h[p].dbSize
        /\ r.orig = h[p].orig /\ r.inJournal = h[p].inJournal
        /\ r.hdr = h[p].hdr /\ r.nRec = h[p].nRec /\ r.needSync = h[p].needSync
        /\ r.started = h[p].started /\ r.dirtyCache = h[p].dirtyCache
    BY <1>1, <1>3 DEF Handle
  <2> HIDE DEF r
  <2>3. Changed(p)' = Changed(p)
    BY <1>1, <2>1, <2>2 DEF Changed, PageCount
  <2>4. CallOK(p)'
    BY <1>1, <1>3, <2>1, <2>2, <2>3 DEF CallOK, Syncing, Writing
  <2>5. h[p].lock # EXCLUSIVE
    BY <1>3, <1>5
  <2> QED
    BY <1>1, <1>2, <1>3, <2>1, <2>2, <2>4, <2>5, CallGoesOn
<1> QED
  BY <1>4, <1>5

-----------------------------------------------------------------------------
(* syncJournal.                                                             *)

\* A process in syncJournal.
LEMMA SyncingTyped ==
  ASSUME IInv, NEW p \in Proc, h[p].pc \in Syncing
  PROVE  /\ Open(p) /\ h[p].job \in {"spill", "commit"} /\ h[p].state # SYNCED
         /\ h \in [Proc -> Handle] /\ h[p] \in Handle /\ Types /\ Files /\ CallOK(p) /\ ChangesOK(p)
         /\ h[p].pc # "out" /\ h[p].resv /\ h[p].tx # 0
         /\ h[p].lock >= RESERVED /\ h[p].state >= RESERVED
         /\ h[p].state >= EXCLUSIVE <=> h[p].lock = EXCLUSIVE
         /\ jrnl \in Journal /\ jrnl # NoJournal /\ jrnl.count # Junk /\ jrnl.size = h[p].orig
         /\ \A k \in DOMAIN jrnl.recs : jrnl.recs[k].val # Junk
         /\ h[p].hdr + h[p].nRec = Len(jrnl.recs)
         /\ h[p].started => linked /\ Junk \notin jrnl.may
         /\ h[p].state = RESERVED => file = Content
<1>1. Open(p) /\ h[p].job \in {"spill", "commit"}
  BY CallTyped DEF Open, Undoing, Process, Levels, Syncing
<1>2. h[p].state # SYNCED
  BY <1>1, OpenTyped DEF Syncing
<1>3. ChangesOK(p)
  BY <1>1, OpenTyped
<1>4. /\ h[p].hdr + h[p].nRec = Len(jrnl.recs)
      /\ h[p].started => linked /\ Junk \notin jrnl.may
  BY <1>1, <1>3 DEF ChangesOK
<1> QED
  BY <1>1, <1>2, <1>3, <1>4, OpenTyped

\* The journal is written to, or synced, by the process whose journal it is.
LEMMA JournalStep ==
  ASSUME IInv, NEW p \in Proc, h[p].pc \in Syncing, NEW r \in Handle,
         h' = [h EXCEPT ![p] = r], UNCHANGED <<histVars, faults, fullSync>>,
         Files', Content' = Content, file' = file, disk' \in Disk, jrnl' \in Journal,
         jrnl' # NoJournal, jrnl'.size = jrnl.size, jrnl'.count # Junk,
         jrnl'.recs = jrnl.recs, linked' \in BOOLEAN, ghosts' \in Seq(Journal),
         \A l \in Page : Synced(l) => Synced(l)',
         r.lock = h[p].lock, r.state = h[p].state, r.resv = h[p].resv, r.job = h[p].job,
         r.tx = h[p].tx, r.dbSize = h[p].dbSize, r.orig = h[p].orig,
         r.inJournal = h[p].inJournal, r.hdr = h[p].hdr, r.nRec = h[p].nRec,
         r.dirtyCache = h[p].dirtyCache,
         r.started => linked' /\ Junk \notin jrnl'.may, h[p].started => r.started,
         \/ r.cache = h[p].cache /\ r.needSync = h[p].needSync
         \/ /\ r.started /\ \A l \in Recorded : Synced(l)'
            /\ DOMAIN r.cache = DOMAIN h[p].cache
            /\ \A i \in DOMAIN h[p].cache : r.cache[i] = [h[p].cache[i] EXCEPT !.needSync = FALSE],
         r.pc \in Syncing \union {"wait"},
         Changed(p)' = Changed(p) => CallOK(p)'
  PROVE  IInv'
<1>1. h'[p] = r
  BY SyncingTyped
<1>2. ChangesOK(p)' /\ Changed(p)' = Changed(p)
  BY <1>1, SyncingTyped, ChangesKept
<1>3. Process(p)'
  <2>1. /\ r.tx # 0 /\ r.resv /\ r.lock >= RESERVED /\ r.state >= RESERVED
        /\ r.state >= EXCLUSIVE <=> r.lock = EXCLUSIVE
        /\ r.state # SYNCED /\ r.job \in {"spill", "commit"} /\ jrnl'.size = r.orig
        /\ \A k \in DOMAIN jrnl'.recs : jrnl'.recs[k].val # Junk
    BY SyncingTyped
  <2> QED
    BY <1>1, <1>2, <2>1, ProcessWorks DEF Syncing, Writing
<1>4. /\ file' \in File /\ clock' \in 1..(MaxTx + 1) /\ before' \in File
      /\ clock' + faults <= MaxTx + 1 /\ UNCHANGED <<faults, fullSync>>
  BY CallTyped DEF Types, histVars
<1>5. h[p].resv /\ h[p].pc # "out"
  BY SyncingTyped
<1> QED
  BY <1>3, <1>4, <1>5, FileStep

\* The records are synced before they are counted, in FULL mode.
LEMMA StepSyncRecords ==
  ASSUME Risks = {}, IInv, NEW p \in Proc, SyncRecords(p)
  PROVE  IInv' /\ Content' = Content
<1> DEFINE r == [h[p] EXCEPT !.pc = "count"]
<1>1. /\ h[p].pc = "sync" /\ h' = [h EXCEPT ![p].pc = "count"]
      /\ UNCHANGED <<histVars, faults, fullSync>> /\ before' = before
      /\ SyncJournalFile \/ UNCHANGED <<fileVars, jrnlVars>>
  BY DEF SyncRecords, histVars
<1>2. h[p].pc \in Syncing
  BY <1>1 DEF Syncing
<1>3. /\ h \in [Proc -> Handle] /\ h[p] \in Handle /\ Types /\ Files /\ CallOK(p)
      /\ jrnl \in Journal /\ jrnl # NoJournal /\ jrnl.count # Junk
      /\ h[p].started => linked /\ Junk \notin jrnl.may
      /\ disk \in Disk /\ linked \in BOOLEAN /\ ghosts \in Seq(Journal)
  BY <1>2, SyncingTyped DEF Types
<1>4. h' = [h EXCEPT ![p] = r] /\ h'[p] = r
  BY <1>1, <1>3
<1>5. /\ r \in Handle
      /\ r.pc = "count" /\ r.job = h[p].job /\ r.want = h[p].want /\ r.victim = h[p].victim
      /\ r.lock = h[p].lock /\ r.state = h[p].state /\ r.resv = h[p].resv
      /\ r.tx = h[p].tx /\ r.cache = h[p].cache /\ r.dbSize = h[p].dbSize
      /\ r.orig = h[p].orig /\ r.inJournal = h[p].inJournal
      /\ r.hdr = h[p].hdr /\ r.nRec = h[p].nRec /\ r.needSync = h[p].needSync
      /\ r.started = h[p].started /\ r.dirtyCache = h[p].dirtyCache
  BY <1>3 DEF Handle, Syncing
<1> HIDE DEF r
<1>6. /\ Files' /\ Content' = Content /\ file' = file /\ disk' \in Disk /\ jrnl' \in Journal
      /\ jrnl' # NoJournal /\ jrnl'.size = jrnl.size /\ jrnl'.count # Junk
      /\ jrnl'.recs = jrnl.recs /\ linked' \in BOOLEAN /\ ghosts' \in Seq(Journal)
      /\ \A l \in Page : Synced(l) => Synced(l)'
      /\ r.started => linked' /\ Junk \notin jrnl'.may
  <2>1. CASE SyncJournalFile
    <3>1. <<>> \in Seq(Journal)
      OBVIOUS
    <3>2. /\ Files' /\ Content' = Content /\ file' = file /\ disk' \in Disk /\ jrnl' \in Journal
          /\ jrnl' # NoJournal /\ jrnl'.size = jrnl.size /\ jrnl'.count = jrnl.count
          /\ jrnl'.recs = jrnl.recs /\ linked' = TRUE /\ ghosts' = <<>>
          /\ \A l \in Page : Synced(l) => Synced(l)'
          /\ jrnl'.may = {jrnl.count}
      BY <1>1, <1>3, <2>1, JournalSynced
    <3> QED
      BY <1>3, <3>1, <3>2
  <2>2. CASE UNCHANGED <<fileVars, jrnlVars>>
    <3>1. /\ file' = file /\ disk' = disk /\ jrnl' = jrnl /\ linked' = linked /\ ghosts' = ghosts
          /\ UNCHANGED <<fileVars, jrnlVars, before>>
      BY <1>1, <2>2 DEF fileVars, jrnlVars
    <3>2. Files' /\ Content' = Content
      BY <1>3, <3>1, FilesKept
    <3>3. \A l \in Page : Synced(l) => Synced(l)'
      BY <3>1 DEF Synced
    <3> QED
      BY <1>3, <1>5, <3>1, <3>2, <3>3
  <2> QED
    BY <1>1, <2>1, <2>2
<1>7. Changed(p)' = Changed(p) => CallOK(p)'
  BY <1>1, <1>3, <1>4, <1>5 DEF CallOK, Syncing, Writing
<1>8. IInv'
  BY <1>1, <1>2, <1>4, <1>5, <1>6, <1>7, JournalStep DEF Syncing
<1> QED
  BY <1>8, <1>6

\* Counting records that were not counted restores what was not changed.
LEMMA StepWriteCount ==
  ASSUME IInv, NEW p \in Proc, WriteCount(p)
  PROVE  IInv' /\ Content' = Content
<1> DEFINE r == [h[p] EXCEPT !.pc = "header"]
           n == Len(jrnl.recs)
<1>1. /\ h[p].pc = "count" /\ h' = [h EXCEPT ![p].pc = "header"]
      /\ UNCHANGED <<histVars, faults, fullSync>>
      /\ UNCHANGED <<fileVars, linked, ghosts, before>>
      /\ file' = file /\ disk' = disk /\ linked' = linked /\ ghosts' = ghosts
  BY DEF WriteCount, histVars, fileVars
<1>2. h[p].pc \in Syncing
  BY <1>1 DEF Syncing
<1>3. /\ h \in [Proc -> Handle] /\ h[p] \in Handle /\ Types /\ Files /\ CallOK(p)
      /\ jrnl \in Journal /\ jrnl # NoJournal
      /\ \A k \in DOMAIN jrnl.recs : jrnl.recs[k].val # Junk
      /\ h[p].hdr + h[p].nRec = n
      /\ h[p].started => linked /\ Junk \notin jrnl.may
      /\ disk \in Disk /\ linked \in BOOLEAN /\ ghosts \in Seq(Journal)
  BY <1>2, SyncingTyped DEF Types
<1>4. jrnl' = [jrnl EXCEPT !.count = n, !.may = jrnl.may \union {n}]
  BY <1>3 DEF WriteCount
<1>5. h' = [h EXCEPT ![p] = r] /\ h'[p] = r
  BY <1>1, <1>3
<1>6. /\ r \in Handle
      /\ r.pc = "header" /\ r.job = h[p].job /\ r.want = h[p].want /\ r.victim = h[p].victim
      /\ r.lock = h[p].lock /\ r.state = h[p].state /\ r.resv = h[p].resv
      /\ r.tx = h[p].tx /\ r.cache = h[p].cache /\ r.dbSize = h[p].dbSize
      /\ r.orig = h[p].orig /\ r.inJournal = h[p].inJournal
      /\ r.hdr = h[p].hdr /\ r.nRec = h[p].nRec /\ r.needSync = h[p].needSync
      /\ r.started = h[p].started /\ r.dirtyCache = h[p].dirtyCache
  BY <1>3 DEF Handle, Syncing
<1> HIDE DEF r
<1>7. /\ Files' /\ Content' = Content /\ jrnl' \in Journal /\ jrnl' # NoJournal
      /\ jrnl'.size = jrnl.size /\ jrnl'.count = n /\ jrnl'.recs = jrnl.recs
      /\ Junk \in jrnl'.may => Junk \in jrnl.may
      /\ \A l \in Page : Synced(l) => Synced(l)'
  BY <1>1, <1>3, <1>4, CountWritten
<1>8. /\ jrnl'.count # Junk /\ jrnl'.count = Len(jrnl'.recs)
      /\ r.started => linked' /\ Junk \notin jrnl'.may
  <2>1. n # Junk
    BY <1>3, JournalTyped
  <2> QED
    BY <1>1, <1>3, <1>6, <1>7, <2>1
<1>9. Changed(p)' = Changed(p) => CallOK(p)'
  BY <1>1, <1>3, <1>5, <1>6, <1>8 DEF CallOK, Syncing, Writing
<1>10. disk' \in Disk /\ linked' \in BOOLEAN /\ ghosts' \in Seq(Journal) /\ r.pc \in Syncing
  BY <1>1, <1>3, <1>6 DEF Syncing
<1> HIDE DEF n
<1>11. IInv'
  BY <1>1, <1>2, <1>5, <1>6, <1>7, <1>8, <1>9, <1>10, JournalStep
<1> QED
  BY <1>11, <1>7

\* From here on the records are restored, whatever happens.
LEMMA StepSyncHeader ==
  ASSUME Risks = {}, IInv, NEW p \in Proc, SyncHeader(p)
  PROVE  IInv' /\ Content' = Content
<1> DEFINE c == [i \in DOMAIN h[p].cache |-> [h[p].cache[i] EXCEPT !.needSync = FALSE]]
           where == IF h[p].job = "spill" /\ fullSync THEN "segment" ELSE "wait"
           r == [h[p] EXCEPT !.pc = where, !.started = TRUE, !.needSync = FALSE, !.cache = c]
<1>1. /\ h[p].pc = "header" /\ SyncJournalFile
      /\ UNCHANGED <<histVars, faults, fullSync>> /\ before' = before
  BY DEF SyncHeader, histVars
<1>2. h[p].pc \in Syncing
  BY <1>1 DEF Syncing
<1>3. /\ h \in [Proc -> Handle] /\ h[p] \in Handle /\ Types /\ Files /\ CallOK(p)
      /\ jrnl \in Journal /\ jrnl # NoJournal /\ jrnl.count # Junk
      /\ \A k \in DOMAIN jrnl.recs : jrnl.recs[k].val # Junk
      /\ h[p].job \in {"spill", "commit"} /\ h[p].cache \in Cache
  BY <1>2, SyncingTyped, HandleTyped
<1>4. h' = [h EXCEPT ![p] = r] /\ h'[p] = r
  BY <1>3 DEF SyncHeader
<1>5. c \in Cache
  <2>1. \A i \in DOMAIN h[p].cache : [h[p].cache[i] EXCEPT !.needSync = FALSE] \in Entry
    <3> TAKE i \in DOMAIN h[p].cache
    <3>1. h[p].cache[i] \in Entry
      BY <1>3, CacheTyped
    <3> QED
      BY <3>1 DEF Entry
  <2>2. DOMAIN h[p].cache \in SUBSET Page
    BY <1>3, CacheTyped
  <2> QED
    BY <2>1, <2>2, CacheMade
<1>6. where \in {"segment", "wait"} /\ (where = "segment" => h[p].job = "spill")
  OBVIOUS
<1>7. /\ DOMAIN c = DOMAIN h[p].cache
      /\ \A i \in DOMAIN h[p].cache : c[i] = [h[p].cache[i] EXCEPT !.needSync = FALSE]
  OBVIOUS
<1> HIDE DEF c, where
<1>8. /\ r \in Handle
      /\ r.pc = where /\ r.job = h[p].job /\ r.want = h[p].want /\ r.victim = h[p].victim
      /\ r.lock = h[p].lock /\ r.state = h[p].state /\ r.resv = h[p].resv
      /\ r.tx = h[p].tx /\ r.cache = c /\ r.dbSize = h[p].dbSize
      /\ r.orig = h[p].orig /\ r.inJournal = h[p].inJournal
      /\ r.hdr = h[p].hdr /\ r.nRec = h[p].nRec /\ r.needSync = FALSE
      /\ r.started = TRUE /\ r.dirtyCache = h[p].dirtyCache
  BY <1>3, <1>5, <1>6 DEF Handle, Syncing, Writing
<1> HIDE DEF r
<1>9. /\ Files' /\ Content' = Content /\ jrnl' \in Journal /\ jrnl' # NoJournal
      /\ file' = file /\ disk' \in Disk /\ linked' = TRUE /\ ghosts' = <<>>
      /\ jrnl'.size = jrnl.size /\ jrnl'.count = jrnl.count /\ jrnl'.recs = jrnl.recs
      /\ jrnl'.may = {jrnl.count}
      /\ \A l \in Page : Synced(l) => Synced(l)'
      /\ \A l \in Recorded : Synced(l)'
  <2>1. jrnl.count = Len(jrnl.recs)
    BY <1>1, <1>3 DEF CallOK
  <2> QED
    BY <1>1, <1>3, <2>1, JournalSynced
<1>10. /\ jrnl'.count # Junk /\ (r.started => linked' /\ Junk \notin jrnl'.may)
       /\ linked' \in BOOLEAN /\ ghosts' \in Seq(Journal)
  BY <1>3, <1>9
<1>11. Changed(p)' = Changed(p) => CallOK(p)'
  <2>1. \A i \in DOMAIN r.cache : ~r.cache[i].needSync
    <3> SUFFICES ASSUME NEW i \in DOMAIN h[p].cache
                 PROVE  ~c[i].needSync
      BY <1>7, <1>8
    <3>1. h[p].cache[i] \in Entry
      BY <1>3, CacheTyped
    <3> QED
      BY <1>7, <3>1 DEF Entry
  <2> QED
    BY <1>1, <1>3, <1>4, <1>6, <1>7, <1>8, <2>1 DEF CallOK, Syncing, Writing
<1>12. IInv'
  BY <1>1, <1>2, <1>3, <1>4, <1>6, <1>7, <1>8, <1>9, <1>10, <1>11, JournalStep DEF Syncing
<1> QED
  BY <1>12, <1>9

-----------------------------------------------------------------------------
(* sqlite3pager_write.                                                      *)

\* The original of page i is not in the journal yet.
Old(r, i) == ~r.cache[i].inJournal /\ i <= r.orig

\* Page i must not be written to the file before the journal was synced.
Unsynced(r, i) == IF r.cache[i].inJournal THEN r.cache[i].needSync ELSE Old(r, i) \/ ~r.started

\* r is q with page i changed, and what else sqlite3pager_write changes.
IsChange(r, q, i) ==
  /\ r.lock = q.lock /\ r.state = q.state /\ r.resv = q.resv
  /\ r.orig = q.orig /\ r.hdr = q.hdr /\ r.started = q.started /\ r.tx = q.tx
  /\ r.dirtyCache = TRUE
  /\ r.nRec = IF Old(q, i) THEN q.nRec + 1 ELSE q.nRec
  /\ r.inJournal = IF Old(q, i) THEN q.inJournal \union {i} ELSE q.inJournal
  /\ r.needSync <=> q.needSync \/ Unsynced(q, i)
  /\ r.dbSize = IF q.dbSize < i THEN i ELSE q.dbSize
  /\ DOMAIN r.cache = DOMAIN q.cache
  /\ \A k \in DOMAIN q.cache : k # i => r.cache[k] = q.cache[k]
  /\ r.cache[i] = [val |-> q.tx, dirty |-> TRUE, needSync |-> Unsynced(q, i), inJournal |-> TRUE]

\* What a change does to the Pager of a process, field by field.
LEMMA ChangeTyped ==
  ASSUME IInv, NEW p \in Proc, Open(p), NEW i \in DOMAIN h[p].cache
  PROVE  LET r == Change(h[p], i)
         IN  r \in Handle /\ IsChange(r, h[p], i) /\ r.pc = h[p].pc /\ r.job = h[p].job
<1> DEFINE e == [val |-> h[p].tx, dirty |-> TRUE, needSync |-> Unsynced(h[p], i), inJournal |-> TRUE]
           c == [h[p].cache EXCEPT ![i] = e]
           n == IF Old(h[p], i) THEN h[p].nRec + 1 ELSE h[p].nRec
           S == IF Old(h[p], i) THEN h[p].inJournal \union {i} ELSE h[p].inJournal
           b == h[p].needSync \/ Unsynced(h[p], i)
           d == IF h[p].dbSize < i THEN i ELSE h[p].dbSize
<1>1. /\ h[p] \in Handle /\ h[p].cache \in Cache /\ i \in Page /\ h[p].tx \in Val
      /\ h[p].dbSize \in 0..MaxPage /\ h[p].nRec \in Nat /\ h[p].inJournal \subseteq Page
      /\ h[p].needSync \in BOOLEAN /\ h[p].started \in BOOLEAN
  BY OpenTyped, HandleTyped, CacheTyped
<1>2. /\ h[p].cache[i].needSync \in BOOLEAN /\ h[p].cache[i].inJournal \in BOOLEAN
  BY <1>1, CacheTyped
<1>3. Unsynced(h[p], i) \in BOOLEAN
  BY <1>2 DEF Unsynced, Old
<1>4. e \in Entry
  BY <1>1, <1>3 DEF Entry
<1>5. Change(h[p], i) = [h[p] EXCEPT !.dirtyCache = TRUE, !.nRec = n, !.inJournal = S,
                                    !.needSync = b, !.dbSize = d, !.cache = c]
  <2>1. (IF h[p].cache[i].inJournal THEN h[p].cache[i].needSync
         ELSE IF ~h[p].cache[i].inJournal /\ i <= h[p].orig THEN TRUE ELSE ~h[p].started)
          = Unsynced(h[p], i)
    BY <1>1, <1>2 DEF Unsynced, Old
  <2> QED
    BY <2>1 DEF Change, Old
<1>6. /\ DOMAIN c = DOMAIN h[p].cache /\ c[i] = e
      /\ \A k \in DOMAIN h[p].cache : k # i => c[k] = h[p].cache[k]
  OBVIOUS
<1>7. c \in Cache
  <2>1. \A k \in DOMAIN h[p].cache : h[p].cache[k] \in Entry
    BY <1>1, CacheTyped
  <2>2. DOMAIN h[p].cache \in SUBSET Page /\ h[p].cache \in [DOMAIN h[p].cache -> Entry]
    BY <1>1, CacheTyped DEF Cache
  <2>3. c \in [DOMAIN h[p].cache -> Entry]
    BY <1>4, <2>2
  <2> HIDE DEF c
  <2> QED
    BY <2>2, <2>3, CacheMade
<1>8. n \in Nat /\ S \in SUBSET Page /\ b \in BOOLEAN /\ d \in -1..MaxPage
  <2>1. d \in -1..MaxPage
    BY <1>1, Numbers
  <2>2. n \in Nat /\ S \in SUBSET Page
    BY <1>1
  <2>3. b \in BOOLEAN
    BY <1>1, <1>3
  <2> QED
    BY <2>1, <2>2, <2>3
<1> HIDE DEF c, n, S, b, d, e
<1>9. Change(h[p], i) \in Handle
  <2> DEFINE s == [h[p] EXCEPT !.dirtyCache = TRUE, !.nRec = n, !.inJournal = S]
             t == [s EXCEPT !.needSync = b, !.dbSize = d]
  <2>1. s \in Handle
    BY <1>1, <1>8 DEF Handle
  <2>2. Change(h[p], i) = [t EXCEPT !.cache = c]
    BY <1>5
  <2> HIDE DEF s
  <2>3. t \in Handle
    BY <1>8, <2>1 DEF Handle
  <2> HIDE DEF t
  <2> QED
    BY <1>7, <2>2, <2>3 DEF Handle
<1>10. LET r == Change(h[p], i)
       IN  /\ r.pc = h[p].pc /\ r.lock = h[p].lock /\ r.state = h[p].state /\ r.resv = h[p].resv
           /\ r.orig = h[p].orig /\ r.hdr = h[p].hdr /\ r.started = h[p].started
           /\ r.job = h[p].job /\ r.tx = h[p].tx /\ r.dirtyCache = TRUE
           /\ r.nRec = n /\ r.inJournal = S /\ r.needSync = b /\ r.dbSize = d /\ r.cache = c
  BY <1>1, <1>5 DEF Handle
<1>11. IsChange(Change(h[p], i), h[p], i)
  BY <1>6, <1>10 DEF e, n, S, b, d, IsChange
<1> QED
  BY <1>9, <1>10, <1>11

\* A page is changed: its original goes to the journal before.
LEMMA PageChanged ==
  ASSUME IInv, NEW p \in Proc, Open(p), h[p].pc = "idle", NEW i \in DOMAIN h[p].cache,
         jrnl' = Journalled(h[p], i),
         UNCHANGED <<fileVars, linked, ghosts, histVars, faults, fullSync>>,
         NEW r \in Handle, h' = [h EXCEPT ![p] = r],
         IsChange(r, h[p], i),
         \/ r.pc = "idle" /\ r.job = "none"
         \/ r.pc = "sync" /\ r.job = "commit" /\ i = 1
  PROVE  IInv' /\ Content' = Content
<1> DEFINE c == h[p].cache
<1>0. /\ r.lock = h[p].lock /\ r.state = h[p].state /\ r.resv = h[p].resv
      /\ r.orig = h[p].orig /\ r.hdr = h[p].hdr /\ r.started = h[p].started /\ r.tx = h[p].tx
      /\ r.dirtyCache = TRUE
      /\ r.nRec = IF Old(h[p], i) THEN h[p].nRec + 1 ELSE h[p].nRec
      /\ r.inJournal = IF Old(h[p], i) THEN h[p].inJournal \union {i} ELSE h[p].inJournal
      /\ h[p].needSync \/ Unsynced(h[p], i) => r.needSync
      /\ r.dbSize = IF h[p].dbSize < i THEN i ELSE h[p].dbSize
      /\ DOMAIN r.cache = DOMAIN c /\ \A k \in DOMAIN c : k # i => r.cache[k] = c[k]
      /\ r.cache[i] = [val |-> h[p].tx, dirty |-> TRUE, needSync |-> Unsynced(h[p], i),
                       inJournal |-> TRUE]
  BY DEF IsChange
<1>1. /\ h \in [Proc -> Handle] /\ h[p] \in Handle /\ c \in Cache /\ Types /\ Files
      /\ Content \in File /\ jrnl \in Journal /\ jrnl # NoJournal /\ jrnl.count # Junk
      /\ \A k \in DOMAIN jrnl.recs : jrnl.recs[k].val # Junk
      /\ jrnl.size = h[p].orig /\ h[p].orig \in 0..MaxPage /\ h[p].dbSize \in 0..MaxPage
      /\ h[p].orig <= file.size /\ file.size <= h[p].dbSize /\ PageCount(p) = h[p].dbSize
      /\ file.size \in 0..MaxPage
      /\ h[p].tx # 0 /\ h[p].resv /\ h[p].pc # "out" /\ h[p].lock >= RESERVED /\ h[p].state >= RESERVED
      /\ h[p].state >= EXCLUSIVE <=> h[p].lock = EXCLUSIVE
      /\ h[p].state # SYNCED
      /\ h[p].state = RESERVED => file = Content
      /\ 1 \in DOMAIN c /\ \A k \in DOMAIN c : k <= h[p].dbSize + 1
      /\ \A k \in Page : PageOK(p, k)
      /\ ChangesOK(p)
  BY OpenTyped
<1>2. /\ i \in Page /\ PageOK(p, i) /\ c[i] \in Entry
  BY <1>1, CacheTyped
<1>3. /\ h[p].inJournal = Recorded /\ h[p].hdr + h[p].nRec = Len(jrnl.recs)
      /\ h[p].started => linked /\ Junk \notin jrnl.may
      /\ h[p].hdr \in Nat /\ h[p].nRec \in Nat
  BY <1>1, HandleTyped DEF ChangesOK
<1>4. /\ h'[p] = r /\ file' = file /\ disk' = disk /\ linked' = linked /\ ghosts' = ghosts
      /\ UNCHANGED <<fileVars, linked, ghosts, before>> /\ UNCHANGED <<faults, fullSync>>
      /\ clock' = clock /\ before' = before
  BY <1>1 DEF fileVars, histVars
<1>5. Old(h[p], i) => /\ i \notin Recorded /\ i <= jrnl.size /\ c[i] = Clean(Content.page[i])
                      /\ file.page[i] = Content.page[i]
  <2> SUFFICES ASSUME Old(h[p], i)
               PROVE  /\ i \notin Recorded /\ i <= jrnl.size /\ c[i] = Clean(Content.page[i])
                      /\ file.page[i] = Content.page[i]
    OBVIOUS
  <2>1. ~c[i].inJournal /\ i <= h[p].orig
    BY DEF Old
  <2>2. i \notin h[p].inJournal
    BY <1>2, <2>1 DEF PageOK
  <2>3. i \notin Changed(p)
    BY <1>1, <1>2, <2>1, <2>2, Numbers DEF Changed
  <2> QED
    BY <1>1, <1>2, <1>3, <2>1, <2>2, <2>3 DEF PageOK
<1>6. /\ Files' /\ Content' = Content /\ jrnl' \in Journal /\ jrnl' # NoJournal
      /\ jrnl'.size = jrnl.size /\ jrnl'.count = jrnl.count /\ jrnl'.may = jrnl.may
      /\ \A k \in DOMAIN jrnl'.recs : jrnl'.recs[k].val # Junk
      /\ Recorded' = r.inJournal /\ Len(jrnl'.recs) = r.hdr + r.nRec
      /\ \A l \in Page : Synced(l) => Synced(l)'
  <2>1. CASE Old(h[p], i)
    <3>1. c[i].val = Content.page[i]
      BY <1>5, <2>1 DEF Clean
    <3>2. jrnl' = [jrnl EXCEPT !.recs = Append(jrnl.recs, [pg |-> i, val |-> Content.page[i]])]
      BY <2>1, <3>1 DEF Journalled, Old
    <3>3. /\ Files' /\ Content' = Content /\ jrnl' \in Journal /\ jrnl' # NoJournal
          /\ jrnl'.size = jrnl.size /\ jrnl'.count = jrnl.count /\ jrnl'.may = jrnl.may
          /\ Len(jrnl'.recs) = Len(jrnl.recs) + 1 /\ Recorded' = Recorded \union {i}
          /\ \A k \in DOMAIN jrnl'.recs :
               jrnl'.recs[k].val = Junk => k \in DOMAIN jrnl.recs /\ jrnl.recs[k].val = Junk
          /\ \A l \in Page : Synced(l) => Synced(l)'
      BY <1>1, <1>2, <1>4, <1>5, <2>1, <3>2, RecordAdded
    <3>4. Len(jrnl'.recs) = r.hdr + r.nRec
      <4>1. r.nRec = h[p].nRec + 1 /\ r.hdr = h[p].hdr
        BY <1>0, <2>1
      <4>2. h[p].hdr + (h[p].nRec + 1) = (h[p].hdr + h[p].nRec) + 1
        BY <1>3
      <4> QED
        BY <1>3, <3>3, <4>1, <4>2
    <3> QED
      BY <1>0, <1>1, <1>3, <2>1, <3>3, <3>4
  <2>2. CASE ~Old(h[p], i)
    <3>1. jrnl' = jrnl
      BY <2>2 DEF Journalled, Old
    <3>2. UNCHANGED <<fileVars, jrnlVars, before>>
      BY <1>4, <3>1 DEF jrnlVars
    <3>3. Files' /\ Content' = Content
      BY <1>1, <3>2, FilesKept
    <3>4. Recorded' = Recorded /\ \A l \in Page : Synced(l) => Synced(l)'
      BY <3>1 DEF Recorded, Synced
    <3> QED
      BY <1>0, <1>1, <1>3, <2>2, <3>1, <3>3, <3>4
  <2> QED
    BY <2>1, <2>2
<1>7. /\ r.dbSize \in 0..MaxPage /\ h[p].dbSize <= r.dbSize /\ i <= r.dbSize
      /\ r.dbSize \in {i, h[p].dbSize} /\ i <= h[p].dbSize + 1
  BY <1>0, <1>1, <1>2, Numbers
<1>8. PageCount(p)' = r.dbSize
  BY <1>4, <1>7 DEF PageCount
<1>9. /\ i \in Changed(p)'
      /\ \A k \in Page : k # i => (k \in Changed(p)' <=> k \in Changed(p))
      /\ \A k \in Page : k # i => (k \in r.inJournal <=> k \in h[p].inJournal)
  <2>1. i \in Changed(p)'
    <3>1. CASE i <= h[p].orig
      <4>1. i \in r.inJournal
        BY <1>0, <1>2, <3>1 DEF PageOK, Old
      <4> QED
        BY <1>2, <1>4, <4>1 DEF Changed
    <3>2. CASE ~(i <= h[p].orig)
      <4>1. h[p].orig < i
        BY <1>1, <1>2, <3>2, Numbers
      <4> QED
        BY <1>0, <1>2, <1>4, <1>7, <1>8, <4>1 DEF Changed
    <3> QED
      BY <3>1, <3>2
  <2>2. \A k \in Page : k # i => (k \in r.inJournal <=> k \in h[p].inJournal)
    BY <1>0
  <2>3. \A k \in Page : k # i => (k <= r.dbSize <=> k <= h[p].dbSize)
    BY <1>0, <1>1, <1>2, <1>7, Numbers
  <2>4. \A k \in Page : k # i => (k \in Changed(p)' <=> k \in Changed(p))
    BY <1>0, <1>1, <1>4, <1>8, <2>2, <2>3 DEF Changed
  <2> QED
    BY <2>1, <2>2, <2>4
<1>10. ASSUME NEW k \in Page
       PROVE  PageOK(p, k)'
  <2>1. PageOK(p, k)
    BY <1>1
  <2>2. CASE k = i
    <3>1. i \in DOMAIN r.cache /\ r.cache[i].val = r.tx /\ r.cache[i].dirty
          /\ r.cache[i].needSync = Unsynced(h[p], i) /\ r.cache[i].inJournal
      BY <1>0
    <3>2. i <= r.orig => i \in r.inJournal
      BY <1>0, <1>2 DEF PageOK, Old
    <3>3. Unsynced(h[p], i) => r.needSync /\ file.page[i] = Content.page[i]
      <4> SUFFICES ASSUME Unsynced(h[p], i)
                   PROVE  file.page[i] = Content.page[i]
        BY <1>0
      <4>1. CASE Old(h[p], i)
        BY <1>5, <4>1
      <4>2. CASE c[i].needSync
        BY <1>2, <4>2 DEF PageOK
      <4>3. CASE ~Old(h[p], i) /\ ~c[i].needSync
        <5>1. ~h[p].started
          BY <4>3 DEF Unsynced
        <5>2. i \notin Changed(p)
          BY <1>2, <4>3, <5>1 DEF PageOK
        <5> QED
          BY <1>2, <5>2 DEF PageOK
      <4> QED
        BY <4>1, <4>2, <4>3
    <3>4. ~Unsynced(h[p], i) => r.started /\ (i <= r.orig => Synced(i))
      <4> SUFFICES ASSUME ~Unsynced(h[p], i)
                   PROVE  h[p].started /\ (i <= h[p].orig => Synced(i))
        BY <1>0
      <4>1. CASE c[i].inJournal
        <5>1. ~c[i].needSync
          BY <4>1 DEF Unsynced
        <5>2. i \in Changed(p)
          BY <1>2, <4>1 DEF PageOK, Clean
        <5> QED
          BY <1>2, <5>1, <5>2 DEF PageOK
      <4>2. CASE ~c[i].inJournal
        BY <4>2 DEF Unsynced, Old
      <4> QED
        BY <4>1, <4>2
    <3> QED
      BY <1>0, <1>2, <1>4, <1>6, <1>9, <2>2, <3>1, <3>2, <3>3, <3>4 DEF PageOK
  <2>3. CASE k # i /\ k \in DOMAIN c
    <3>1. k \in DOMAIN r.cache /\ r.cache[k] = c[k]
      BY <1>0, <2>3
    <3>2. /\ k \in Changed(p)' <=> k \in Changed(p)
          /\ k \in r.inJournal <=> k \in h[p].inJournal
          /\ r.orig = h[p].orig /\ r.tx = h[p].tx /\ r.started = h[p].started
          /\ h[p].needSync => r.needSync
          /\ Synced(k) => Synced(k)'
      BY <1>0, <1>6, <1>9, <2>3
    <3> QED
      BY <1>4, <1>6, <2>1, <2>3, <3>1, <3>2 DEF PageOK
  <2>4. CASE k # i /\ k \notin DOMAIN c
    <3>1. k \notin DOMAIN r.cache
      BY <1>0, <2>4
    <3> QED
      BY <1>0, <1>4, <1>6, <1>9, <2>1, <2>4, <3>1 DEF PageOK
  <2> QED
    BY <2>2, <2>3, <2>4
<1>11. ChangesOK(p)'
  <2>1. r.orig <= file.size /\ file.size <= r.dbSize
    BY <1>0, <1>1, <1>7
  <2>2. 1 \in DOMAIN r.cache /\ \A k \in DOMAIN r.cache : k <= r.dbSize + 1
    <3> SUFFICES ASSUME NEW k \in DOMAIN c
                 PROVE  k <= r.dbSize + 1
      BY <1>0, <1>1
    <3>1. k \in Nat /\ k <= h[p].dbSize + 1
      BY <1>1, CacheTyped, Numbers
    <3> QED
      BY <1>1, <1>7, <3>1
  <2>3. r.inJournal = Recorded' /\ r.hdr + r.nRec = Len(jrnl'.recs) /\ r.dirtyCache
    BY <1>0, <1>6
  <2>4. r.started => linked' /\ Junk \notin jrnl'.may
    BY <1>0, <1>3, <1>4, <1>6
  <2>5. r.state = RESERVED => file' = Content'
    BY <1>0, <1>1, <1>4, <1>6
  <2> QED
    BY <1>4, <1>10, <2>1, <2>2, <2>3, <2>4, <2>5 DEF ChangesOK
<1>12. CallOK(p)'
  BY <1>4, <1>9 DEF CallOK, Syncing, Writing
<1>13. Process(p)'
  <2>1. /\ r.tx # 0 /\ r.resv /\ r.lock >= RESERVED /\ r.state >= RESERVED
        /\ r.state >= EXCLUSIVE <=> r.lock = EXCLUSIVE
        /\ r.state # SYNCED /\ jrnl'.size = r.orig
        /\ jrnl'.count # Junk
    BY <1>0, <1>1, <1>6
  <2> QED
    BY <1>4, <1>6, <1>11, <1>12, <2>1, ProcessWorks DEF Syncing
<1>14. /\ file' \in File /\ disk' \in Disk /\ linked' \in BOOLEAN /\ ghosts' \in Seq(Journal)
       /\ clock' \in 1..(MaxTx + 1) /\ before' \in File /\ clock' + faults <= MaxTx + 1
  BY <1>1, <1>4, CallTyped DEF Types
<1>15. IInv'
  BY <1>0, <1>1, <1>4, <1>6, <1>13, <1>14, FileStep
<1> QED
  BY <1>15, <1>6

\* A page is changed by the caller.
LEMMA StepWrite ==
  ASSUME IInv, NEW p \in Proc, NEW i \in Page, Write(p, i)
  PROVE  IInv' /\ Content' = Content
<1> DEFINE r == Change(h[p], i)
<1>1. /\ h[p].pc = "idle" /\ h[p].state \in {RESERVED, EXCLUSIVE} /\ i \in DOMAIN h[p].cache
      /\ h' = [h EXCEPT ![p] = r] /\ jrnl' = Journalled(h[p], i)
      /\ UNCHANGED <<fileVars, linked, ghosts, histVars, faults, fullSync>>
  BY DEF Write, InUse
<1>2. Open(p) /\ h[p].job = "none"
  BY <1>1, CallTyped DEF Open, Undoing, Process, Levels
<1>3. r \in Handle /\ IsChange(r, h[p], i) /\ r.pc = "idle" /\ r.job = "none"
  BY <1>1, <1>2, ChangeTyped
<1> HIDE DEF r
<1> QED
  BY <1>1, <1>2, <1>3, PageChanged

\* The change counter is, when a commit begins.
LEMMA StepCommitBegin ==
  ASSUME IInv, NEW p \in Proc, CommitBegin(p)
  PROVE  IInv' /\ Content' = Content
<1> DEFINE s == Change(h[p], 1)
           r == [s EXCEPT !.pc = "sync", !.job = "commit"]
<1>1. /\ h[p].pc = "idle" /\ h[p].state >= RESERVED
      /\ h' = [h EXCEPT ![p] = r] /\ jrnl' = Journalled(h[p], 1)
      /\ UNCHANGED <<fileVars, linked, ghosts, histVars, faults, fullSync>>
  BY DEF CommitBegin, InUse
<1>2. Open(p)
  BY <1>1, CallTyped DEF Open, Undoing, Process, Levels
<1>3. 1 \in DOMAIN h[p].cache
  BY <1>2, OpenTyped
<1>4. s \in Handle /\ IsChange(s, h[p], 1)
  BY <1>2, <1>3, ChangeTyped
<1> HIDE DEF s
<1>5. /\ r \in Handle /\ r.pc = "sync" /\ r.job = "commit"
      /\ r.lock = s.lock /\ r.state = s.state /\ r.resv = s.resv /\ r.orig = s.orig
      /\ r.hdr = s.hdr /\ r.started = s.started /\ r.tx = s.tx /\ r.dirtyCache = s.dirtyCache
      /\ r.nRec = s.nRec /\ r.inJournal = s.inJournal /\ r.needSync = s.needSync
      /\ r.dbSize = s.dbSize /\ r.cache = s.cache
  BY <1>4 DEF Handle, Syncing
<1> HIDE DEF r
<1>6. IsChange(r, h[p], 1)
  BY <1>4, <1>5 DEF IsChange
<1> QED
  BY <1>1, <1>2, <1>3, <1>5, <1>6, PageChanged

-----------------------------------------------------------------------------
(* pager_write_pagelist, sqlite3pager_sync.                                 *)

\* A page is written that the journal brings back.
LEMMA StepWritePage ==
  ASSUME IInv, NEW p \in Proc, WritePage(p)
  PROVE  IInv' /\ Content' = Content
<1>1. /\ h[p].pc = "write" /\ UNCHANGED <<jrnlVars, histVars, faults, fullSync>>
      /\ jrnl' = jrnl /\ linked' = linked /\ ghosts' = ghosts /\ clock' = clock /\ before' = before
      /\ UNCHANGED <<jrnlVars, before>> /\ UNCHANGED <<faults, fullSync>>
  BY DEF WritePage, jrnlVars, histVars
<1>2. PICK i \in IF h[p].job = "spill" THEN {h[p].victim} \intersect Dirty(p) ELSE Dirty(p) :
        /\ h' = [h EXCEPT ![p].cache[i].dirty = FALSE]
        /\ IF i <= h[p].dbSize THEN WriteFile(Store(file, i, h[p].cache[i].val))
                               ELSE UNCHANGED fileVars
  BY DEF WritePage
<1> DEFINE c == h[p].cache
           e == [c[i] EXCEPT !.dirty = FALSE]
           d == [c EXCEPT ![i] = e]
           r == [h[p] EXCEPT !.cache = d]
           f == Store(file, i, h[p].tx)
<1>3. Open(p) /\ h[p].job \in {"spill", "commit"} /\ h[p].state >= EXCLUSIVE
  BY <1>1, CallTyped DEF Open, Undoing, Process, Levels, Writing
<1>4. /\ h \in [Proc -> Handle] /\ h[p] \in Handle /\ c \in Cache /\ Types /\ Files
      /\ file \in File /\ Content \in File /\ Zeroed(file)
      /\ jrnl \in Journal /\ jrnl # NoJournal /\ jrnl.count # Junk /\ Brings(jrnl, Rest, Content)
      /\ \A k \in DOMAIN jrnl.recs : jrnl.recs[k].val # Junk
      /\ jrnl.size = h[p].orig /\ h[p].orig \in 0..MaxPage /\ h[p].dbSize \in 0..MaxPage
      /\ h[p].orig <= file.size /\ file.size <= h[p].dbSize /\ PageCount(p) = h[p].dbSize
      /\ file.size \in 0..MaxPage
      /\ h[p].tx # 0 /\ h[p].tx \in Val /\ h[p].resv /\ h[p].pc # "out"
      /\ h[p].lock = EXCLUSIVE /\ h[p].state # SYNCED
      /\ \A k \in Page : PageOK(p, k)
      /\ ChangesOK(p) /\ CallOK(p)
  BY <1>1, <1>3, OpenTyped
<1>5. i \in DOMAIN c /\ c[i].dirty /\ (h[p].job = "spill" => i = h[p].victim)
  BY <1>2 DEF Dirty
<1>6. i \in Page /\ c[i] \in Entry /\ PageOK(p, i)
  BY <1>4, <1>5, CacheTyped
<1>7. ~c[i].needSync
  BY <1>1, <1>3, <1>4, <1>5 DEF CallOK, Syncing, Writing
<1>8. i \in Changed(p) /\ c[i].val = h[p].tx /\ h[p].started /\ (i <= h[p].orig => Synced(i))
  <2>1. i \in Changed(p)
    BY <1>5, <1>6 DEF PageOK, Clean
  <2> QED
    BY <1>5, <1>6, <1>7, <2>1 DEF PageOK
<1>9. linked /\ Junk \notin jrnl.may /\ h[p].inJournal = Recorded
  BY <1>3, <1>4, <1>8 DEF ChangesOK
<1>10. i <= h[p].dbSize
  <2>1. CASE i \in h[p].inJournal
    <3>1. PICK k \in DOMAIN jrnl.recs : jrnl.recs[k].pg = i
      BY <1>9, <2>1 DEF Recorded
    <3>2. i <= h[p].orig
      BY <1>4, <3>1 DEF Brings
    <3> QED
      BY <1>4, <1>6, <3>2, Numbers
  <2>2. CASE i \notin h[p].inJournal
    BY <1>4, <1>8, <2>2 DEF Changed
  <2> QED
    BY <2>1, <2>2
<1>11. WriteFile(f)
  BY <1>2, <1>8, <1>10
<1>12. /\ f \in File /\ Zeroed(f) /\ f.size = (IF i > file.size THEN i ELSE file.size)
       /\ f.page[i] = h[p].tx /\ \A k \in Page : k # i => f.page[k] = file.page[k]
  BY <1>4, <1>6, StoredFile
<1> HIDE DEF f
<1>13. /\ f.size \in 0..MaxPage /\ file.size <= f.size /\ i <= f.size /\ f.size <= h[p].dbSize
       /\ h[p].orig <= f.size
  BY <1>4, <1>6, <1>10, <1>12, Numbers
<1>14. Files' /\ Content' = Content /\ file' \in File /\ disk' \in Disk /\ file' = f
  <2>1. \A k \in Page : k <= jrnl.size => f.page[k] \in {file.page[k], Content.page[k]} \/ Synced(k)
    BY <1>4, <1>8, <1>12
  <2> QED
    BY <1>1, <1>4, <1>9, <1>11, <1>12, <1>13, <2>1, FileWritten DEF WriteFile
<1>15. e \in Entry /\ e.val = c[i].val /\ ~e.dirty /\ e.needSync = c[i].needSync
       /\ e.inJournal = c[i].inJournal
  BY <1>6 DEF Entry
<1>16. /\ d \in Cache /\ DOMAIN d = DOMAIN c /\ d[i] = e
       /\ \A k \in DOMAIN c : k # i => d[k] = c[k]
  <2> HIDE DEF e
  <2>1. DOMAIN c \in SUBSET Page /\ c \in [DOMAIN c -> Entry]
    BY <1>4, CacheTyped DEF Cache
  <2>2. d \in [DOMAIN c -> Entry]
    BY <1>15, <2>1
  <2>3. d[i] = e
    BY <1>5
  <2>4. DOMAIN d = DOMAIN c /\ \A k \in DOMAIN c : k # i => d[k] = c[k]
    OBVIOUS
  <2> HIDE DEF d
  <2> QED
    BY <2>1, <2>2, <2>3, <2>4, CacheMade
<1>17. h' = [h EXCEPT ![p] = r] /\ h'[p] = r
  BY <1>2, <1>4
<1> HIDE DEF d, e
<1>18. /\ r \in Handle
       /\ r.pc = h[p].pc /\ r.lock = h[p].lock /\ r.state = h[p].state /\ r.job = h[p].job
       /\ r.want = h[p].want /\ r.victim = h[p].victim /\ r.resv = h[p].resv
       /\ r.tx = h[p].tx /\ r.cache = d /\ r.dbSize = h[p].dbSize
       /\ r.orig = h[p].orig /\ r.inJournal = h[p].inJournal
       /\ r.hdr = h[p].hdr /\ r.nRec = h[p].nRec /\ r.needSync = h[p].needSync
       /\ r.started = h[p].started /\ r.dirtyCache = h[p].dirtyCache
  BY <1>4, <1>16 DEF Handle
<1> HIDE DEF r
<1>19. Changed(p)' = Changed(p)
  <2>1. PageCount(p)' = h[p].dbSize
    BY <1>4, <1>17, <1>18 DEF PageCount
  <2> QED
    BY <1>4, <1>17, <1>18, <2>1 DEF Changed
<1>20. Recorded' = Recorded /\ \A k \in Page : Synced(k)' <=> Synced(k)
  BY <1>1 DEF Recorded, Synced
<1>21. ASSUME NEW k \in Page
       PROVE  PageOK(p, k)'
  <2>1. PageOK(p, k)
    BY <1>4
  <2>2. CASE k = i
    <3>1. /\ k \in DOMAIN d /\ k \in Changed(p)' /\ d[k].val = h[p].tx /\ ~d[k].needSync
          /\ d[k].inJournal = c[k].inJournal
          /\ file'.page[k] = h[p].tx /\ k <= file'.size
      BY <1>5, <1>7, <1>8, <1>12, <1>13, <1>14, <1>15, <1>16, <1>19, <2>2
    <3>2. k <= h[p].orig => (d[k].inJournal <=> k \in h[p].inJournal)
      BY <1>5, <2>1, <2>2, <3>1 DEF PageOK
    <3>3. h[p].started /\ (k <= h[p].orig => Synced(k)')
      BY <1>8, <1>20, <2>2
    <3> QED
      BY <1>17, <1>18, <3>1, <3>2, <3>3 DEF PageOK
  <2>3. CASE k # i
    <3>1. /\ file'.page[k] = file.page[k]
          /\ k \in Nat /\ (k <= file.size => k <= file'.size)
      BY <1>4, <1>12, <1>13, <1>14, <2>3, Numbers
    <3>2. (k \in DOMAIN d <=> k \in DOMAIN c) /\ (k \in DOMAIN c => d[k] = c[k])
      BY <1>16, <2>3
    <3> QED
      BY <1>14, <1>17, <1>18, <1>19, <1>20, <2>1, <3>1, <3>2 DEF PageOK
  <2> QED
    BY <2>2, <2>3
<1>22. ChangesOK(p)'
  <2>1. /\ r.inJournal = Recorded' /\ r.hdr + r.nRec = Len(jrnl'.recs)
        /\ r.dirtyCache \/ Changed(p)' = {}
        /\ 1 \in DOMAIN r.cache /\ \A k \in DOMAIN r.cache : k <= r.dbSize + 1
    BY <1>1, <1>3, <1>4, <1>16, <1>18, <1>19, <1>20 DEF ChangesOK
  <2>2. r.orig <= file'.size /\ file'.size <= r.dbSize
    BY <1>13, <1>14, <1>18
  <2>3. r.started => linked' /\ Junk \notin jrnl'.may
    BY <1>1, <1>9
  <2>4. r.state # RESERVED
    BY <1>3, <1>18
  <2> QED
    BY <1>17, <1>21, <2>1, <2>2, <2>3, <2>4 DEF ChangesOK
<1>23. CallOK(p)'
  <2>1. \A k \in DOMAIN c : d[k].needSync = c[k].needSync
    BY <1>15, <1>16
  <2> QED
    BY <1>1, <1>4, <1>16, <1>17, <1>18, <1>19, <2>1 DEF CallOK, Syncing, Writing
<1>24. Process(p)'
  <2>1. /\ r.tx # 0 /\ r.resv /\ r.lock = EXCLUSIVE /\ r.state >= EXCLUSIVE
        /\ r.state # SYNCED /\ r.job \in {"spill", "commit"} /\ r.pc = "write"
    BY <1>1, <1>3, <1>4, <1>18
  <2>2. r.state \in {NO_LOCK, SHARED, RESERVED, EXCLUSIVE, SYNCED}
    BY <1>18 DEF Handle
  <2>3. r.lock >= RESERVED /\ r.state >= RESERVED
    BY <2>1, <2>2
  <2>4. /\ jrnl'.size = r.orig /\ jrnl' # NoJournal /\ jrnl'.count # Junk
        /\ \A k \in DOMAIN jrnl'.recs : jrnl'.recs[k].val # Junk
    BY <1>1, <1>4, <1>18
  <2> QED
    BY <1>17, <1>18, <1>22, <1>23, <2>1, <2>3, <2>4, ProcessWorks DEF Writing
<1>25. /\ jrnl' \in Journal /\ linked' \in BOOLEAN /\ ghosts' \in Seq(Journal)
       /\ clock' \in 1..(MaxTx + 1) /\ before' \in File /\ clock' + faults <= MaxTx + 1
  BY <1>1, <1>4, CallTyped DEF Types
<1>26. \A q \in Others(p) : h[q].pc = "out"
  BY <1>4, Alone
<1>27. IInv'
  BY <1>1, <1>4, <1>14, <1>17, <1>18, <1>24, <1>25, <1>26, FileStep
<1> QED
  BY <1>27, <1>14

\* The file is on the disk before the journal goes.
LEMMA StepSyncFile ==
  ASSUME IInv, NEW p \in Proc, SyncFile(p)
  PROVE  IInv' /\ Content' = Content
<1> DEFINE r == [h[p] EXCEPT !.pc = "synced", !.state = SYNCED]
<1>1. /\ h[p].pc = "write" /\ h[p].job = "commit" /\ Dirty(p) = {} /\ disk' = Durable(file)
      /\ h' = [h EXCEPT ![p].pc = "synced", ![p].state = SYNCED]
      /\ file' = file /\ UNCHANGED <<file, jrnlVars, before>> /\ UNCHANGED <<faults, fullSync>>
      /\ jrnl' = jrnl /\ linked' = linked /\ ghosts' = ghosts /\ clock' = clock /\ before' = before
  BY DEF SyncFile, jrnlVars, histVars
<1>2. Open(p) /\ h[p].state >= EXCLUSIVE
  BY <1>1, CallTyped DEF Open, Undoing, Process, Levels, Writing
<1>3. /\ h \in [Proc -> Handle] /\ h[p] \in Handle /\ Types /\ Files /\ h[p].lock = EXCLUSIVE
      /\ jrnl # NoJournal /\ jrnl.count # Junk /\ jrnl.size = h[p].orig
      /\ \A k \in DOMAIN jrnl.recs : jrnl.recs[k].val # Junk
      /\ h[p].tx # 0 /\ h[p].resv /\ h[p].pc # "out" /\ file \in File
      /\ ChangesOK(p) /\ CallOK(p)
  BY <1>1, <1>2, OpenTyped
<1>4. /\ h[p].started /\ 1 \in Changed(p)
      /\ \A i \in DOMAIN h[p].cache : ~h[p].cache[i].needSync
  BY <1>1, <1>3 DEF CallOK, Writing
<1>5. linked /\ Junk \notin jrnl.may
  BY <1>2, <1>3, <1>4 DEF ChangesOK
<1>6. h' = [h EXCEPT ![p] = r] /\ h'[p] = r
  BY <1>1, <1>3
<1>7. /\ r \in Handle
      /\ r.pc = "synced" /\ r.state = SYNCED /\ r.lock = h[p].lock /\ r.job = h[p].job
      /\ r.resv = h[p].resv
      /\ r.tx = h[p].tx /\ r.cache = h[p].cache /\ r.dbSize = h[p].dbSize
      /\ r.orig = h[p].orig /\ r.inJournal = h[p].inJournal
      /\ r.hdr = h[p].hdr /\ r.nRec = h[p].nRec /\ r.needSync = h[p].needSync
      /\ r.started = h[p].started /\ r.dirtyCache = h[p].dirtyCache
  BY <1>3 DEF Handle, Writing
<1> HIDE DEF r
<1>8. Files' /\ Content' = Content /\ disk' \in Disk
  BY <1>1, <1>3, <1>5, FileSynced
<1>9. ChangesOK(p)' /\ Changed(p)' = Changed(p)
  <2>1. \A l \in Page : Synced(l) => Synced(l)'
    BY <1>1 DEF Synced
  <2>2. r.state # RESERVED /\ (r.started => linked' /\ Junk \notin jrnl'.may)
    BY <1>1, <1>5, <1>7
  <2>3. /\ file' = file /\ jrnl'.recs = jrnl.recs /\ Content' = Content
        /\ r.hdr + r.nRec = h[p].hdr + h[p].nRec
    BY <1>1, <1>7, <1>8
  <2> QED
    BY <1>2, <1>6, <1>7, <2>1, <2>2, <2>3, ChangesKept
<1>10. CallOK(p)'
  <2>1. \A i \in DOMAIN h[p].cache : ~h[p].cache[i].dirty
    BY <1>1 DEF Dirty
  <2>2. disk' = Durable(file') /\ h[p].job = "commit"
    BY <1>1
  <2> QED
    BY <1>4, <1>6, <1>7, <1>9, <2>1, <2>2 DEF CallOK, Syncing, Writing
<1>11. Process(p)'
  <2>1. /\ r.tx # 0 /\ r.resv /\ r.lock >= RESERVED /\ r.state >= RESERVED
        /\ r.state >= EXCLUSIVE /\ r.lock = EXCLUSIVE
        /\ jrnl'.size = r.orig
        /\ jrnl' # NoJournal /\ jrnl'.count # Junk
        /\ \A k \in DOMAIN jrnl'.recs : jrnl'.recs[k].val # Junk
    BY <1>1, <1>3, <1>7
  <2> QED
    BY <1>1, <1>6, <1>7, <1>9, <1>10, <2>1, ProcessWorks DEF Writing
<1>12. /\ jrnl' \in Journal /\ linked' \in BOOLEAN /\ ghosts' \in Seq(Journal)
       /\ clock' \in 1..(MaxTx + 1) /\ before' \in File /\ clock' + faults <= MaxTx + 1
  BY <1>1, <1>3, CallTyped DEF Types
<1>13. \A q \in Others(p) : h[q].pc = "out"
  BY <1>3, Alone
<1>14. /\ file' \in File /\ UNCHANGED <<faults, fullSync>> /\ h[p].pc # "out"
       /\ r \in Handle /\ r.lock = h[p].lock /\ r.resv = h[p].resv
  BY <1>1, <1>3, <1>7
<1>15. IInv'
  BY <1>6, <1>8, <1>11, <1>12, <1>13, <1>14, FileStep
<1> QED
  BY <1>15, <1>8

-----------------------------------------------------------------------------
(* sqlite3pager_commit and sqlite3pager_rollback.                           *)

\* A transaction ends when its journal is removed: the file is what it should be then.
LEMMA JournalGone ==
  ASSUME IInv, NEW p \in Proc, Open(p), DeleteJournal, UNCHANGED <<fileVars, faults, fullSync>>,
         clock' = clock, before' = before \/ before' = Content,
         \/ file = Content /\ before' = before
         \/ linked /\ disk = Durable(file) /\ before' = Content,
         NEW r \in Handle, h' = [h EXCEPT ![p] = r], r.pc = "unlock",
         r.lock = h[p].lock, r.state = h[p].state, r.resv = h[p].resv, r.tx = h[p].tx,
         r.inJournal = {}, ~r.needSync, r.job \in {"commit", "rollback"},
         r.job = "commit" =>
           /\ 1 \in DOMAIN r.cache
           /\ \A i \in DOMAIN r.cache : i <= file.size + 1 /\ r.cache[i] = Clean(file.page[i])
  PROVE  IInv' /\ Content' = file
<1>1. /\ h \in [Proc -> Handle] /\ Types /\ Files /\ Content \in File /\ file \in File
      /\ h[p].tx # 0 /\ h[p].resv /\ h[p].pc # "out"
      /\ h[p].lock >= RESERVED /\ h[p].state >= RESERVED
      /\ h[p].state >= EXCLUSIVE <=> h[p].lock = EXCLUSIVE
  BY OpenTyped
<1>2. /\ h'[p] = r /\ file' = file /\ disk' = disk /\ jrnl' = NoJournal
      /\ UNCHANGED fileVars /\ UNCHANGED <<faults, fullSync>>
  BY <1>1 DEF fileVars, DeleteJournal
<1>3. /\ Files' /\ Content' = file /\ jrnl' \in Journal /\ linked' = FALSE
      /\ ghosts' \in Seq(Journal)
  BY <1>1, <1>2, JournalDeleted
<1>4. CommittedOK(p)'
  BY <1>2 DEF CommittedOK
<1>5. Process(p)'
  <2>1. r.lock # NO_LOCK
    BY <1>1
  <2> QED
    BY <1>1, <1>2, <1>4, <2>1, ProcessUnlocks
<1>6. /\ file' \in File /\ disk' \in Disk /\ linked' \in BOOLEAN /\ clock' \in 1..(MaxTx + 1)
      /\ before' \in File /\ clock' + faults <= MaxTx + 1
  BY <1>1, <1>2, <1>3, CallTyped DEF Types
<1>7. IInv'
  BY <1>1, <1>2, <1>3, <1>5, <1>6, FileStep
<1> QED
  BY <1>7, <1>3

\* The pages behind the end of the file belong to those a transaction changed.
LEMMA LastChanged ==
  ASSUME IInv, NEW p \in Proc, Open(p), h[p].orig < h[p].dbSize
  PROVE  h[p].dbSize \in Page /\ h[p].dbSize \in Changed(p)
<1>1. h[p].dbSize \in 0..MaxPage /\ h[p].orig \in 0..MaxPage /\ PageCount(p) = h[p].dbSize
  BY OpenTyped
<1>2. h[p].dbSize \in Page
  BY <1>1, Numbers
<1> QED
  BY <1>1, <1>2 DEF Changed

\* A transaction that changed nothing leaves the file as it was.
LEMMA StepCommitNothing ==
  ASSUME IInv, NEW p \in Proc, CommitNothing(p)
  PROVE  IInv' /\ Content' = Content
<1> DEFINE c == h[p].cache
           s == Unwrite(h[p])
           r == [s EXCEPT !.job = "commit"]
<1>1. /\ h[p].pc = "idle" /\ h[p].state >= RESERVED /\ ~h[p].dirtyCache /\ DeleteJournal
      /\ h' = [h EXCEPT ![p] = r] /\ UNCHANGED <<fileVars, faults, fullSync>>
      /\ clock' = clock /\ before' = before
  BY DEF CommitNothing, InUse, histVars
<1>2. Open(p)
  BY <1>1, CallTyped DEF Open, Undoing, Process, Levels
<1>3. /\ h[p] \in Handle /\ c \in Cache /\ file \in File /\ Content \in File
      /\ Content.size = h[p].orig /\ h[p].orig \in 0..MaxPage /\ h[p].dbSize \in 0..MaxPage
      /\ h[p].orig <= file.size /\ file.size <= h[p].dbSize /\ file.size \in 0..MaxPage
      /\ 1 \in DOMAIN c /\ \A i \in DOMAIN c : i <= h[p].dbSize + 1
      /\ \A i \in Page : PageOK(p, i)
      /\ ChangesOK(p)
  BY <1>2, OpenTyped
<1>4. Changed(p) = {}
  BY <1>1, <1>2, <1>3 DEF ChangesOK
<1>5. h[p].dbSize <= h[p].orig
  BY <1>2, <1>3, <1>4, LastChanged
<1>6. file = Content /\ file.size = h[p].dbSize
  <2>1. \A i \in Page : file.page[i] = Content.page[i]
    BY <1>3, <1>4 DEF PageOK
  <2>2. file.size = Content.size /\ file.size = h[p].dbSize
    BY <1>3, <1>5
  <2> QED
    BY <1>3, <2>1, <2>2, SameFile
<1>7. \A i \in DOMAIN c : i \in Page /\ c[i] = Clean(file.page[i])
  BY <1>3, <1>4, <1>6, CacheTyped DEF PageOK
<1>8. /\ s \in Handle /\ s.pc = "unlock" /\ s.lock = h[p].lock /\ s.state = h[p].state
      /\ s.resv = h[p].resv /\ s.tx = h[p].tx /\ s.inJournal = {} /\ ~s.needSync
      /\ DOMAIN s.cache = DOMAIN c /\ \A i \in DOMAIN c : s.cache[i] = Clean(c[i].val)
  BY <1>3, UnwriteTyped
<1>9. \A i \in DOMAIN c : s.cache[i] = Clean(file.page[i])
  BY <1>7, <1>8 DEF Clean
<1> HIDE DEF s
<1>10. /\ r \in Handle /\ r.pc = "unlock" /\ r.lock = s.lock /\ r.state = s.state
       /\ r.resv = s.resv /\ r.tx = s.tx /\ r.inJournal = s.inJournal /\ r.needSync = s.needSync
       /\ r.cache = s.cache /\ r.job = "commit"
  BY <1>8 DEF Handle
<1> HIDE DEF r
<1>11. /\ 1 \in DOMAIN r.cache
       /\ \A i \in DOMAIN r.cache : i <= file.size + 1 /\ r.cache[i] = Clean(file.page[i])
  BY <1>3, <1>6, <1>8, <1>9, <1>10
<1> QED
  BY <1>1, <1>2, <1>6, <1>8, <1>10, <1>11, JournalGone

\* When no page is waiting to be written, the file has its size.
LEMMA AllWritten ==
  ASSUME IInv, NEW p \in Proc, Open(p), \A i \in DOMAIN h[p].cache : ~h[p].cache[i].dirty
  PROVE  h[p].dbSize = file.size
<1>1. /\ h[p].orig \in 0..MaxPage /\ h[p].dbSize \in 0..MaxPage /\ file.size \in 0..MaxPage
      /\ h[p].orig <= file.size /\ file.size <= h[p].dbSize
      /\ \A i \in Page : PageOK(p, i)
  BY OpenTyped
<1>2. CASE h[p].orig < h[p].dbSize
  <2>1. h[p].dbSize \in Page /\ h[p].dbSize \in Changed(p) /\ PageOK(p, h[p].dbSize)
    BY <1>1, <1>2, LastChanged
  <2>2. h[p].dbSize <= file.size
    BY <2>1 DEF PageOK
  <2> QED
    BY <1>1, <2>2
<1>3. CASE ~(h[p].orig < h[p].dbSize)
  BY <1>1, <1>3
<1> QED
  BY <1>2, <1>3

\* The removal of the journal makes what was prepared the content.
LEMMA StepCommitEnd ==
  ASSUME IInv, NEW p \in Proc, CommitEnd(p)
  PROVE  IInv' /\ Content' = file
<1> DEFINE c == h[p].cache
           r == Unwrite(h[p])
<1>1. /\ h[p].pc = "synced" /\ DeleteJournal /\ before' = Content /\ clock' = clock
      /\ h' = [h EXCEPT ![p] = r] /\ UNCHANGED <<fileVars, faults, fullSync>>
  BY DEF CommitEnd
<1>2. Open(p) /\ h[p].job = "commit"
  BY <1>1, CallTyped DEF Open, Undoing, Process, Levels, Writing
<1>3. /\ h[p] \in Handle /\ c \in Cache
      /\ h[p].orig \in 0..MaxPage /\ h[p].dbSize \in 0..MaxPage /\ file.size \in 0..MaxPage
      /\ h[p].orig <= file.size
      /\ 1 \in DOMAIN c /\ \A i \in DOMAIN c : i <= h[p].dbSize + 1
      /\ \A i \in Page : PageOK(p, i)
      /\ ChangesOK(p) /\ CallOK(p)
  BY <1>2, OpenTyped
<1>4. /\ disk = Durable(file) /\ \A i \in DOMAIN c : ~c[i].dirty
      /\ h[p].started
  BY <1>1, <1>2, <1>3 DEF CallOK, Writing
<1>5. linked
  BY <1>2, <1>3, <1>4 DEF ChangesOK
<1>6. h[p].dbSize = file.size
  BY <1>2, <1>4, AllWritten
<1>7. \A i \in DOMAIN c : c[i].val = file.page[i]
  <2> TAKE i \in DOMAIN c
  <2>1. PageOK(p, i) /\ ~c[i].dirty
    BY <1>3, <1>4, CacheTyped
  <2>2. CASE i \in Changed(p)
    BY <2>1, <2>2 DEF PageOK
  <2>3. CASE i \notin Changed(p)
    <3>1. c[i] = Clean(Content.page[i]) /\ file.page[i] = Content.page[i]
      BY <2>1, <2>3 DEF PageOK
    <3> QED
      BY <3>1 DEF Clean
  <2> QED
    BY <2>2, <2>3
<1>8. /\ r \in Handle /\ r.pc = "unlock" /\ r.lock = h[p].lock /\ r.state = h[p].state
      /\ r.resv = h[p].resv /\ r.tx = h[p].tx /\ r.inJournal = {} /\ ~r.needSync
      /\ r.job = h[p].job
      /\ DOMAIN r.cache = DOMAIN c /\ \A i \in DOMAIN c : r.cache[i] = Clean(c[i].val)
  BY <1>3, UnwriteTyped
<1> HIDE DEF r
<1>9. /\ 1 \in DOMAIN r.cache
      /\ \A i \in DOMAIN r.cache : i <= file.size + 1 /\ r.cache[i] = Clean(file.page[i])
  <2>1. \A i \in DOMAIN c : i \in Nat /\ i <= h[p].dbSize + 1
    BY <1>3, CacheTyped, Numbers
  <2>2. \A i \in DOMAIN c : i <= file.size + 1
    BY <1>3, <1>6, <2>1
  <2> QED
    BY <1>3, <1>7, <1>8, <2>2
<1> QED
  BY <1>1, <1>2, <1>4, <1>5, <1>8, <1>9, JournalGone

\* A rollback before anything was written: the journal goes.
LEMMA StepRollbackReserved ==
  ASSUME IInv, NEW p \in Proc, RollbackReserved(p)
  PROVE  IInv' /\ Content' = Content
<1> DEFINE c == Reloaded(p)
           q == [h[p] EXCEPT !.cache = c]
           s == Unwrite(q)
           r == [s EXCEPT !.job = "rollback"]
<1>1. /\ h[p].pc \in {"idle", "wait"}
      /\ h' = [h EXCEPT ![p] = r] /\ UNCHANGED <<fileVars, faults, fullSync>>
      /\ clock' = clock /\ before' = before
  BY DEF RollbackReserved, InUse, histVars
<1>2. h[p].state = RESERVED /\ DeleteJournal
  BY DEF RollbackReserved
<1>3. Open(p)
  BY <1>1, <1>2, CallTyped DEF Open, Undoing, Process, Levels, Writing
<1>4. /\ h[p] \in Handle /\ h[p].cache \in Cache /\ file \in File /\ file = Content
  BY <1>2, <1>3, OpenTyped
<1>5. c \in Cache
  <2>1. ASSUME NEW i \in DOMAIN h[p].cache
        PROVE  c[i] \in Entry
    <3>1. h[p].cache[i] \in Entry /\ i \in Page
      BY <1>4, CacheTyped
    <3>2. (IF i <= h[p].orig /\ i <= file.size THEN file.page[i] ELSE Blank) \in Val
      BY <1>4, <3>1, Numbers DEF File, Blank
    <3> QED
      BY <3>1, <3>2, CleanEntry DEF Reloaded
  <2>2. DOMAIN h[p].cache \in SUBSET Page
    BY <1>4, CacheTyped
  <2>3. c \in [DOMAIN h[p].cache -> Entry]
    BY <2>1 DEF Reloaded
  <2> HIDE DEF c
  <2> QED
    BY <2>2, <2>3, CacheMade
<1> HIDE DEF c
<1>6. /\ q \in Handle /\ q.lock = h[p].lock /\ q.state = h[p].state /\ q.resv = h[p].resv
      /\ q.tx = h[p].tx
  BY <1>4, <1>5 DEF Handle
<1> HIDE DEF q
<1>7. /\ s \in Handle /\ s.pc = "unlock" /\ s.lock = q.lock /\ s.state = q.state
      /\ s.resv = q.resv /\ s.tx = q.tx /\ s.inJournal = {} /\ ~s.needSync
  BY <1>6, UnwriteTyped
<1> HIDE DEF s
<1>8. /\ r \in Handle /\ r.pc = "unlock" /\ r.lock = s.lock /\ r.state = s.state
      /\ r.resv = s.resv /\ r.tx = s.tx /\ r.inJournal = s.inJournal /\ r.needSync = s.needSync
      /\ r.job = "rollback"
  BY <1>7 DEF Handle
<1> HIDE DEF r
<1> QED
  BY <1>1, <1>2, <1>3, <1>4, <1>6, <1>7, <1>8, JournalGone

\* A rollback after that is a playback of the own journal.
LEMMA StepRollbackExclusive ==
  ASSUME IInv, NEW p \in Proc, RollbackExclusive(p)
  PROVE  IInv'
<1> DEFINE r == [h[p] EXCEPT !.pc = "trunc", !.job = "rollback"]
<1>1. /\ h[p].pc \in {"idle", "synced"} /\ h[p].state >= EXCLUSIVE
      /\ h' = [h EXCEPT ![p].pc = "trunc", ![p].job = "rollback"]
      /\ UNCHANGED <<fileVars, jrnlVars, histVars, faults, fullSync>>
      /\ file' = file /\ jrnl' = jrnl /\ Content' = Content
  BY DEF RollbackExclusive, InUse, fileVars, jrnlVars, Content
<1>2. Open(p)
  BY <1>1, CallTyped DEF Open, Undoing, Process, Levels, Writing
<1>3. /\ h \in [Proc -> Handle] /\ h[p] \in Handle /\ h[p].cache \in Cache
      /\ jrnl # NoJournal /\ jrnl.count # Junk /\ jrnl.size = h[p].orig
      /\ \A k \in DOMAIN jrnl.recs : jrnl.recs[k].val # Junk
      /\ h[p].tx # 0 /\ h[p].resv /\ h[p].lock = EXCLUSIVE /\ h[p].pc # "out"
      /\ h[p].state \in {NO_LOCK, SHARED, RESERVED, EXCLUSIVE, SYNCED}
      /\ \A i \in Page : PageOK(p, i)
  BY <1>1, <1>2, OpenTyped, HandleTyped
<1>4. h' = [h EXCEPT ![p] = r] /\ h'[p] = r
  BY <1>1, <1>3
<1>5. /\ r \in Handle /\ r.pc = "trunc" /\ r.job = "rollback"
      /\ r.lock = h[p].lock /\ r.state = h[p].state /\ r.resv = h[p].resv /\ r.tx = h[p].tx
      /\ r.cache = h[p].cache /\ r.orig = h[p].orig
      /\ r.inJournal = h[p].inJournal /\ r.needSync = h[p].needSync
  BY <1>3 DEF Handle, Undoing
<1> HIDE DEF r
<1>6. Levels(p)'
  <2>1. /\ r.state >= EXCLUSIVE /\ r.tx # 0 /\ r.lock >= RESERVED /\ r.state >= RESERVED
        /\ r.lock = EXCLUSIVE /\ r.resv
    BY <1>1, <1>3, <1>5
  <2> QED
    BY <1>4, <1>5, <2>1 DEF Levels, Opening, Syncing, Writing, Undoing
<1>7. OpeningOK(p)' /\ ReadingOK(p)' /\ ChangesOK(p)' /\ CallOK(p)' /\ CommittedOK(p)'
  BY <1>4, <1>5
     DEF OpeningOK, ReadingOK, ChangesOK, CallOK, CommittedOK, Open, Opening, Syncing, Writing, Undoing
<1>8. OwnJournal(p)'
  BY <1>1, <1>3, <1>4, <1>5 DEF OwnJournal
<1>9. UndoingOK(p)'
  <2>1. \A i \in DOMAIN h[p].cache : h[p].cache[i].needSync => file.page[i] = Content.page[i]
    BY <1>3, CacheTyped DEF PageOK
  <2> QED
    BY <1>1, <1>3, <1>4, <1>5, <2>1 DEF UndoingOK, Undone
<1>10. Process(p)'
  BY <1>6, <1>7, <1>8, <1>9 DEF Process
<1> QED
  BY <1>1, <1>3, <1>4, <1>5, <1>10, SameLocks

-----------------------------------------------------------------------------
(* Faults, and the start.                                                   *)

\* After a power failure the file is one that the journal left, if any, brings back.
LEMMA StepPowerFailure ==
  ASSUME Risks = {}, IInv, PowerFailure
  PROVE  IInv'
<1>1. /\ clock + faults <= MaxTx /\ faults' = faults + 1 /\ clock' = clock /\ fullSync' = fullSync
      /\ ghosts' = <<>> /\ h' = [p \in Proc |-> Unopened]
  BY DEF PowerFailure
<1>2. PICK j \in Shown, f \in FilesOnDisk :
        /\ InOrder(j, f) /\ file' = f /\ disk' = Durable(f) /\ jrnl' = j
        /\ linked' = (j # NoJournal) /\ before' = Restored(j, f)
  BY DEF PowerFailure
<1>3. /\ Types /\ Files /\ Content \in File /\ before \in File /\ Zeroed(Content) /\ Zeroed(before)
      /\ clock \in 1..(MaxTx + 1) /\ faults \in Nat /\ fullSync \in BOOLEAN
  BY CallTyped, ContentTyped DEF IInv, Types, Files
<1>4. /\ f \in File /\ Zeroed(f) /\ j \in Journal
      /\ Restored(j, f) \in {Content, before}
      /\ j # NoJournal => Brings(j, Durable(f), Restored(j, f))
  BY <1>2, <1>3, Survivors
<1>5. /\ Durable(f) \in Disk /\ MayBe(f, Durable(f)) /\ ZeroedOn(Durable(f))
  BY <1>4, DurableFile
<1>6. Content' = Restored(j, f) /\ Rest' = Durable(f)
  BY <1>1, <1>2 DEF Content, Rest
<1>7. Types'
  <2>1. /\ file' \in File /\ disk' \in Disk /\ jrnl' \in Journal /\ before' \in File
        /\ linked' \in BOOLEAN
    BY <1>2, <1>3, <1>4, <1>5
  <2>2. ghosts' \in Seq(Journal)
    BY <1>1
  <2>3. h' \in [Proc -> Handle]
    BY <1>1, UnopenedTyped
  <2>4. clock' \in 1..(MaxTx + 1) /\ faults' \in Nat /\ clock' + faults' <= MaxTx + 1
    BY <1>1, <1>3, PagerAssumption
  <2> QED
    BY <1>1, <1>3, <2>1, <2>2, <2>3, <2>4 DEF Types
<1>8. Files'
  <2>1. JournalOK'
    BY <1>2, <1>4, <1>6 DEF JournalOK
  <2>2. LinkOK'
    <3>1. j = NoJournal => Restored(j, f) = f
      BY DEF Restored, NoJournal
    <3> QED
      BY <1>1, <1>2, <1>6, <3>1 DEF LinkOK
  <2>3. GhostsOK'
    BY <1>1 DEF GhostsOK
  <2>4. /\ Zeroed(file') /\ Zeroed(before') /\ Zeroed(Content') /\ MayBe(file', disk')
        /\ ZeroedOn(disk')
    BY <1>2, <1>3, <1>4, <1>5, <1>6
  <2> QED
    BY <2>1, <2>2, <2>3, <2>4 DEF Files
<1>9. \A p \in Proc : h'[p] = Unopened
  BY <1>1
<1>10. Exclusion'
  BY <1>9 DEF Exclusion, Unopened
<1>11. \A p \in Proc : Process(p)'
  BY <1>9, UnopenedOutside, ProcessOutNext
<1> QED
  BY <1>7, <1>8, <1>10, <1>11 DEF IInv

\* The invariant holds at the start.
LEMMA InitIInv == Init => IInv
<1> SUFFICES ASSUME Init PROVE IInv
  OBVIOUS
<1>1. PICK n \in InitSizes : file = Sized([i \in Page |-> 1], n)
  BY DEF Init
<1>2. /\ disk = Durable(file) /\ jrnl = NoJournal /\ linked = FALSE /\ ghosts = <<>>
      /\ h = [p \in Proc |-> Unopened] /\ clock = 1 /\ before = file /\ faults = 0
      /\ fullSync \in BOOLEAN
  BY PagerAssumption DEF Init
<1>3. file \in File /\ Zeroed(file)
  <2>1. n \in 0..MaxPage /\ [i \in Page |-> 1] \in [Page -> Val]
    BY PagerAssumption DEF Val
  <2> QED
    BY <1>1, <2>1, SizedFile
<1>4. disk \in Disk /\ MayBe(file, disk) /\ ZeroedOn(disk)
  BY <1>2, <1>3, DurableFile
<1>5. Content = file
  BY <1>2 DEF Content, Restored, NoJournal
<1>6. Types
  <2>1. NoJournal \in Journal
    BY PagerAssumption DEF Journal, NoJournal
  <2>2. clock \in 1..(MaxTx + 1) /\ faults \in Nat /\ clock + faults <= MaxTx + 1
    BY <1>2, PagerAssumption
  <2>3. h \in [Proc -> Handle]
    BY <1>2, UnopenedTyped
  <2>4. jrnl \in Journal /\ linked \in BOOLEAN /\ before \in File
    BY <1>2, <1>3, <2>1
  <2>5. ghosts \in Seq(Journal)
    <3>1. <<>> \in Seq(Journal)
      OBVIOUS
    <3> QED
      BY <1>2, <3>1
  <2> QED
    BY <1>2, <1>3, <1>4, <2>2, <2>3, <2>4, <2>5 DEF Types
<1>7. Files
  BY <1>2, <1>3, <1>4, <1>5 DEF Files, JournalOK, LinkOK, GhostsOK, Rest
<1>8. \A p \in Proc : h[p] = Unopened
  BY <1>2
<1>9. Exclusion
  BY <1>8 DEF Exclusion, Unopened
<1> QED
  BY <1>6, <1>7, <1>8, <1>9, UnopenedOutside, ProcessOut DEF IInv

\* Only the beginning of a transaction is recorded.
LEMMA Noted ==
  ASSUME [Next]_vars
  PROVE  spoiled' = spoiled \/ \E p \in Proc : CreateJournal(p)
<1>1. ASSUME NEW p \in Proc, Step(p), ~CreateJournal(p) PROVE spoiled' = spoiled
  <2>1. CASE \/ LockShared(p) \/ JournalExists(p) \/ CheckReservedLock(p) \/ DeleteStale(p)
             \/ ReadFirst(p) \/ LockHot(p) \/ OpenHot(p) \/ Release(p)
    BY <2>1 DEF LockShared, JournalExists, CheckReservedLock, DeleteStale, ReadFirst, LockHot,
                OpenHot, Release, histVars
  <2>2. CASE \/ PlaybackTruncate(p) \/ PlaybackOnePage(p) \/ PlaybackEnd(p) \/ UnlockToShared(p)
    BY <2>2 DEF PlaybackTruncate, PlaybackOnePage, PlaybackEnd, UnlockToShared, histVars
  <2>3. CASE \E i \in Page : Get(p, i) \/ Spill(p, i) \/ SpillSyncs(p, i) \/ Write(p, i)
    BY <2>3 DEF Get, Spill, SpillSyncs, Write, histVars
  <2>4. CASE \/ BeginReserved(p) \/ CannotCreate(p) \/ SyncRecords(p) \/ WriteCount(p)
             \/ SyncHeader(p) \/ NewSegment(p) \/ SyncNotNeeded(p)
    BY <2>4 DEF BeginReserved, CannotCreate, SyncRecords, WriteCount, SyncHeader, NewSegment,
                SyncNotNeeded, histVars
  <2>5. CASE WaitExclusive(p) \/ Busy(p) \/ WritePage(p) \/ Recycle(p)
    BY <2>5 DEF WaitExclusive, Busy, WritePage, Recycle, histVars
  <2>6. CASE CommitNothing(p) \/ CommitBegin(p) \/ SyncFile(p) \/ CommitEnd(p)
    BY <2>6 DEF CommitNothing, CommitBegin, SyncFile, CommitEnd, histVars
  <2>7. CASE RollbackReserved(p) \/ RollbackExclusive(p) \/ Crash(p)
    BY <2>7 DEF RollbackReserved, RollbackExclusive, Crash, histVars
  <2> QED
    BY <1>1, <2>1, <2>2, <2>3, <2>4, <2>5, <2>6, <2>7 DEF Step
<1>2. CASE PowerFailure
  BY <1>2 DEF PowerFailure
<1>3. CASE UNCHANGED vars
  BY <1>3 DEF vars
<1> QED
  BY <1>1, <1>2, <1>3 DEF Next

\* A step that begins no transaction with a size that is not the file's.
LEMMA Begun ==
  ASSUME [Next]_vars, ~spoiled'
  PROVE  ~spoiled /\ \A p \in Proc : CreateJournal(p) => ~h[p].misled
<1>1. \A p \in Proc : CreateJournal(p) => ~spoiled /\ ~h[p].misled
  BY DEF CreateJournal
<1>2. CASE spoiled' = spoiled
  BY <1>1, <1>2, Zenon
<1> QED
  BY <1>1, <1>2, Noted, Zenon

\* The record is kept.
LEMMA NoteTyped ==
  ASSUME spoiled \in BOOLEAN, [Next]_vars
  PROVE  spoiled' \in BOOLEAN
<1>1. ASSUME NEW p \in Proc, CreateJournal(p) PROVE spoiled' \in BOOLEAN
  BY <1>1 DEF CreateJournal
<1> QED
  BY <1>1, Noted

\* Every step keeps the invariant, as long as no transaction is begun by a process that
\* is misled.
LEMMA NextIInv ==
  ASSUME Risks = {}, IInv, Straight, [Next]_vars, ~spoiled'
  PROVE  IInv'
<1>1. ASSUME NEW p \in Proc, Step(p) PROVE IInv'
  <2>1. CASE LockShared(p) \/ JournalExists(p) \/ CheckReservedLock(p) \/ DeleteStale(p) \/ ReadFirst(p)
    BY <2>1, StepLockShared, StepJournalExists, StepCheckReservedLock, StepDeleteStale, StepReadFirst
  <2>2. CASE LockHot(p) \/ OpenHot(p)
    BY <2>2, StepLockHot, StepOpenHot
  <2>3. CASE PlaybackTruncate(p) \/ PlaybackOnePage(p) \/ PlaybackEnd(p) \/ UnlockToShared(p)
    BY <2>3, StepPlaybackTruncate, StepPlaybackOnePage, StepPlaybackEnd, StepUnlockToShared
  <2>4. CASE \E i \in Page : Get(p, i) \/ Spill(p, i) \/ SpillSyncs(p, i) \/ Write(p, i)
    BY <2>4, StepGet, StepSpill, StepSpillSyncs, StepWrite
  <2>5. CASE Release(p) \/ BeginReserved(p) \/ CreateJournal(p) \/ CannotCreate(p)
    BY <2>5, Begun, StepRelease, StepBeginReserved, StepCreateJournal, StepCannotCreate
  <2>6. CASE SyncRecords(p) \/ WriteCount(p) \/ SyncHeader(p) \/ NewSegment(p) \/ SyncNotNeeded(p)
    BY <2>6, StepSyncRecords, StepWriteCount, StepSyncHeader, StepNewSegment, StepSyncNotNeeded
  <2>7. CASE WaitExclusive(p) \/ Busy(p) \/ WritePage(p) \/ Recycle(p)
    BY <2>7, StepWaitExclusive, StepBusy, StepWritePage, StepRecycle
  <2>8. CASE CommitNothing(p) \/ CommitBegin(p) \/ SyncFile(p) \/ CommitEnd(p)
    BY <2>8, StepCommitNothing, StepCommitBegin, StepSyncFile, StepCommitEnd
  <2>9. CASE RollbackReserved(p) \/ RollbackExclusive(p) \/ Crash(p)
    BY <2>9, StepRollbackReserved, StepRollbackExclusive, StepCrash
  <2> QED
    BY <1>1, <2>1, <2>2, <2>3, <2>4, <2>5, <2>6, <2>7, <2>8, <2>9 DEF Step
<1>2. CASE UNCHANGED vars
  <2>1. /\ UNCHANGED <<fileVars, jrnlVars>> /\ UNCHANGED <<fileVars, jrnlVars, before>>
        /\ file' = file /\ disk' = disk /\ jrnl' = jrnl /\ linked' = linked /\ ghosts' = ghosts
        /\ h' = h /\ clock' = clock /\ before' = before /\ faults' = faults /\ fullSync' = fullSync
    BY <1>2 DEF vars, fileVars, jrnlVars
  <2>2. Types'
    BY <2>1 DEF IInv, Types
  <2>3. Files'
    BY <2>1, FilesKept DEF IInv
  <2>4. Exclusion'
    BY <2>1 DEF IInv, Exclusion
  <2>5. \A p \in Proc : Process(p)'
    BY <2>1, ProcessKept DEF IInv
  <2> QED
    BY <2>2, <2>3, <2>4, <2>5 DEF IInv
<1> QED
  BY <1>1, <1>2, StepPowerFailure DEF Next

\* A step of p leaves the Pagers of the other processes alone.
Only(p) == \A q \in Others(p) : h'[q] = h[q]

\* Whose transaction p has, and whether it is misled, does not change while it has one.
Faithful(p) ==
  /\ Only(p)
  /\ h'[p].tx = 0 \/ h'[p].misled = FALSE \/ (h'[p].tx = h[p].tx /\ h'[p].misled = h[p].misled)

LEMMA StepsFaithful ==
  ASSUME Risks = {}, IInv, NEW p \in Proc, Step(p), CreateJournal(p) => ~h[p].misled
  PROVE  Faithful(p)
<1>1. h \in [Proc -> Handle] /\ h[p] \in Handle
  BY CallTyped, HandleTyped
<1>2. Unopened.tx = 0
  BY DEF Unopened
<1>3. CASE LockShared(p)
  BY <1>1, <1>3 DEF LockShared, Faithful, Only, Others, Handle
<1>4. CASE JournalExists(p)
  BY <1>1, <1>4 DEF JournalExists, Faithful, Only, Others, Handle
<1>5. CASE CheckReservedLock(p)
  BY <1>1, <1>5 DEF CheckReservedLock, Faithful, Only, Others, Handle
<1>6. CASE DeleteStale(p)
  BY <1>1, <1>6 DEF DeleteStale, Faithful, Only, Others, Handle
<1>7. CASE ReadFirst(p)
  <2>1. h[p].tx = 0
    BY <1>7, OpeningTyped DEF ReadFirst
  <2>2. CASE h' = [h EXCEPT ![p] = Unopened]
    BY <1>1, <1>2, <2>2 DEF Faithful, Only, Others
  <2>3. CASE \E n, c, m : h' = [h EXCEPT ![p].pc = "idle", ![p].dbSize = n, ![p].cache = c,
                                         ![p].misled = m]
    BY <1>1, <2>1, <2>3 DEF Faithful, Only, Others, Handle
  <2> QED
    BY <1>7, <2>2, <2>3 DEF ReadFirst
<1>8. CASE LockHot(p) \/ OpenHot(p)
  <2>1. CASE GiveUpHot(p)
    BY <1>1, <2>1 DEF GiveUpHot, Faithful, Only, Others, Unopened
  <2>2. CASE ~GiveUpHot(p)
    BY <1>1, <1>8, <2>2 DEF LockHot, OpenHot, Faithful, Only, Others, Handle
  <2> QED
    BY <2>1, <2>2
<1>9. CASE PlaybackTruncate(p)
  BY <1>1, <1>9 DEF PlaybackTruncate, Faithful, Only, Others, Handle
<1>10. CASE PlaybackOnePage(p)
  <2>1. \E n, c : h' = [h EXCEPT ![p].played = n, ![p].cache = c]
    BY <1>10 DEF PlaybackOnePage
  <2> QED
    BY <1>1, <2>1 DEF Faithful, Only, Others, Handle
<1>11. CASE PlaybackEnd(p) \/ CommitEnd(p)
  <2>1. h' = [h EXCEPT ![p] = Unwrite(h[p])]
    BY <1>11 DEF PlaybackEnd, CommitEnd
  <2>2. Unwrite(h[p]).tx = h[p].tx /\ Unwrite(h[p]).misled = h[p].misled
    BY <1>1 DEF Unwrite, Handle
  <2> QED
    BY <1>1, <2>1, <2>2 DEF Faithful, Only, Others
<1>12. CASE UnlockToShared(p)
  BY <1>1, <1>2, <1>12 DEF UnlockToShared, Faithful, Only, Others, Handle
<1>13. CASE Release(p) \/ CannotCreate(p) \/ Crash(p)
  <2>1. h' = [h EXCEPT ![p] = Unopened]
    BY <1>13 DEF Release, CannotCreate, Crash
  <2> QED
    BY <1>1, <1>2, <2>1 DEF Faithful, Only, Others
<1>14. CASE (\E i \in Page : Get(p, i)) \/ Recycle(p)
  <2>1. PICK k, v : h' = [h EXCEPT ![p] = Load(p, k, v)]
    BY <1>14 DEF Get, Recycle
  <2> QED
    BY <1>1, <2>1 DEF Load, Faithful, Only, Others, Handle
<1>15. CASE \E i \in Page : Spill(p, i) \/ SpillSyncs(p, i)
  BY <1>1, <1>15 DEF Spill, SpillSyncs, Faithful, Only, Others, Handle
<1>16. CASE (\E i \in Page : Write(p, i)) \/ CommitBegin(p)
  <2>1. \A i : Change(h[p], i).tx = h[p].tx /\ Change(h[p], i).misled = h[p].misled
    BY <1>1 DEF Change, Handle
  <2>2. CASE \E i : h' = [h EXCEPT ![p] = Change(h[p], i)]
    BY <1>1, <2>1, <2>2 DEF Faithful, Only, Others
  <2>3. CASE h' = [h EXCEPT ![p] = [Change(h[p], 1) EXCEPT !.pc = "sync", !.job = "commit"]]
    <3> DEFINE s == Change(h[p], 1)
    <3>1. s.tx = h[p].tx /\ s.misled = h[p].misled /\ h' = [h EXCEPT ![p] = [s EXCEPT !.pc = "sync", !.job = "commit"]]
      BY <2>1, <2>3
    <3>2. [s EXCEPT !.pc = "sync", !.job = "commit"].tx = s.tx
      BY <1>1 DEF Change, Handle
    <3>3. [s EXCEPT !.pc = "sync", !.job = "commit"].misled = s.misled
      BY <1>1 DEF Change, Handle
    <3> HIDE DEF s
    <3> QED
      BY <1>1, <3>1, <3>2, <3>3 DEF Faithful, Only, Others
  <2> QED
    BY <1>16, <2>2, <2>3 DEF Write, CommitBegin
<1>17. CASE BeginReserved(p)
  BY <1>1, <1>17 DEF BeginReserved, Faithful, Only, Others, Handle
<1>18. CASE CreateJournal(p)
  <2>1. ~h[p].misled /\ h[p].misled \in BOOLEAN
    BY <1>1, <1>18 DEF Handle
  <2>2. h'[p].misled = h[p].misled /\ Only(p)
    BY <1>1, <1>18 DEF CreateJournal, Only, Others, Handle
  <2> QED
    BY <2>1, <2>2 DEF Faithful
<1>19. CASE SyncRecords(p) \/ WriteCount(p)
  BY <1>1, <1>19 DEF SyncRecords, WriteCount, Faithful, Only, Others, Handle
<1>20. CASE SyncHeader(p)
  BY <1>1, <1>20 DEF SyncHeader, Faithful, Only, Others, Handle
<1>21. CASE NewSegment(p) \/ SyncNotNeeded(p)
  BY <1>1, <1>21 DEF NewSegment, SyncNotNeeded, Faithful, Only, Others, Handle
<1>22. CASE WaitExclusive(p)
  BY <1>1, <1>22 DEF WaitExclusive, Faithful, Only, Others, Handle
<1>23. CASE Busy(p) \/ WritePage(p) \/ SyncFile(p)
  BY <1>1, <1>23 DEF Busy, WritePage, SyncFile, Faithful, Only, Others, Handle
<1>24. CASE CommitNothing(p)
  BY <1>1, <1>24 DEF CommitNothing, Unwrite, Faithful, Only, Others, Handle
<1>25. CASE RollbackReserved(p)
  BY <1>1, <1>25 DEF RollbackReserved, Unwrite, Faithful, Only, Others, Handle
<1>26. CASE RollbackExclusive(p)
  BY <1>1, <1>26 DEF RollbackExclusive, Faithful, Only, Others, Handle
<1> QED
  BY <1>3, <1>4, <1>5, <1>6, <1>7, <1>8, <1>9, <1>10, <1>11, <1>12, <1>13, <1>14, <1>15, <1>16,
     <1>17, <1>18, <1>19, <1>20, <1>21, <1>22, <1>23, <1>24, <1>25, <1>26 DEF Step

\* Nobody who is misled has a transaction.
LEMMA NextStraight ==
  ASSUME Risks = {}, IInv, Straight, [Next]_vars, ~spoiled'
  PROVE  Straight'
<1>1. ASSUME NEW p \in Proc, Step(p) PROVE Straight'
  <2>1. Faithful(p)
    BY <1>1, Begun, StepsFaithful
  <2>2. ASSUME NEW q \in Proc PROVE h'[q].tx # 0 => ~h'[q].misled
    BY <2>1 DEF Faithful, Only, Others, Straight
  <2> QED
    BY <2>2 DEF Straight
<1>2. CASE PowerFailure
  BY <1>2 DEF PowerFailure, Straight, Unopened
<1>3. CASE UNCHANGED vars
  BY <1>3 DEF vars, Straight
<1> QED
  BY <1>1, <1>2, <1>3 DEF Next

\* The start.
LEMMA InitStraight == Init => Straight
BY DEF Init, Straight, Unopened

-----------------------------------------------------------------------------
(* The theorems.  They assume that no cursor keeps pages in use when a        *)
(* change fails (each process then has one cursor), that an empty file is     *)
(* opened by one process at a time, and a file system that brings the removal *)
(* of a file to the disk after what was written earlier.  A handle that gave  *)
(* up a recovery is used again, as the library does, with the size it         *)
(* remembers.                                                                 *)

\* As long as no transaction was begun with a size that is not the file's.
Unspoiled == spoiled \in BOOLEAN /\ (~spoiled => IInv /\ Straight)

\* The invariant, of every interleaving of the system calls of readers, writers and
\* recoveries, with crashes, power failures and recoveries given up between them.
THEOREM PagerInvariance ==
  ASSUME Risks = {}
  PROVE  Spec => []Unspoiled
<1>1. Init => Unspoiled
  BY InitIInv, InitStraight DEF Unspoiled, Init
<1>2. Unspoiled /\ [Next]_vars => Unspoiled'
  BY Begun, NoteTyped, NextIInv, NextStraight DEF Unspoiled
<1> QED
  BY <1>1, <1>2, PTL DEF Spec

\* Pages, journals and Pagers are what they are declared to be.
THEOREM PagerTypes ==
  ASSUME Risks = {}
  PROVE  Spec => [](~spoiled => TypeOK)
<1>1. Unspoiled /\ ~spoiled => TypeOK
  <2> SUFFICES ASSUME IInv, spoiled \in BOOLEAN PROVE TypeOK
    BY DEF Unspoiled
  <2>1. Types
    BY DEF IInv
  <2>2. ASSUME NEW p \in Proc
        PROVE  /\ h[p].state \in 0..5 /\ h[p].lock \in 0..4 /\ h[p].resv \in BOOLEAN
               /\ DOMAIN h[p].cache \subseteq Page
               /\ \A i \in DOMAIN h[p].cache :
                    h[p].cache[i] \in [val : Val, dirty : BOOLEAN, needSync : BOOLEAN, inJournal : BOOLEAN]
               /\ h[p].dbSize \in -1..MaxPage /\ h[p].orig \in 0..MaxPage
               /\ h[p].inJournal \subseteq Page /\ h[p].nRec \in Nat
               /\ h[p].misled \in BOOLEAN
    <3>1. h[p].state \in 0..5 /\ h[p].lock \in 0..4
      BY <2>1, HandleTyped
    <3>2. /\ DOMAIN h[p].cache \subseteq Page /\ \A i \in DOMAIN h[p].cache : h[p].cache[i] \in Entry
      BY <2>1, HandleTyped, CacheTyped
    <3> QED
      BY <2>1, <3>1, <3>2, HandleTyped DEF Entry
  <2> QED
    BY <2>1, <2>2 DEF Types, TypeOK, Disk
<1> QED
  BY <1>1, PagerInvariance, PTL

\* A process in use sees what is committed, and what its own transaction put there,
\* whatever the others do and wherever they crash; one that took an old size for the
\* file's sees no other content on the pages that it counts.
THEOREM ReadersSeeCommitted ==
  ASSUME Risks = {}
  PROVE  Spec => []ReadsCommitted
<1>1. ASSUME IInv, Straight, NEW p \in Proc, InUse(p)
      PROVE  IF h[p].misled
             THEN \A i \in DOMAIN h[p].cache : i <= h[p].dbSize => h[p].cache[i].val = Content.page[i]
             ELSE Sees(p, IF Preparing(p) THEN Prepared(p) ELSE Content)
  <2>1. h[p].pc = "idle" /\ h[p].job = "none"
    BY <1>1, CallTyped DEF InUse, Process, Levels, Opening
  <2>2. CASE h[p].tx = 0 /\ h[p].misled
    <3>1. file = Content /\ Cached(h[p])
      BY <1>1, <2>1, <2>2, ReadingTyped
    <3>2. ASSUME NEW i \in DOMAIN h[p].cache, i <= h[p].dbSize
          PROVE  h[p].cache[i].val = Content.page[i]
      <4>1. h[p].cache[i] = Clean(file.page[i])
        BY <2>2, <3>1, <3>2 DEF Cached
      <4> QED
        BY <3>1, <4>1 DEF Clean
    <3> QED
      BY <2>2, <3>2
  <2>3. CASE h[p].tx = 0 /\ ~h[p].misled
    <3>1. ~Preparing(p)
      BY <2>3 DEF Preparing
    <3>2. /\ file = Content /\ h[p].dbSize \in {-1, file.size}
          /\ \A i \in DOMAIN h[p].cache : h[p].cache[i] = Clean(file.page[i])
      <4>1. file = Content /\ Cached(h[p])
        BY <1>1, <2>1, <2>3, ReadingTyped
      <4> QED
        BY <2>3, <4>1 DEF Cached
    <3>3. ASSUME NEW i \in DOMAIN h[p].cache
          PROVE  h[p].cache[i].val = Content.page[i]
      <4>1. h[p].cache[i] = Clean(file.page[i])
        BY <3>2
      <4> QED
        BY <3>2, <4>1 DEF Clean
    <3>4. h[p].dbSize >= 0 => h[p].dbSize = Content.size
      BY <3>2
    <3> QED
      BY <2>3, <3>1, <3>3, <3>4 DEF Sees
  <2>4. CASE h[p].tx # 0
    <3>1. Preparing(p) /\ Open(p) /\ ~h[p].misled
      BY <1>1, <2>1, <2>4 DEF Preparing, Open, Undoing, Straight
    <3>2. /\ PageCount(p) = h[p].dbSize /\ h[p].cache \in Cache /\ \A i \in Page : PageOK(p, i)
      BY <1>1, <3>1, OpenTyped
    <3>3. Prepared(p).size = h[p].dbSize
      BY <3>2 DEF Prepared
    <3>4. ASSUME NEW i \in DOMAIN h[p].cache
          PROVE  h[p].cache[i].val = Prepared(p).page[i]
      <4>1. i \in Page /\ PageOK(p, i)
        BY <3>2, CacheTyped
      <4>2. Prepared(p).page[i] = IF i \in Changed(p) THEN h[p].tx ELSE Content.page[i]
        BY <4>1 DEF Prepared
      <4> QED
        BY <4>1, <4>2 DEF PageOK, Clean
    <3> QED
      BY <3>1, <3>3, <3>4 DEF Sees
  <2> QED
    BY <2>2, <2>3, <2>4
<1>2. Unspoiled => ReadsCommitted
  BY <1>1 DEF Unspoiled, ReadsCommitted
<1> QED
  BY <1>2, PagerInvariance, PTL

\* On a file system that brings changes to the disk in their order, a power failure at
\* any moment leaves, once the journal is played back, the committed content or the one
\* before it.
THEOREM PowerIsSafe ==
  ASSUME Risks = {}
  PROVE  Spec => []PowerSafe
<1>1. IInv => Recoverable
  BY Survivors DEF IInv, Recoverable
<1>2. Unspoiled => PowerSafe
  BY <1>1 DEF Unspoiled, PowerSafe
<1> QED
  BY <1>2, PagerInvariance, PTL

-----------------------------------------------------------------------------
(* The promise of AtomicFile.                                               *)

\* Who reads, and what is prepared, in terms of where a process stands.
LEMMA Prepares ==
  IInv => /\ attached = {p \in Proc : h[p].pc # "out"}
          /\ next = [p \in Proc |-> IF Open(p) THEN Prepared(p) ELSE NoContent]
<1> SUFFICES ASSUME IInv
             PROVE  /\ attached = {p \in Proc : h[p].pc # "out"}
                    /\ next = [p \in Proc |-> IF Open(p) THEN Prepared(p) ELSE NoContent]
  OBVIOUS
<1>1. ASSUME NEW p \in Proc
      PROVE  (h[p].lock >= SHARED <=> h[p].pc # "out") /\ (Preparing(p) <=> Open(p))
  <2>1. Levels(p) /\ h[p] \in Handle /\ h[p].lock \in {NO_LOCK, SHARED, RESERVED, PENDING, EXCLUSIVE}
    BY CallTyped, HandleTyped DEF Process
  <2>2. h[p].lock >= SHARED <=> h[p].pc # "out"
    BY <2>1 DEF Levels
  <2>3. Preparing(p) <=> Open(p)
    BY <2>1 DEF Levels, Preparing, Open, Opening, Syncing, Writing, Undoing
  <2> QED
    BY <2>2, <2>3
<1> QED
  BY <1>1 DEF attached, next

\* The same of the next state.
LEMMA PreparesNext ==
  IInv' => /\ attached' = {p \in Proc : h'[p].pc # "out"}
           /\ next' = [p \in Proc |-> IF Open(p)' THEN Prepared(p)' ELSE NoContent]
<1>1. (IInv => /\ attached = {p \in Proc : h[p].pc # "out"}
               /\ next = [p \in Proc |-> IF Open(p) THEN Prepared(p) ELSE NoContent])'
  BY Prepares, PTL
<1> QED
  BY <1>1 DEF NoContent

\* What a process prepares is a matter of its Pager and of the content.
LEMMA PreparedSame ==
  ASSUME IInv, NEW p \in Proc, Open(p), Content' = Content,
         h'[p].tx = h[p].tx, h'[p].dbSize = h[p].dbSize, h'[p].orig = h[p].orig,
         h'[p].inJournal = h[p].inJournal
  PROVE  Prepared(p)' = Prepared(p)
<1>1. h[p].dbSize \in 0..MaxPage /\ PageCount(p) = h[p].dbSize
  BY OpenTyped
<1>2. PageCount(p)' = PageCount(p)
  BY <1>1, Numbers DEF PageCount
<1>3. Changed(p)' = Changed(p)
  BY <1>2 DEF Changed
<1> QED
  BY <1>2, <1>3 DEF Prepared

\* A step of p, as AtomicFile sees it.
LEMMA StepSeen ==
  ASSUME IInv, IInv', NEW p \in Proc, Only(p), Content' = Content
  PROVE  /\ attached' = IF h'[p].pc = "out" THEN attached \ {p} ELSE attached \union {p}
         /\ next' = [next EXCEPT ![p] = IF Open(p)' THEN Prepared(p)' ELSE NoContent]
         /\ p \in attached <=> h[p].pc # "out"
         /\ next[p] = IF Open(p) THEN Prepared(p) ELSE NoContent
<1>1. /\ attached = {q \in Proc : h[q].pc # "out"}
      /\ next = [q \in Proc |-> IF Open(q) THEN Prepared(q) ELSE NoContent]
  BY Prepares
<1>2. /\ attached' = {q \in Proc : h'[q].pc # "out"}
      /\ next' = [q \in Proc |-> IF Open(q)' THEN Prepared(q)' ELSE NoContent]
  BY PreparesNext
<1>3. ASSUME NEW q \in Proc, q # p
      PROVE  /\ h'[q].pc = h[q].pc /\ (Open(q)' <=> Open(q))
             /\ Open(q) => Prepared(q)' = Prepared(q)
  <2>1. h'[q] = h[q]
    BY <1>3 DEF Only, Others
  <2>2. Open(q)' <=> Open(q)
    BY <2>1 DEF Open
  <2> QED
    BY <2>1, <2>2, PreparedSame
<1>4. attached' = IF h'[p].pc = "out" THEN attached \ {p} ELSE attached \union {p}
  BY <1>1, <1>2, <1>3
<1>5. next' = [next EXCEPT ![p] = IF Open(p)' THEN Prepared(p)' ELSE NoContent]
  <2>1. ASSUME NEW q \in Proc, q # p
        PROVE  (IF Open(q)' THEN Prepared(q)' ELSE NoContent) = next[q]
    BY <1>1, <1>3, <2>1
  <2> QED
    BY <1>1, <1>2, <2>1
<1> QED
  BY <1>1, <1>4, <1>5

\* A step of a process that has the file open, and no transaction before or after it.
LEMMA Quietly ==
  ASSUME IInv, IInv', NEW p \in Proc, Only(p), Content' = Content, before' = before,
         h[p].pc # "out", h'[p].pc # "out", ~Open(p), ~Open(p)'
  PROVE  UNCHANGED Atomic!vars
<1>1. next = [q \in Proc |-> next[q]]
  BY Prepares
<1>2. /\ attached' = attached \union {p} /\ p \in attached
      /\ next' = [next EXCEPT ![p] = NoContent] /\ next[p] = NoContent
  BY StepSeen
<1>3. attached' = attached /\ next' = next
  BY <1>1, <1>2
<1> QED
  BY <1>3 DEF Atomic!vars

\* A step within a transaction that does not change what would be committed.
LEMMA StillOpen ==
  ASSUME IInv, IInv', NEW p \in Proc, Only(p), Content' = Content, before' = before,
         Open(p), Open(p)',
         h'[p].tx = h[p].tx, h'[p].dbSize = h[p].dbSize, h'[p].orig = h[p].orig,
         h'[p].inJournal = h[p].inJournal
  PROVE  UNCHANGED Atomic!vars
<1>1. next = [q \in Proc |-> next[q]]
  BY Prepares
<1>2. Prepared(p)' = Prepared(p)
  BY PreparedSame
<1>3. h[p].pc # "out" /\ h'[p].pc # "out"
  <2>1. h[p].tx # 0 /\ h'[p].tx # 0
    BY DEF Open
  <2>2. Levels(p) /\ Levels(p)'
    BY DEF IInv, Process
  <2> QED
    BY <2>1, <2>2 DEF Levels, Syncing, Writing, Undoing
<1> QED
  BY <1>1, <1>2, <1>3, StepSeen DEF Atomic!vars

\* A process without a transaction leaves the file.
LEMMA Leaves ==
  ASSUME IInv, IInv', NEW p \in Proc, Only(p), Content' = Content, before' = before,
         h[p].pc # "out", h'[p].pc = "out", ~Open(p), ~Open(p)'
  PROVE  Atomic!Next
<1>1. next = [q \in Proc |-> next[q]]
  BY Prepares
<1>2. Atomic!Detach(p)
  BY <1>1, StepSeen DEF Atomic!Detach
<1> QED
  BY <1>2 DEF Atomic!Next

\* A content is something, also an empty one.
LEMMA PreparedSome ==
  ASSUME IInv, NEW p \in Proc, Open(p)
  PROVE  Prepared(p) # NoContent
<1>1. PageCount(p) \in 0..MaxPage
  BY OpenTyped
<1>2. Prepared(p).size \in 0..MaxPage
  BY <1>1 DEF Prepared
<1> QED
  BY <1>2, Numbers DEF NoContent

\* A transaction ends, and nothing of it remains.
LEMMA Aborts ==
  ASSUME IInv, IInv', NEW p \in Proc, Only(p), Content' = Content, before' = before,
         Open(p), ~Open(p)'
  PROVE  Atomic!Next
<1>1. h[p].pc # "out" /\ Prepared(p) # NoContent
  BY OpenTyped, PreparedSome
<1>2. Atomic!Abort(p)
  BY <1>1, StepSeen DEF Atomic!Abort
<1> QED
  BY <1>2 DEF Atomic!Next

\* What AtomicFile says of a step.
Promised == [Atomic!Next]_(Atomic!vars)

\* A step that leaves the content alone and changes no transaction that it does not end.
LEMMA Mapped ==
  ASSUME IInv, IInv', NEW p \in Proc, Only(p), Content' = Content, before' = before,
         h[p].pc # "out",
         \/ h'[p].tx = 0
         \/ h'[p].pc \in Undoing \union {"unlock"}
         \/ /\ h[p].pc \notin Undoing \union {"unlock"}
            /\ h'[p].tx = h[p].tx /\ h'[p].dbSize = h[p].dbSize
            /\ h'[p].orig = h[p].orig /\ h'[p].inJournal = h[p].inJournal
  PROVE  Promised
<1>1. CASE Open(p) /\ Open(p)'
  <2>1. /\ h'[p].tx = h[p].tx /\ h'[p].dbSize = h[p].dbSize
        /\ h'[p].orig = h[p].orig /\ h'[p].inJournal = h[p].inJournal
    BY <1>1 DEF Open
  <2> QED
    BY <1>1, <2>1, StillOpen DEF Promised
<1>2. CASE Open(p) /\ ~Open(p)'
  BY <1>2, Aborts DEF Promised
<1>3. CASE ~Open(p)
  <2>1. ~Open(p)'
    BY <1>3 DEF Open
  <2>2. CASE h'[p].pc = "out"
    BY <1>3, <2>1, <2>2, Leaves DEF Promised
  <2>3. CASE h'[p].pc # "out"
    BY <1>3, <2>1, <2>3, Quietly DEF Promised
  <2> QED
    BY <2>2, <2>3
<1> QED
  BY <1>1, <1>2, <1>3

\* The content is a matter of the file and its journal.
LEMMA SameContent ==
  ASSUME UNCHANGED <<fileVars, jrnlVars>>
  PROVE  Content' = Content
BY DEF Content, fileVars, jrnlVars

\* A Pager that is opened has no transaction, and none begins.
LEMMA MappedOpening ==
  ASSUME IInv, IInv', NEW p \in Proc,
         \/ JournalExists(p) \/ CheckReservedLock(p) \/ DeleteStale(p) \/ ReadFirst(p)
         \/ LockHot(p) \/ OpenHot(p)
  PROVE  Promised
<1>1. h[p].pc \in Opening \union {"first", "open"}
  BY DEF JournalExists, CheckReservedLock, DeleteStale, ReadFirst, LockHot, OpenHot, Opening
<1>2. h \in [Proc -> Handle] /\ h[p] \in Handle /\ h[p].tx = 0 /\ h[p].pc # "out"
  BY <1>1, OpeningTyped DEF Opening
<1>3. Content' = Content
  BY SameContent, StepDeleteStale
     DEF JournalExists, CheckReservedLock, ReadFirst, LockHot, OpenHot
<1>4. before' = before
  BY DEF JournalExists, CheckReservedLock, DeleteStale, ReadFirst, LockHot, OpenHot, histVars
<1>5. Only(p) /\ h'[p].tx = 0
  <2>1. CASE JournalExists(p)
    BY <1>2, <2>1 DEF JournalExists, Only, Others, Handle
  <2>2. CASE CheckReservedLock(p)
    BY <1>2, <2>2 DEF CheckReservedLock, Only, Others, Handle
  <2>3. CASE DeleteStale(p)
    BY <1>2, <2>3 DEF DeleteStale, Only, Others, Handle
  <2>4. CASE ReadFirst(p)
    <3>1. CASE h' = [h EXCEPT ![p] = Unopened]
      BY <1>2, <3>1 DEF Only, Others, Unopened
    <3>2. CASE \E n, c, m : h' = [h EXCEPT ![p].pc = "idle", ![p].dbSize = n, ![p].cache = c,
                                           ![p].misled = m]
      BY <1>2, <3>2 DEF Only, Others, Handle
    <3> QED
      BY <2>4, <3>1, <3>2 DEF ReadFirst
  <2>5. CASE LockHot(p)
    <3>1. CASE GiveUpHot(p)
      BY <1>2, <3>1 DEF GiveUpHot, Only, Others, Unopened
    <3>2. CASE h' = [h EXCEPT ![p].pc = "open", ![p].lock = EXCLUSIVE, ![p].state = EXCLUSIVE]
      BY <1>2, <3>2 DEF Only, Others, Handle
    <3> QED
      BY <2>5, <3>1, <3>2 DEF LockHot
  <2>6. CASE OpenHot(p)
    BY <1>2, <2>6 DEF OpenHot, GiveUpHot, Only, Others, Handle, Unopened
  <2> QED
    BY <2>1, <2>2, <2>3, <2>4, <2>5, <2>6
<1> QED
  BY <1>2, <1>3, <1>4, <1>5, Mapped

\* A transaction ends: without changes, or rolled back, or with its process.
LEMMA MappedEnd ==
  ASSUME Risks = {}, IInv, IInv', NEW p \in Proc,
         \/ PlaybackTruncate(p) \/ PlaybackOnePage(p) \/ PlaybackEnd(p) \/ UnlockToShared(p)
         \/ Release(p) \/ CannotCreate(p) \/ (Crash(p) /\ h[p].pc # "out")
         \/ CommitNothing(p) \/ RollbackReserved(p) \/ RollbackExclusive(p)
  PROVE  Promised
<1>1. h \in [Proc -> Handle] /\ h[p] \in Handle /\ Levels(p)
  BY CallTyped, HandleTyped DEF Process
<1>2. h[p].pc # "out"
  BY DEF PlaybackTruncate, PlaybackOnePage, PlaybackEnd, UnlockToShared, Release, CannotCreate,
         CommitNothing, RollbackReserved, RollbackExclusive, InUse
<1>3. Content' = Content
  BY SameContent, StepPlaybackTruncate, StepPlaybackOnePage, StepPlaybackEnd, StepCommitNothing,
     StepRollbackReserved
     DEF UnlockToShared, Release, CannotCreate, Crash, RollbackExclusive
<1>4. before' = before
  BY DEF PlaybackTruncate, PlaybackOnePage, PlaybackEnd, UnlockToShared, Release, CannotCreate,
         Crash, CommitNothing, RollbackReserved, RollbackExclusive, histVars
<1>5. Only(p) /\ (h'[p].tx = 0 \/ h'[p].pc \in Undoing \union {"unlock"})
  <2>1. CASE PlaybackTruncate(p)
    BY <1>1, <2>1 DEF PlaybackTruncate, Only, Others, Handle, Undoing
  <2>2. CASE PlaybackOnePage(p)
    <3>1. h[p].pc = "play" /\ \E n, c : h' = [h EXCEPT ![p].played = n, ![p].cache = c]
      BY <2>2 DEF PlaybackOnePage
    <3> QED
      BY <1>1, <3>1 DEF Only, Others, Handle, Undoing
  <2>3. CASE PlaybackEnd(p)
    BY <1>1, <2>3 DEF PlaybackEnd, Only, Others, Handle, Unwrite
  <2>4. CASE UnlockToShared(p)
    <3>1. h[p].pc = "unlock" /\ (h[p].job = "read" => h[p].tx = 0)
      BY <1>1, <2>4 DEF UnlockToShared, Levels
    <3> QED
      BY <1>1, <2>4, <3>1 DEF UnlockToShared, Only, Others, Handle, Unopened
  <2>5. CASE Release(p) \/ CannotCreate(p) \/ Crash(p)
    <3>1. h' = [h EXCEPT ![p] = Unopened]
      BY <2>5 DEF Release, CannotCreate, Crash
    <3> QED
      BY <1>1, <3>1 DEF Only, Others, Unopened
  <2>6. CASE CommitNothing(p)
    BY <1>1, <2>6 DEF CommitNothing, Only, Others, Handle, Unwrite
  <2>7. CASE RollbackReserved(p)
    BY <1>1, <2>7 DEF RollbackReserved, Only, Others, Handle, Unwrite
  <2>8. CASE RollbackExclusive(p)
    BY <1>1, <2>8 DEF RollbackExclusive, Only, Others, Handle, Undoing
  <2> QED
    BY <2>1, <2>2, <2>3, <2>4, <2>5, <2>6, <2>7, <2>8
<1> QED
  BY <1>2, <1>3, <1>4, <1>5, Mapped

\* The end of a process that is about to try again.
LEMMA MappedForgotten ==
  ASSUME IInv, IInv', NEW p \in Proc, Crash(p), h[p].pc = "out"
  PROVE  Promised
<1>1. /\ h \in [Proc -> Handle] /\ h' = [h EXCEPT ![p] = Unopened]
      /\ Content' = Content /\ before' = before
  BY CallTyped, SameContent DEF Crash, histVars
<1>2. h[p].tx = 0
  BY CallTyped, OutsideFields DEF Process, Levels
<1>3. Only(p) /\ ~Open(p) /\ ~Open(p)' /\ h'[p].pc = "out"
  BY <1>1, <1>2 DEF Only, Others, Open, Unopened
<1>4. next = [q \in Proc |-> next[q]]
  BY Prepares
<1>5. /\ attached' = attached \ {p} /\ p \notin attached
      /\ next' = [next EXCEPT ![p] = NoContent] /\ next[p] = NoContent
  BY <1>1, <1>3, StepSeen
<1>6. attached' = attached /\ next' = next
  BY <1>4, <1>5
<1> QED
  BY <1>1, <1>6 DEF Promised, Atomic!vars

\* Nothing else of a transaction changes in a step than where its process stands.
Stays(p) ==
  /\ h[p].pc \notin {"out", "unlock"} \union Undoing
  /\ h'[p].tx = h[p].tx /\ h'[p].dbSize = h[p].dbSize
  /\ h'[p].orig = h[p].orig /\ h'[p].inJournal = h[p].inJournal

\* The journal is synced, the lock awaited, and pages are written to the file.
LEMMA MappedCall ==
  ASSUME Risks = {}, IInv, IInv', NEW p \in Proc,
         \/ BeginReserved(p) \/ SyncRecords(p) \/ WriteCount(p) \/ SyncHeader(p)
         \/ NewSegment(p) \/ SyncNotNeeded(p) \/ WaitExclusive(p) \/ Busy(p)
         \/ WritePage(p) \/ SyncFile(p)
  PROVE  Promised
<1>1. h \in [Proc -> Handle] /\ h[p] \in Handle
  BY CallTyped, HandleTyped
<1>2. Content' = Content
  <2>1. CASE \/ SyncRecords(p) \/ WriteCount(p) \/ SyncHeader(p) \/ WritePage(p) \/ SyncFile(p)
    BY <2>1, StepSyncRecords, StepWriteCount, StepSyncHeader, StepWritePage, StepSyncFile
  <2>2. CASE \/ BeginReserved(p) \/ NewSegment(p) \/ SyncNotNeeded(p) \/ WaitExclusive(p)
             \/ Busy(p)
    <3>1. UNCHANGED <<fileVars, jrnlVars>>
      BY <2>2 DEF BeginReserved, NewSegment, SyncNotNeeded, WaitExclusive, Busy
    <3> QED
      BY <3>1, SameContent
  <2> QED
    BY <2>1, <2>2
<1>3. before' = before
  BY DEF BeginReserved, SyncRecords, WriteCount, SyncHeader, NewSegment, SyncNotNeeded,
         WaitExclusive, Busy, WritePage, SyncFile, histVars
<1>4. Only(p) /\ Stays(p)
  <2>1. CASE BeginReserved(p)
    BY <1>1, <2>1 DEF BeginReserved, InUse, Only, Stays, Others, Handle, Undoing
  <2>2. CASE SyncRecords(p)
    BY <1>1, <2>2 DEF SyncRecords, Only, Stays, Others, Handle, Undoing
  <2>3. CASE WriteCount(p)
    BY <1>1, <2>3 DEF WriteCount, Only, Stays, Others, Handle, Undoing
  <2>4. CASE SyncHeader(p)
    BY <1>1, <2>4 DEF SyncHeader, Only, Stays, Others, Handle, Undoing
  <2>5. CASE NewSegment(p)
    BY <1>1, <2>5 DEF NewSegment, Only, Stays, Others, Handle, Undoing
  <2>6. CASE SyncNotNeeded(p)
    BY <1>1, <2>6 DEF SyncNotNeeded, Only, Stays, Others, Handle, Undoing
  <2>7. CASE WaitExclusive(p)
    BY <1>1, <2>7 DEF WaitExclusive, Only, Stays, Others, Handle, Undoing
  <2>8. CASE Busy(p)
    BY <1>1, <2>8 DEF Busy, Only, Stays, Others, Handle, Undoing
  <2>9. CASE WritePage(p)
    BY <1>1, <2>9 DEF WritePage, Only, Stays, Others, Handle, Undoing
  <2>10. CASE SyncFile(p)
    BY <1>1, <2>10 DEF SyncFile, Only, Stays, Others, Handle, Undoing
  <2> QED
    BY <2>1, <2>2, <2>3, <2>4, <2>5, <2>6, <2>7, <2>8, <2>9, <2>10
<1> QED
  BY <1>2, <1>3, <1>4, Mapped DEF Stays

\* A page comes into the cache, in the place of another one or not.
LEMMA MappedLoad ==
  ASSUME IInv, IInv', NEW p \in Proc, NEW i \in Page,
         Get(p, i) \/ Spill(p, i) \/ SpillSyncs(p, i) \/ Recycle(p)
  PROVE  Promised
<1>1. h \in [Proc -> Handle] /\ h[p] \in Handle
  BY CallTyped, HandleTyped
<1>2. h[p].pc \in {"idle", "write"} /\ Content' = Content /\ before' = before
  BY SameContent DEF Get, Spill, SpillSyncs, Recycle, Wanted, InUse, histVars
<1>3. CASE Spill(p, i) \/ SpillSyncs(p, i)
  <2>1. Only(p) /\ Stays(p)
    BY <1>1, <1>2, <1>3 DEF Spill, SpillSyncs, Only, Stays, Others, Handle, Undoing
  <2> QED
    BY <1>2, <2>1, Mapped DEF Stays
<1>4. CASE Get(p, i) \/ Recycle(p)
  <2>1. PICK k, v : h' = [h EXCEPT ![p] = Load(p, k, v)]
    BY <1>4 DEF Get, Recycle
  <2>2. /\ Only(p) /\ h'[p].tx = h[p].tx /\ h'[p].dbSize = PageCount(p)
        /\ h'[p].orig = h[p].orig /\ h'[p].inJournal = h[p].inJournal
    BY <1>1, <2>1 DEF Load, Only, Others, Handle
  <2>3. CASE h[p].tx = 0
    BY <1>2, <2>2, <2>3, Mapped
  <2>4. CASE h[p].tx # 0
    <3>1. h[p].pc \notin Undoing \union {"out", "unlock"}
      BY <1>2 DEF Undoing
    <3>2. h'[p].dbSize = h[p].dbSize
      BY <2>2, <2>4, <3>1, OpenTyped DEF Open
    <3> QED
      BY <1>2, <2>2, <3>1, <3>2, Mapped
  <2> QED
    BY <2>3, <2>4
<1> QED
  BY <1>3, <1>4

\* A process that opens the file attaches to it.
LEMMA MappedAttach ==
  ASSUME IInv, IInv', NEW p \in Proc, LockShared(p)
  PROVE  Promised
<1>1. h \in [Proc -> Handle] /\ h[p] \in Handle /\ h[p].pc = "out" /\ h[p].tx = 0
  BY CallTyped, HandleTyped, OutsideFields DEF LockShared, Process, Levels
<1>2. Only(p) /\ h'[p].pc = "exists" /\ h'[p].tx = 0 /\ h[p].tx = 0
  BY <1>1 DEF LockShared, Only, Others, Handle
<1>3. Content' = Content /\ before' = before
  BY SameContent DEF LockShared, histVars
<1>4. ~Open(p) /\ ~Open(p)'
  BY <1>2 DEF Open
<1>5. next = [q \in Proc |-> next[q]]
  BY Prepares
<1>6. Atomic!Attach(p)
  BY <1>1, <1>2, <1>3, <1>4, <1>5, StepSeen DEF Atomic!Attach
<1> QED
  BY <1>6 DEF Promised, Atomic!Next

\* A transaction begins with its journal, while there is no other.
LEMMA MappedBegin ==
  ASSUME IInv, IInv', NEW p \in Proc, CreateJournal(p), ~h[p].misled
  PROVE  Promised
<1> DEFINE n == file.size
<1>1. h[p].pc = "create" /\ clock' = clock + 1 /\ before' = before /\ Content' = Content
  BY StepCreateJournal DEF CreateJournal
<1>2. h[p].tx = 0 /\ h[p].resv
  BY <1>1, CallTyped DEF Process, Levels, Syncing, Writing, Undoing
<1>3. /\ h \in [Proc -> Handle] /\ h[p] \in Handle /\ Types /\ Files
      /\ file = Content /\ file \in File /\ n \in 0..MaxPage /\ PageCount(p) = n
  BY <1>1, <1>2, ReadingTyped
<1>4. /\ Only(p) /\ h'[p].pc = "idle" /\ h'[p].tx = clock + 1
      /\ h'[p].dbSize = PageCount(p) /\ h'[p].orig = PageCount(p) /\ h'[p].inJournal = {}
  BY <1>3 DEF CreateJournal, Only, Others, Handle
<1>5. Open(p)' /\ h[p].pc # "out" /\ h'[p].pc # "out"
  BY <1>1, <1>4, CallTyped DEF Open, Undoing
<1>6. Prepared(p)' = Content
  <2>1. PageCount(p)' = n
    BY <1>3, <1>4 DEF PageCount
  <2>2. Changed(p)' = {}
    <3>1. ASSUME NEW i \in Page PROVE ~(n < i /\ i <= n)
      <4>1. i \in Nat /\ n \in Nat
        BY <1>3, Numbers
      <4> QED
        BY <4>1
    <3> QED
      BY <1>3, <1>4, <2>1, <3>1 DEF Changed
  <2>3. Prepared(p)' = [size |-> n, page |-> [i \in Page |-> file.page[i]]]
    BY <1>1, <1>3, <2>1, <2>2 DEF Prepared
  <2> QED
    BY <1>3, <2>3 DEF File
<1>7. \A q \in Proc : ~Open(q)
  BY <1>2, BesideReserved DEF Open
<1>8. \A q \in Proc : next[q] = NoContent
  BY <1>7, Prepares
<1>9. next' = [next EXCEPT ![p] = Content] /\ p \in attached /\ attached' = attached
  BY <1>1, <1>4, <1>5, <1>6, StepSeen
<1>10. Atomic!Begin(p)
  BY <1>1, <1>8, <1>9 DEF Atomic!Begin
<1> QED
  BY <1>10 DEF Promised, Atomic!Next

\* A change of page i is one of what will be committed, there or at its end.
LEMMA MappedChange ==
  ASSUME IInv, IInv', NEW p \in Proc, Open(p), NEW i \in DOMAIN h[p].cache,
         NEW r, h' = [h EXCEPT ![p] = r], IsChange(r, h[p], i), r.pc \in {"idle", "sync"},
         Content' = Content, before' = before
  PROVE  Promised
<1>1. /\ h \in [Proc -> Handle] /\ h[p].cache \in Cache /\ PageCount(p) = h[p].dbSize
      /\ h[p].dbSize \in 0..MaxPage /\ h[p].orig \in 0..MaxPage /\ h[p].tx # 0 /\ h[p].pc # "out"
      /\ i <= h[p].dbSize + 1
  BY OpenTyped
<1>2. i \in Page /\ i \in Nat /\ i >= 1 /\ i <= MaxPage /\ MaxPage \in Nat
  BY <1>1, CacheTyped, Numbers
<1>3. Only(p) /\ h'[p] = r
  BY <1>1 DEF Only, Others
<1>4. /\ r.tx = h[p].tx /\ r.orig = h[p].orig
      /\ r.inJournal \in {h[p].inJournal, h[p].inJournal \union {i}}
      /\ r.dbSize = IF h[p].dbSize < i THEN i ELSE h[p].dbSize
  BY DEF IsChange
<1>5. Open(p)' /\ h'[p].pc # "out"
  BY <1>1, <1>3, <1>4 DEF Open, Undoing
<1>6. /\ r.dbSize \in 0..MaxPage /\ r.dbSize \in {h[p].dbSize, h[p].dbSize + 1}
      /\ i <= r.dbSize
  BY <1>1, <1>2, <1>4
<1>7. PageCount(p)' = r.dbSize
  BY <1>3, <1>6 DEF PageCount
<1>8. ASSUME NEW k \in Page, k # i
      PROVE  Prepared(p)'.page[k] = Prepared(p).page[k]
  <2>1. k \in Nat
    BY Numbers
  <2>2. h[p].orig < k /\ k <= r.dbSize <=> h[p].orig < k /\ k <= h[p].dbSize
    BY <1>1, <1>2, <1>4, <1>8, <2>1
  <2>3. k \in r.inJournal <=> k \in h[p].inJournal
    BY <1>4, <1>8
  <2>4. k \in Changed(p)' <=> k \in Changed(p)
    BY <1>1, <1>3, <1>4, <1>7, <2>2, <2>3 DEF Changed
  <2> QED
    BY <1>3, <1>4, <2>4 DEF Prepared
<1>9. Prepared(p)'.size = r.dbSize /\ Prepared(p).size = h[p].dbSize
  BY <1>1, <1>7 DEF Prepared
<1>10. Prepared(p) # NoContent /\ Prepared(p)' # NoContent
  BY <1>1, <1>6, <1>9, Numbers DEF NoContent
<1>11. /\ p \in attached /\ attached' = attached /\ next[p] = Prepared(p)
       /\ next' = [next EXCEPT ![p] = Prepared(p)']
  <2>1. /\ attached' = attached \union {p} /\ p \in attached
        /\ next[p] = Prepared(p) /\ next' = [next EXCEPT ![p] = Prepared(p)']
    BY <1>1, <1>3, <1>5, StepSeen
  <2> QED
    BY <2>1
<1>12. next'[p] = Prepared(p)' /\ \A q \in Proc : q # p => next'[q] = next[q]
  <2>1. next = [q \in Proc |-> next[q]]
    BY Prepares
  <2> QED
    BY <1>11, <2>1
<1>13. Atomic!Update(p)
  BY <1>2, <1>6, <1>8, <1>9, <1>10, <1>11, <1>12 DEF Atomic!Update
<1> QED
  BY <1>13 DEF Promised, Atomic!Next

\* A call that writes a page, and the commit that increments the change counter.
LEMMA MappedUpdate ==
  ASSUME IInv, IInv', NEW p \in Proc, NEW i \in Page, Write(p, i) \/ CommitBegin(p)
  PROVE  Promised
<1>1. Content' = Content /\ before' = before
  BY StepWrite, StepCommitBegin DEF Write, CommitBegin, histVars
<1>2. h[p].pc = "idle" /\ h[p].state >= RESERVED
  BY DEF Write, CommitBegin, InUse, RESERVED, EXCLUSIVE
<1>3. Open(p)
  BY <1>2, CallTyped DEF Process, Levels, Open, Undoing, RESERVED, SHARED
<1>4. h[p].cache \in Cache /\ 1 \in DOMAIN h[p].cache
  BY <1>3, OpenTyped
<1>5. CASE Write(p, i)
  <2> DEFINE r == Change(h[p], i)
  <2>1. i \in DOMAIN h[p].cache /\ h' = [h EXCEPT ![p] = r]
    BY <1>5 DEF Write
  <2>2. IsChange(r, h[p], i) /\ r.pc = h[p].pc
    BY <1>3, <2>1, ChangeTyped
  <2> HIDE DEF r
  <2> QED
    BY <1>1, <1>2, <1>3, <2>1, <2>2, MappedChange
<1>6. CASE CommitBegin(p)
  <2> DEFINE s == Change(h[p], 1)
             r == [s EXCEPT !.pc = "sync", !.job = "commit"]
  <2>1. h' = [h EXCEPT ![p] = r]
    BY <1>6 DEF CommitBegin
  <2>2. IsChange(s, h[p], 1) /\ s \in Handle
    BY <1>3, <1>4, ChangeTyped
  <2> HIDE DEF s
  <2>3. IsChange(r, h[p], 1) /\ r.pc = "sync"
    BY <2>2 DEF IsChange, Handle
  <2> HIDE DEF r
  <2> QED
    BY <1>1, <1>3, <1>4, <2>1, <2>3, MappedChange
<1> QED
  BY <1>5, <1>6

\* A commit: all of what was prepared is in the file, and nobody else has it open.
LEMMA MappedCommit ==
  ASSUME IInv, IInv', NEW p \in Proc, CommitEnd(p)
  PROVE  Promised
<1>1. h[p].pc = "synced" /\ before' = Content /\ Content' = file
  BY StepCommitEnd DEF CommitEnd
<1>2. Open(p) /\ h[p].lock = EXCLUSIVE
  BY <1>1, CallTyped DEF Open, Undoing, Process, Levels, Writing
<1>3. /\ h \in [Proc -> Handle] /\ h[p] \in Handle /\ file \in File
      /\ PageCount(p) = h[p].dbSize /\ h[p].cache \in Cache
      /\ \A i \in Page : PageOK(p, i)
      /\ CallOK(p)
  BY <1>2, OpenTyped
<1>4. \A i \in DOMAIN h[p].cache : ~h[p].cache[i].dirty
  BY <1>1, <1>3 DEF CallOK
<1>5. h[p].dbSize = file.size
  BY <1>2, <1>4, AllWritten
<1>6. ASSUME NEW i \in Page
      PROVE  file.page[i] = IF i \in Changed(p) THEN h[p].tx ELSE Content.page[i]
  BY <1>3, <1>4, <1>6 DEF PageOK
<1>7. Prepared(p) = file
  <2>1. Prepared(p) = [size |-> file.size, page |-> [i \in Page |-> file.page[i]]]
    BY <1>3, <1>5, <1>6 DEF Prepared
  <2> QED
    BY <1>3, <2>1 DEF File
<1>8. Only(p) /\ h'[p].pc = "unlock"
  BY <1>3 DEF CommitEnd, Only, Others, Handle, Unwrite
<1>9. ASSUME NEW q \in Proc, q # p
      PROVE  h[q].pc = "out" /\ h'[q].pc = "out" /\ ~Open(q) /\ ~Open(q)'
  <2>1. h[q].pc = "out" /\ h'[q] = h[q]
    BY <1>2, <1>8, <1>9, Alone DEF Only, Others
  <2>2. h[q].tx = 0
    BY <2>1, CallTyped, OutsideFields DEF Process, Levels
  <2> QED
    BY <2>1, <2>2 DEF Open
<1>10. attached = {p} /\ attached' = {p}
  BY <1>1, <1>8, <1>9, Prepares, PreparesNext
<1>11. next[p] = Prepared(p) /\ next' = [next EXCEPT ![p] = NoContent]
  <2>1. ~Open(p)'
    BY <1>8 DEF Open
  <2>2. next = [q \in Proc |-> IF q = p THEN Prepared(p) ELSE NoContent]
    BY <1>2, <1>9, Prepares
  <2>3. next' = [q \in Proc |-> NoContent]
    BY <1>9, <2>1, PreparesNext
  <2> QED
    BY <2>2, <2>3
<1>12. Prepared(p) # NoContent
  BY <1>2, PreparedSome
<1>13. Atomic!Commit(p)
  BY <1>1, <1>7, <1>10, <1>11, <1>12 DEF Atomic!Commit
<1> QED
  BY <1>13 DEF Promised, Atomic!Next

\* A power failure takes back the last commit, or nothing.
LEMMA MappedPowerFailure ==
  ASSUME Risks = {}, IInv, IInv', PowerFailure
  PROVE  Promised
<1>1. h' = [p \in Proc |-> Unopened]
  BY DEF PowerFailure
<1>2. Content' \in {Content, before} /\ before' = Content'
  <2>1. PICK j \in Shown, f \in FilesOnDisk :
          InOrder(j, f) /\ file' = f /\ jrnl' = j /\ before' = Restored(j, f)
    BY DEF PowerFailure
  <2>2. Restored(j, f) \in {Content, before}
    BY <2>1, CallTyped, Survivors DEF IInv
  <2> QED
    BY <2>1, <2>2 DEF Content
<1>3. \A p \in Proc : h'[p].pc = "out" /\ ~Open(p)'
  BY <1>1 DEF Open, Unopened
<1>4. attached' = {} /\ next' = [p \in Proc |-> NoContent]
  BY <1>3, PreparesNext
<1>5. Atomic!PowerFailure
  BY <1>2, <1>4 DEF Atomic!PowerFailure
<1> QED
  BY <1>5 DEF Promised, Atomic!Next

\* The file at the start is one that AtomicFile starts with.
LEMMA InitPromised == Init => Atomic!Init
<1> SUFFICES ASSUME Init PROVE Atomic!Init
  OBVIOUS
<1>1. IInv
  BY InitIInv
<1>2. h = [p \in Proc |-> Unopened] /\ jrnl = NoJournal /\ before = file
  BY DEF Init
<1>3. Content = file /\ file \in File
  BY <1>1, <1>2 DEF Content, Restored, NoJournal, IInv, Types
<1>4. Content \in [size : Nat, page : [Page -> Val]]
  BY <1>3, Numbers DEF File
<1>5. \A p \in Proc : h[p].pc = "out" /\ ~Open(p)
  BY <1>2 DEF Open, Unopened
<1>6. attached = {} /\ next = [p \in Proc |-> NoContent]
  BY <1>1, <1>5, Prepares
<1> QED
  BY <1>2, <1>3, <1>4, <1>6 DEF Atomic!Init

\* Every step is one of AtomicFile, or none that it sees.
LEMMA NextPromised ==
  ASSUME Risks = {}, IInv, IInv', [Next]_vars, ~spoiled'
  PROVE  Promised
<1>1. ASSUME NEW p \in Proc, Step(p) PROVE Promised
  <2>1. CASE LockShared(p)
    BY <2>1, MappedAttach
  <2>2. CASE \/ JournalExists(p) \/ CheckReservedLock(p) \/ DeleteStale(p) \/ ReadFirst(p)
             \/ LockHot(p) \/ OpenHot(p)
    BY <2>2, MappedOpening
  <2>3. CASE \/ PlaybackTruncate(p) \/ PlaybackOnePage(p) \/ PlaybackEnd(p) \/ UnlockToShared(p)
             \/ Release(p) \/ CannotCreate(p) \/ (Crash(p) /\ h[p].pc # "out")
             \/ CommitNothing(p) \/ RollbackReserved(p) \/ RollbackExclusive(p)
    BY <2>3, MappedEnd
  <2>4. CASE \E i \in Page : Get(p, i) \/ Spill(p, i) \/ SpillSyncs(p, i) \/ Write(p, i)
    BY <2>4, MappedLoad, MappedUpdate
  <2>5. CASE \/ BeginReserved(p) \/ SyncRecords(p) \/ WriteCount(p) \/ SyncHeader(p)
             \/ NewSegment(p) \/ SyncNotNeeded(p) \/ WaitExclusive(p) \/ Busy(p)
             \/ WritePage(p) \/ SyncFile(p)
    BY <2>5, MappedCall
  <2>6. CASE CreateJournal(p) \/ CommitEnd(p)
    BY <2>6, Begun, MappedBegin, MappedCommit
  <2>7. CASE Recycle(p) \/ CommitBegin(p)
    BY <2>7, MappedLoad, MappedUpdate, Numbers
  <2>8. CASE Crash(p) /\ h[p].pc = "out"
    BY <2>8, MappedForgotten
  <2> QED
    BY <1>1, <2>1, <2>2, <2>3, <2>4, <2>5, <2>6, <2>7, <2>8 DEF Step
<1>2. CASE UNCHANGED vars
  <2>1. /\ UNCHANGED <<fileVars, jrnlVars>> /\ before' = before /\ h' = h
    BY <1>2 DEF vars, fileVars, jrnlVars
  <2>2. Content' = Content
    BY <2>1, SameContent
  <2>3. \A p \in Proc : (Preparing(p)' <=> Preparing(p)) /\ Prepared(p)' = Prepared(p)
    BY <2>1, <2>2 DEF Preparing, Prepared, Changed, PageCount, fileVars
  <2>4. attached' = attached /\ next' = next
    BY <2>1, <2>3 DEF attached, next, NoContent
  <2> QED
    BY <2>1, <2>2, <2>4 DEF Promised, Atomic!vars
<1> QED
  BY <1>1, <1>2, MappedPowerFailure DEF Next

\* The pager implements AtomicFile: however the system calls of the processes, their
\* crashes and power failures interleave, the file has one committed content that changes
\* as a whole, while nobody else reads it, and a power failure takes back a whole commit,
\* until a process begins a transaction with a size that is not the file's.
THEOREM PagerImplements ==
  ASSUME Risks = {}
  PROVE  Spec => ImplementsAtomicFile
<1>1. Init => Atomic!Init
  BY InitPromised
<1>2. Unspoiled /\ Unspoiled' /\ [Next]_vars => [spoiled' \/ Atomic!Next]_(Atomic!vars)
  <2> SUFFICES ASSUME Unspoiled, Unspoiled', [Next]_vars, ~spoiled'
               PROVE  [Atomic!Next]_(Atomic!vars)
    OBVIOUS
  <2>1. IInv /\ IInv'
    BY Begun DEF Unspoiled
  <2> QED
    BY <2>1, NextPromised DEF Promised
<1> QED
  BY <1>1, <1>2, PagerInvariance, PTL DEF Spec, ImplementsAtomicFile

===============================================================================
