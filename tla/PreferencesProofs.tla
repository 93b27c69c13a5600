--------------------------- MODULE PreferencesProofs ---------------------------
(***************************************************************************)
(* Theorems about Preferences for any intervals, sizes, images, sources    *)
(* and records, and any number of edits: what is shown, in use and on disk *)
(* agrees where it has to.                                                 *)
(***************************************************************************)
EXTENDS Preferences, TLAPS

Setting(UserSet, GroupSet) ==
  [interval : Nat, size : Nat, image : Images \cup {BundleImage, NoImage},
   bigger : BOOLEAN, source : Sources, useAB : BOOLEAN,
   users : UserSet, groups : GroupSet]

Shown == Setting(SUBSET People, SUBSET Groups)
InUse == Setting((SUBSET People) \cup {Null}, (SUBSET Groups) \cup {Null})

\* The file is what savePreferences writes of the settings last saved.
Written ==
  /\ file.interval = Rounded(saved.interval)
  /\ \A s \in {"size", "image", "bigger", "source", "useAB", "users", "groups"} :
       file[s] = saved[s]

IInv == TypeOK /\ Written /\ ClosedShowsUse /\ SourceShown /\ (open => running)

Typed ==
  /\ running \in BOOLEAN /\ open \in BOOLEAN
  /\ field \in Shown
  /\ use \in InUse /\ file \in InUse /\ saved \in InUse
  /\ active \in Sources
  /\ book \subseteq People \cup Groups
  /\ edits \in 0..MaxEdits

LEMMA Types == TypeOK <=> Typed
BY DEF TypeOK, Typed, Shown, InUse, Setting

LEMMA TypesNext == TypeOK' <=> Typed'
BY DEF TypeOK, Typed, Shown, InUse, Setting

LEMMA Constants ==
  /\ Intervals \subseteq Nat /\ Sizes \subseteq Nat /\ MaxEdits \in Nat
  /\ MailSource \in Sources
  /\ Null \notin SUBSET People /\ Null \notin SUBSET Groups
BY PreferencesAssumption

LEMMA NoFileType == NoFile \in InUse /\ Nib \in Shown
<1> DEFINE r(y, n) == [interval |-> 0, size |-> 0, image |-> BundleImage, bigger |-> y,
                       source |-> MailSource, useAB |-> n, users |-> Null, groups |-> Null]
<1>1. /\ MailSource \in Sources
      /\ Null \in (SUBSET People) \cup {Null} /\ Null \in (SUBSET Groups) \cup {Null}
  BY Constants
<1>2. \A y, n \in BOOLEAN : r(y, n) \in InUse
  BY <1>1 DEF InUse, Setting
<1>3. r(TRUE, FALSE) \in InUse
  <2> HIDE DEF r
  <2> QED BY <1>2
<1>4. NoFile \in InUse
  BY <1>3 DEF NoFile
<1>5. {} \in SUBSET People /\ {} \in SUBSET Groups
  OBVIOUS
<1> QED
  BY <1>4, <1>5 DEF Nib, InUse, Shown, Setting

\* selectABUsers and resetPreferencePane: the controls show what is in use, except
\* that the interval loses its fraction, and the source that is active.
LEMMA SelectShows ==
  ASSUME NEW f \in Shown, NEW u \in InUse
  PROVE  /\ Select(f, u) \in Shown
         /\ \A s \in {"interval", "size", "image", "bigger", "source", "useAB"} :
              Select(f, u)[s] = f[s]
<1> DEFINE users == IF u.users \in {Null, {}} THEN f.users ELSE u.users
           groups == IF u.groups \in {Null, {}} THEN f.groups ELSE u.groups
<1>1. users \in SUBSET People /\ groups \in SUBSET Groups
  <2>1. /\ f.users \in SUBSET People /\ u.users \in (SUBSET People) \cup {Null}
        /\ f.groups \in SUBSET Groups /\ u.groups \in (SUBSET Groups) \cup {Null}
    BY DEF Shown, InUse, Setting
  <2> QED
    BY <2>1
<1>2. Select(f, u) = [f EXCEPT !.users = users, !.groups = groups]
  BY DEF Select
<1> HIDE DEF users, groups
<1> QED
  BY <1>1, <1>2 DEF Shown, Setting

LEMMA ResetShows ==
  ASSUME NEW f \in Shown, NEW u \in InUse, NEW a \in Sources, NEW r \in Reset(f, u, a)
  PROVE  /\ r \in Shown
         /\ r.interval = (u.interval \div 1000) * 1000
         /\ \A s \in {"size", "image", "useAB"} : r[s] = u[s]
         /\ r.source = a
<1> DEFINE ms == (u.interval \div 1000) * 1000
           b == [f EXCEPT !.interval = ms, !.size = u.size,
                          !.image = u.image, !.source = a, !.useAB = u.useAB]
<1>1. /\ u.interval \in Nat /\ u.size \in Nat /\ u.useAB \in BOOLEAN
      /\ u.image \in Images \cup {BundleImage, NoImage}
  BY DEF InUse, Setting
<1>2. ms \in Nat
  BY <1>1
<1>3. r \in {b, Select(b, u)}
  BY DEF Reset
<1>4. /\ b \in Shown
      /\ b.interval = ms /\ b.size = u.size /\ b.image = u.image /\ b.useAB = u.useAB
      /\ b.source = a
  <2> HIDE DEF ms
  <2> QED
    BY <1>1, <1>2 DEF Shown, Setting
<1> HIDE DEF b, ms
<1>5. CASE r = b
  BY <1>4, <1>5 DEF ms
<1>6. CASE r = Select(b, u)
  BY <1>4, <1>6, SelectShows DEF ms
<1> QED
  BY <1>3, <1>5, <1>6

\* loadPreferences and applyPreferences: make settings.
LEMMA LoadShows ==
  ASSUME NEW f \in InUse, book \subseteq People \cup Groups
  PROVE  /\ Load(f) \in InUse
         /\ Load(f).interval = IF f.interval <= 10 THEN DefaultInterval ELSE f.interval
         /\ Load(f).size = IF f.size < 1 THEN DefaultSize ELSE f.size
         /\ \A s \in {"image", "bigger", "source", "useAB"} : Load(f)[s] = f[s]
         /\ Load(f).users = Exists(f.users) /\ Load(f).groups = Exists(f.groups)
<1> DEFINE ms == IF f.interval <= 10 THEN DefaultInterval ELSE f.interval
           n == IF f.size < 1 THEN DefaultSize ELSE f.size
<1>1. ms \in Nat /\ n \in Nat
  BY DEF InUse, Setting, DefaultInterval, DefaultSize
<1>2. /\ Exists(f.users) \in (SUBSET People) \cup {Null}
      /\ Exists(f.groups) \in (SUBSET Groups) \cup {Null}
  BY DEF Exists, InUse, Setting
<1>3. Load(f) = [f EXCEPT !.interval = ms, !.size = n, !.users = Exists(f.users),
                          !.groups = Exists(f.groups)]
  BY DEF Load
<1> HIDE DEF ms, n
<1>4. /\ Load(f) \in InUse
      /\ Load(f).interval = ms /\ Load(f).size = n
      /\ \A s \in {"image", "bigger", "source", "useAB"} : Load(f)[s] = f[s]
      /\ Load(f).users = Exists(f.users) /\ Load(f).groups = Exists(f.groups)
  BY <1>1, <1>2, <1>3 DEF InUse, Setting
<1> QED
  BY <1>4 DEF ms, n

LEMMA AppliedShows ==
  ASSUME NEW f \in Shown
  PROVE  /\ Applied(f) \in InUse
         /\ Applied(f).users # {}
         /\ \A s \in {"interval", "size", "image", "bigger", "source", "useAB"} :
              Applied(f)[s] = f[s]
<1> DEFINE users == IF f.users = {} THEN Null ELSE f.users
           groups == IF f.groups = {} THEN Null ELSE f.groups
<1>1. users \in (SUBSET People) \cup {Null} /\ groups \in (SUBSET Groups) \cup {Null}
  <2>1. f.users \in SUBSET People /\ f.groups \in SUBSET Groups
    BY DEF Shown, Setting
  <2> QED
    BY <2>1
<1>2. Applied(f) = [f EXCEPT !.users = users, !.groups = groups]
  BY DEF Applied
<1>3. users # {}
  BY Constants
<1> HIDE DEF users, groups
<1> QED
  BY <1>1, <1>2, <1>3 DEF Shown, InUse, Setting

LEMMA RoundedType == ASSUME NEW ms \in Nat PROVE Rounded(ms) \in Nat
BY DEF Rounded

LEMMA InitIInv == Init => IInv
<1> SUFFICES ASSUME Init PROVE IInv
  OBVIOUS
<1>1. TypeOK
  <2>1. /\ NoFile \in InUse /\ Nib \in Shown
        /\ MailSource \in Sources /\ 0 \in 0..MaxEdits
    BY NoFileType, Constants
  <2> QED
    BY <2>1, Types DEF Init, Typed
<1>2. Written
  BY DEF Init, Written, NoFile, Rounded
<1> QED
  BY <1>1, <1>2 DEF Init, IInv, ClosedShowsUse, SourceShown

-----------------------------------------------------------------------------
\* Every action keeps IInv; the lemmas are about the ones that copy settings.
LEMMA LaunchIInv == IInv /\ Launch => IInv'
<1> SUFFICES ASSUME IInv, Launch PROVE IInv'
  OBVIOUS
<1>1. Typed
  BY Types DEF IInv
<1>2. /\ use' = Load(file) /\ active' = file.source /\ field' \in Reset(Nib, use', active')
      /\ running' /\ UNCHANGED <<open, file, book, edits, saved>>
  BY DEF Launch
<1>3. use' \in InUse
  BY <1>1, <1>2, LoadShows DEF Typed
<1>4. active' \in Sources
  BY <1>1, <1>2 DEF Typed, InUse, Setting
<1>5. /\ field' \in Shown
      /\ field'.interval = (use'.interval \div 1000) * 1000
      /\ \A s \in {"size", "image", "useAB"} : field'[s] = use'[s]
      /\ field'.source = active'
  BY <1>2, <1>3, <1>4, NoFileType, ResetShows
<1>6. TypeOK'
  BY <1>1, <1>2, <1>3, <1>4, <1>5, TypesNext DEF Typed, Launch
<1> QED
  BY <1>2, <1>5, <1>6 DEF IInv, Written, ClosedShowsUse, SourceShown

LEMMA EditIInv ==
  ASSUME IInv, NEW f \in Shown, f.source = field.source, Edit(f)
  PROVE  IInv'
<1>1. Typed
  BY Types DEF IInv
<1>2. /\ field' = f /\ edits < MaxEdits /\ edits' = edits + 1 /\ open
      /\ UNCHANGED <<running, open, use, active, file, book, saved>>
  BY DEF Edit, Editing
<1>3. TypeOK'
  BY <1>1, <1>2, Constants, TypesNext DEF Typed
<1> QED
  BY <1>2, <1>3 DEF IInv, Written, ClosedShowsUse, SourceShown

LEMMA SelectSourceIInv == ASSUME IInv, NEW s \in Sources, SelectSource(s) PROVE IInv'
<1>1. Typed
  BY Types DEF IInv
<1>2. /\ field' = [field EXCEPT !.source = s] /\ active' = s /\ open
      /\ edits < MaxEdits /\ edits' = edits + 1
      /\ UNCHANGED <<running, open, use, file, book, saved>>
  BY DEF SelectSource, Editing
<1>3. field' \in Shown /\ field'.source = active'
  BY <1>1, <1>2 DEF Typed, Shown, Setting
<1>4. TypeOK'
  BY <1>1, <1>2, <1>3, Constants, TypesNext DEF Typed
<1> QED
  BY <1>2, <1>3, <1>4 DEF IInv, Written, ClosedShowsUse, SourceShown

LEMMA SwitchABUsageIInv == IInv /\ SwitchABUsage => IInv'
<1> SUFFICES ASSUME IInv, SwitchABUsage PROVE IInv'
  OBVIOUS
<1>1. Typed
  BY Types DEF IInv
<1>2. /\ field' = [field EXCEPT !.useAB = ~field.useAB] /\ open
      /\ use' = [use EXCEPT !.useAB = field'.useAB]
      /\ edits < MaxEdits /\ edits' = edits + 1
      /\ UNCHANGED <<running, open, active, file, book, saved>>
  BY DEF SwitchABUsage, Editing
<1>3. field' \in Shown /\ field'.source = field.source /\ field'.useAB \in BOOLEAN
  BY <1>1, <1>2 DEF Typed, Shown, Setting
<1>4. use' \in InUse
  BY <1>1, <1>2, <1>3 DEF Typed, InUse, Setting
<1>5. TypeOK'
  BY <1>1, <1>2, <1>3, <1>4, Constants, TypesNext DEF Typed
<1> QED
  BY <1>2, <1>3, <1>5 DEF IInv, Written, ClosedShowsUse, SourceShown

LEMMA SelectTabIInv == IInv /\ SelectTab => IInv'
<1> SUFFICES ASSUME IInv, SelectTab PROVE IInv'
  OBVIOUS
<1>1. Typed
  BY Types DEF IInv
<1>2. /\ field' = Select(field, use) /\ open
      /\ UNCHANGED <<running, open, use, active, file, book, edits, saved>>
  BY DEF SelectTab
<1>3. field' \in Shown /\ field'.source = field.source
  BY <1>1, <1>2, SelectShows DEF Typed
<1>4. TypeOK'
  BY <1>1, <1>2, <1>3, TypesNext DEF Typed
<1> QED
  BY <1>2, <1>3, <1>4 DEF IInv, Written, ClosedShowsUse, SourceShown

LEMMA CloseIInv == IInv /\ Close => IInv'
<1> SUFFICES ASSUME IInv, Close PROVE IInv'
  OBVIOUS
<1>1. Typed
  BY Types DEF IInv
<1>2. /\ field' \in Reset(field, use, active) /\ open' = FALSE
      /\ UNCHANGED <<running, use, active, file, book, edits, saved>>
  BY DEF Close
<1>3. /\ field' \in Shown
      /\ field'.interval = (use.interval \div 1000) * 1000
      /\ \A s \in {"size", "image", "useAB"} : field'[s] = use[s]
      /\ field'.source = active
  BY <1>1, <1>2, ResetShows DEF Typed
<1>4. TypeOK'
  BY <1>1, <1>2, <1>3, TypesNext DEF Typed
<1> QED
  BY <1>2, <1>3, <1>4 DEF IInv, Written, ClosedShowsUse, SourceShown

\* savePreferences: the text of the settings in use, and what is on disk after it.
LEMMA SaveWrites ==
  ASSUME NEW u \in InUse, u.users # {}, file \in InUse
  PROVE  /\ Save(u) \in InUse
         /\ Save(u).interval = Rounded(u.interval)
         /\ \A s \in {"size", "bigger", "source", "useAB", "users", "groups"} :
              Save(u)[s] = u[s]
<1> DEFINE ms == Rounded(u.interval)
           image == IF u.image = NoImage THEN file.image ELSE u.image
<1>1. ms \in Nat
  BY RoundedType DEF InUse, Setting
<1>2. image \in Images \cup {BundleImage, NoImage}
  BY DEF InUse, Setting
<1>3. Save(u) = [u EXCEPT !.interval = ms, !.image = image, !.users = u.users]
  BY DEF Save
<1> HIDE DEF ms, image
<1>4. /\ Save(u) \in InUse /\ Save(u).interval = ms
      /\ \A s \in {"size", "bigger", "source", "useAB", "users", "groups"} :
           Save(u)[s] = u[s]
  BY <1>1, <1>2, <1>3 DEF InUse, Setting
<1> QED
  BY <1>4 DEF ms

LEMMA ImageReplaced ==
  ASSUME NEW list \in InUse, NEW image \in Images \cup {BundleImage, NoImage},
         NEW k, k = [list EXCEPT !.image = image]
  PROVE  /\ k \in InUse /\ k.image = image
         /\ \A s \in {"interval", "size", "bigger", "source", "useAB", "users", "groups"} :
              k[s] = list[s]
BY DEF InUse, Setting

LEMMA ApplyIInv ==
  ASSUME IInv, NEW imageWritten \in BOOLEAN, NEW listWritten \in BOOLEAN,
         ApplyPreferences(imageWritten, listWritten)
  PROVE  IInv'
<1>1. Typed /\ Written
  BY Types DEF IInv
<1> DEFINE new == [use' EXCEPT !.image = Save(use').image]
<1>2. /\ use' = Applied(field) /\ open' = FALSE
      /\ file' = Kept(file, Save(use'), imageWritten, listWritten)
      /\ saved' = Kept(saved, new, imageWritten, listWritten)
      /\ field' \in Reset(field, use', active)
      /\ UNCHANGED <<running, active, book, edits>>
  BY DEF ApplyPreferences
<1>3. use' \in InUse /\ use'.users # {}
  BY <1>1, <1>2, AppliedShows DEF Typed
<1>4. /\ field' \in Shown
      /\ field'.interval = (use'.interval \div 1000) * 1000
      /\ \A s \in {"size", "image", "useAB"} : field'[s] = use'[s]
      /\ field'.source = active
  BY <1>1, <1>2, <1>3, ResetShows DEF Typed
<1>5. /\ Save(use') \in InUse /\ Save(use').interval = Rounded(use'.interval)
      /\ \A s \in {"size", "bigger", "source", "useAB", "users", "groups"} :
           Save(use')[s] = use'[s]
  BY <1>1, <1>3, SaveWrites DEF Typed
<1>6. /\ new \in InUse /\ new.image = Save(use').image
      /\ \A s \in {"interval", "size", "bigger", "source", "useAB", "users", "groups"} :
           new[s] = use'[s]
  <2>1. Save(use').image \in Images \cup {BundleImage, NoImage}
    BY <1>5 DEF InUse, Setting
  <2> QED
    BY <1>3, <2>1 DEF InUse, Setting
<1> HIDE DEF new
<1>7. /\ file' \in InUse
      /\ file'.image = IF imageWritten THEN Save(use').image ELSE file.image
      /\ \A s \in {"interval", "size", "bigger", "source", "useAB", "users", "groups"} :
           file'[s] = IF listWritten THEN Save(use')[s] ELSE file[s]
  <2> DEFINE list == IF listWritten THEN Save(use') ELSE file
             image == IF imageWritten THEN Save(use').image ELSE file.image
  <2>1. file \in InUse /\ Save(use') \in InUse
    BY <1>1, <1>5 DEF Typed
  <2>2. list \in InUse /\ image \in Images \cup {BundleImage, NoImage}
    BY <2>1 DEF InUse, Setting
  <2>3. file' = [list EXCEPT !.image = image]
    BY <1>2 DEF Kept
  <2>4. /\ image = IF imageWritten THEN Save(use').image ELSE file.image
        /\ \A s \in {"interval", "size", "bigger", "source", "useAB", "users", "groups"} :
             list[s] = IF listWritten THEN Save(use')[s] ELSE file[s]
    OBVIOUS
  <2> HIDE DEF list, image
  <2>5. /\ file' \in InUse /\ file'.image = image
        /\ \A s \in {"interval", "size", "bigger", "source", "useAB", "users", "groups"} :
             file'[s] = list[s]
    BY <2>2, <2>3, ImageReplaced
  <2> QED
    BY <2>4, <2>5
<1>8. /\ saved' \in InUse
      /\ saved'.image = IF imageWritten THEN new.image ELSE saved.image
      /\ \A s \in {"interval", "size", "bigger", "source", "useAB", "users", "groups"} :
           saved'[s] = IF listWritten THEN new[s] ELSE saved[s]
  <2> DEFINE list == IF listWritten THEN new ELSE saved
             image == IF imageWritten THEN new.image ELSE saved.image
  <2>1. saved \in InUse /\ new \in InUse
    BY <1>1, <1>6 DEF Typed
  <2>2. list \in InUse /\ image \in Images \cup {BundleImage, NoImage}
    BY <2>1 DEF InUse, Setting
  <2>3. saved' = [list EXCEPT !.image = image]
    BY <1>2 DEF Kept
  <2>4. /\ image = IF imageWritten THEN new.image ELSE saved.image
        /\ \A s \in {"interval", "size", "bigger", "source", "useAB", "users", "groups"} :
             list[s] = IF listWritten THEN new[s] ELSE saved[s]
    OBVIOUS
  <2> HIDE DEF list, image
  <2>5. /\ saved' \in InUse /\ saved'.image = image
        /\ \A s \in {"interval", "size", "bigger", "source", "useAB", "users", "groups"} :
             saved'[s] = list[s]
    BY <2>2, <2>3, ImageReplaced
  <2> QED
    BY <2>4, <2>5
<1>9. Written'
  BY <1>1, <1>5, <1>6, <1>7, <1>8 DEF Written
<1>10. TypeOK'
  BY <1>1, <1>2, <1>3, <1>4, <1>7, <1>8, TypesNext DEF Typed
<1> QED
  BY <1>2, <1>4, <1>9, <1>10 DEF IInv, ClosedShowsUse, SourceShown

LEMMA ApplyRaisesIInv == IInv /\ ApplyRaises => IInv'
<1> SUFFICES ASSUME IInv, ApplyRaises PROVE IInv'
  OBVIOUS
<1>1. Typed
  BY Types DEF IInv
<1>2. /\ use' = Applied(field) /\ open
      /\ UNCHANGED <<running, open, field, active, file, book, edits, saved>>
  BY DEF ApplyRaises
<1>3. use' \in InUse
  BY <1>1, <1>2, AppliedShows DEF Typed
<1>4. TypeOK'
  BY <1>1, <1>2, <1>3, TypesNext DEF Typed
<1> QED
  BY <1>2, <1>4 DEF IInv, Written, ClosedShowsUse, SourceShown

-----------------------------------------------------------------------------
LEMMA StepIInv == IInv /\ Next => IInv'
<1> SUFFICES ASSUME IInv, Next PROVE IInv'
  OBVIOUS
<1>1. Typed
  BY Types DEF IInv
<1>2. CASE Launch
  BY <1>2, LaunchIInv
<1>3. CASE Open
  <2>1. /\ running /\ open' = TRUE
        /\ UNCHANGED <<running, field, use, active, file, book, edits, saved>>
    BY <1>3 DEF Open
  <2>2. TypeOK'
    BY <1>1, <2>1, TypesNext DEF Typed
  <2> QED
    BY <2>1, <2>2 DEF IInv, Written, ClosedShowsUse, SourceShown
<1>4. ASSUME NEW ms \in Intervals, EditInterval(ms) PROVE IInv'
  <2>1. /\ [field EXCEPT !.interval = ms] \in Shown
        /\ [field EXCEPT !.interval = ms].source = field.source
    BY <1>1, Constants DEF Typed, Shown, Setting
  <2> QED
    BY <1>4, <2>1, EditIInv DEF EditInterval
<1>5. ASSUME NEW n \in Sizes, EditSize(n) PROVE IInv'
  <2>1. /\ [field EXCEPT !.size = n] \in Shown
        /\ [field EXCEPT !.size = n].source = field.source
    BY <1>1, Constants DEF Typed, Shown, Setting
  <2> QED
    BY <1>5, <2>1, EditIInv DEF EditSize
<1>6. ASSUME NEW i \in Images \cup {NoImage}, EditImage(i) PROVE IInv'
  <2>1. /\ [field EXCEPT !.image = i] \in Shown
        /\ [field EXCEPT !.image = i].source = field.source
    BY <1>1 DEF Typed, Shown, Setting
  <2> QED
    BY <1>6, <2>1, EditIInv DEF EditImage
<1>7. CASE EditBigger
  <2>1. /\ [field EXCEPT !.bigger = ~field.bigger] \in Shown
        /\ [field EXCEPT !.bigger = ~field.bigger].source = field.source
    BY <1>1 DEF Typed, Shown, Setting
  <2> QED
    BY <1>7, <2>1, EditIInv DEF EditBigger
<1>8. ASSUME NEW users \in SUBSET (People \cap book), NEW groups \in SUBSET (Groups \cap book),
             Pick(users, groups)
      PROVE  IInv'
  <2>1. users \in SUBSET People /\ groups \in SUBSET Groups
    OBVIOUS
  <2>2. /\ [field EXCEPT !.users = users, !.groups = groups] \in Shown
        /\ [field EXCEPT !.users = users, !.groups = groups].source = field.source
    BY <1>1, <2>1 DEF Typed, Shown, Setting
  <2> QED
    BY <1>8, <2>2, EditIInv DEF Pick
<1>9. CASE \E s \in Sources : SelectSource(s)
  BY <1>9, SelectSourceIInv
<1>10. CASE SwitchABUsage \/ SelectTab \/ ApplyRaises \/ Close
  BY <1>10, SwitchABUsageIInv, SelectTabIInv, ApplyRaisesIInv, CloseIInv
<1>11. CASE \E imageWritten, listWritten \in BOOLEAN : ApplyPreferences(imageWritten, listWritten)
  BY <1>11, ApplyIInv
<1>12. CASE Exit
  <2>1. /\ running' = FALSE /\ open' = FALSE
        /\ UNCHANGED <<field, use, active, file, book, edits, saved>>
    BY <1>12 DEF Exit
  <2>2. TypeOK'
    BY <1>1, <2>1, TypesNext DEF Typed
  <2> QED
    BY <2>1, <2>2 DEF IInv, Written, ClosedShowsUse, SourceShown
<1>13. CASE \E r \in book : Delete(r)
  <2>1. /\ book' \subseteq book
        /\ UNCHANGED <<running, open, field, use, active, file, edits, saved>>
    BY <1>13 DEF Delete
  <2>2. TypeOK'
    BY <1>1, <2>1, TypesNext DEF Typed
  <2> QED
    BY <2>1, <2>2 DEF IInv, Written, ClosedShowsUse, SourceShown
<1> QED
  BY <1>2, <1>3, <1>4, <1>5, <1>6, <1>7, <1>8, <1>9, <1>10, <1>11, <1>12, <1>13 DEF Next

LEMMA StutterIInv == IInv /\ UNCHANGED vars => IInv'
<1> SUFFICES ASSUME IInv, UNCHANGED vars PROVE IInv'
  OBVIOUS
<1>1. Typed
  BY Types DEF IInv
<1>2. TypeOK'
  BY <1>1, TypesNext DEF Typed, vars
<1> QED
  BY <1>2 DEF IInv, Written, ClosedShowsUse, SourceShown, vars

\* The settings keep their types, and the file is always what savePreferences
\* made of the settings saved last, whichever of its writes failed.
THEOREM SettingsInvariance == Spec => []IInv
<1>1. IInv /\ [Next]_vars => IInv'
  BY StepIInv, StutterIInv
<1> QED
  BY <1>1, InitIInv, PTL DEF Spec

\* While the preferences window is closed, its controls for the refresh interval (in
\* whole seconds), the image size, the default image and the use of the address book
\* show what is in use: no cancelled edit of these is left.  Of the button for
\* makeImagesBigger and of the picker it says nothing, and PanelIsReset is false of them.
THEOREM WindowShowsUse == Spec => []ClosedShowsUse
<1>1. IInv => ClosedShowsUse
  BY DEF IInv
<1> QED
  BY <1>1, SettingsInvariance, PTL

\* The combo box never names another source than the active one.
THEOREM SourceAlwaysShown == Spec => []SourceShown
<1>1. IInv => SourceShown
  BY DEF IInv
<1> QED
  BY <1>1, SettingsInvariance, PTL

-----------------------------------------------------------------------------
\* Only a launch starts the program, and it loads the file.
LEMMA LaunchLoads ==
  IInv /\ [Next]_vars /\ Launching =>
    /\ use' = Load(file) /\ active' = file.source
    /\ file \in InUse /\ saved \in InUse /\ Written /\ book \subseteq People \cup Groups
<1> SUFFICES ASSUME IInv, [Next]_vars, ~running, running' PROVE Launch
  BY Types DEF IInv, Typed, Launch, Launching
<1>1. ~open
  BY DEF IInv
<1> QED
  BY <1>1 DEF Next, vars, Open, Edit, Editing, EditInterval, EditSize, EditImage, EditBigger,
              Pick, SelectSource, SwitchABUsage, SelectTab, ApplyPreferences, ApplyRaises,
              Close, Exit, Delete

LEMMA Rounding ==
  ASSUME NEW ms \in Nat
  PROVE  Rounded(ms) \in Nat /\ Rounded(ms) - ms \in -5..5 /\ (Rounded(ms) <= 10 => ms < 15)
BY DEF Rounded

\* Whatever was edited, cancelled, half applied or half saved, the next launch
\* puts the settings last saved in use.
THEOREM LaunchRestores == Spec => Restored
<1> DEFINE A == Launching =>
                  /\ \/ use'.interval - saved.interval \in -5..5
                     \/ saved.interval < 15 /\ use'.interval = DefaultInterval
                  /\ use'.interval > 10
                  /\ use'.size = IF saved.size < 1 THEN DefaultSize ELSE saved.size
                  /\ \A s \in {"image", "bigger", "useAB", "source"} : use'[s] = saved[s]
                  /\ active' = saved.source
<1>1. IInv /\ [Next]_vars => A
  <2> SUFFICES ASSUME IInv, [Next]_vars, Launching PROVE A
    OBVIOUS
  <2>1. /\ use' = Load(file) /\ active' = file.source
        /\ file \in InUse /\ saved \in InUse /\ Written /\ book \subseteq People \cup Groups
    BY LaunchLoads
  <2>2. /\ use'.interval = IF file.interval <= 10 THEN DefaultInterval ELSE file.interval
        /\ use'.size = IF file.size < 1 THEN DefaultSize ELSE file.size
        /\ \A s \in {"image", "bigger", "source", "useAB"} : use'[s] = file[s]
    BY <2>1, LoadShows
  <2>3. /\ file.interval = Rounded(saved.interval) /\ file.size = saved.size
        /\ \A s \in {"image", "bigger", "source", "useAB"} : file[s] = saved[s]
    BY <2>1 DEF Written
  <2>4. saved.interval \in Nat
    BY <2>1 DEF InUse, Setting
  <2>5. /\ \/ use'.interval - saved.interval \in -5..5
           \/ saved.interval < 15 /\ use'.interval = DefaultInterval
        /\ use'.interval > 10
    BY <2>2, <2>3, <2>4, Rounding DEF DefaultInterval
  <2> QED
    BY <2>1, <2>2, <2>3, <2>5
<1> QED
  BY <1>1, SettingsInvariance, PTL DEF Spec, Restored

\* No person or group still in the address book is lost by a restart, and none
\* that has left it comes back.
THEOREM LaunchRestoresRecords == Spec => RecordsRestored
<1> DEFINE A == Launching => /\ Held(use'.users) = Held(saved.users) \cap book
                             /\ Held(use'.groups) = Held(saved.groups) \cap book
<1>1. IInv /\ [Next]_vars => A
  <2> SUFFICES ASSUME IInv, [Next]_vars, Launching PROVE A
    OBVIOUS
  <2>1. /\ use' = Load(file)
        /\ file \in InUse /\ saved \in InUse /\ Written /\ book \subseteq People \cup Groups
    BY LaunchLoads
  <2>2. /\ use'.users = Exists(saved.users) /\ use'.groups = Exists(saved.groups)
        /\ saved.users \in (SUBSET People) \cup {Null}
        /\ saved.groups \in (SUBSET Groups) \cup {Null}
    BY <2>1, LoadShows DEF Written, InUse, Setting
  <2> QED
    BY <2>2, Constants DEF Exists, Held
<1> QED
  BY <1>1, SettingsInvariance, PTL DEF Spec, RecordsRestored
===============================================================================
