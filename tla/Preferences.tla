---------------------------- MODULE Preferences ----------------------------
(***************************************************************************)
(* Controller/Preferences.m: the settings of the program.  Each one exists *)
(* three times: shown in a control of the preferences window, in use (the  *)
(* instance variables), and on disk (the property list and default.png).   *)
(* Launching copies disk to use to control, OK copies control to use to    *)
(* disk, closing the window copies use to control; what each copy leaves   *)
(* out or converts is what this module is about.                           *)
(*                                                                         *)
(* size stands for the width, height and ratio settings, which are copied  *)
(* alike.  Times are in milliseconds.                                      *)
(***************************************************************************)
EXTENDS Integers

CONSTANTS
  Intervals,     \* refresh intervals the user may type; the field allows fractions
  Sizes,         \* image sizes the user may type
  Images,        \* default images the user may choose
  NoImage,       \* an emptied image well
  BundleImage,   \* Default.png of the program itself
  Sources,       \* the registered sources (Sources.m)
  MailSource,    \* the default one
  People, Groups,\* records of the address book
  Null,          \* NULL, for an array that is absent
  MaxEdits       \* bound: edits of controls in a behaviour

ASSUME PreferencesAssumption ==
  /\ Intervals \subseteq Nat /\ Sizes \subseteq Nat
  /\ NoImage \notin Images /\ BundleImage \notin Images \cup {NoImage}
  /\ MailSource \in Sources
  /\ \A ms \in Intervals : ms % 10 # 5  \* how "%.2f" rounds a tie is the float's affair
  /\ \A ids \in SUBSET (People \cup Groups) : ids # Null
  /\ MaxEdits \in Nat

VARIABLES
  running,    \* the program runs
  open,       \* thePreferencesWindow is visible
  field,      \* what the controls show; users and groups are the selection of
              \* theABPeoplePicker
  use,        \* theRefreshTime, maxImageSize, theDefaultImage, makeImagesBigger,
              \* selectedSource, useABDirectly, theABUsers, theABGroups
  active,     \* the class of theActiveSource
  file,       \* the saved settings
  book,       \* the records that are in the address book
  edits,      \* edits so far
  saved       \* history: the settings in use at the last save that succeeded

vars == <<running, open, field, use, active, file, book, edits, saved>>

\* A missing file is as good as one with these values: loadPreferences makes the
\* same settings of both.
NoFile == [interval |-> 0, size |-> 0, image |-> BundleImage, bigger |-> TRUE,
           source |-> MailSource, useAB |-> FALSE, users |-> Null, groups |-> Null]

DefaultInterval == 30000
DefaultSize == 100

TypeOK ==
  LET Interval == Nat  Image == Images \cup {BundleImage, NoImage}
      Setting(UserSet, GroupSet) ==
        [interval : Interval, size : Nat, image : Image, bigger : BOOLEAN,
         source : Sources, useAB : BOOLEAN, users : UserSet, groups : GroupSet]
      InUse == Setting((SUBSET People) \cup {Null}, (SUBSET Groups) \cup {Null})
  IN  /\ running \in BOOLEAN /\ open \in BOOLEAN
      /\ field \in Setting(SUBSET People, SUBSET Groups)
      /\ use \in InUse /\ file \in InUse /\ saved \in InUse
      /\ active \in Sources
      /\ book \subseteq People \cup Groups
      /\ edits \in 0..MaxEdits

-----------------------------------------------------------------------------
\* Mutant: the records are not looked up.
ExistsAll(ids) == ids

\* loadPreferences: an interval below 0.01 and a size below one pixel are
\* replaced, records that have left the address book are dropped.  The interval
\* is a float, and the float next to 0.01 is below the double 0.01.
Exists(ids) == IF ids = Null THEN Null ELSE ids \cap book

\* Mutant: loadPreferences accepts any interval.
LoadUnguarded(f) ==
  [f EXCEPT !.size = IF f.size < 1 THEN DefaultSize ELSE f.size,
            !.users = Exists(f.users),
            !.groups = Exists(f.groups)]

Load(f) ==
  [f EXCEPT !.interval = IF f.interval <= 10 THEN DefaultInterval ELSE f.interval,
            !.size = IF f.size < 1 THEN DefaultSize ELSE f.size,
            !.users = Exists(f.users),
            !.groups = Exists(f.groups)]

\* savePreferences: "%.2f" of the interval; an empty array of persons is left
\* out, and where there is no image default.png stays as it is.
Rounded(ms) == ((ms + 5) \div 10) * 10

Save(u) ==
  [u EXCEPT !.interval = Rounded(u.interval),
            !.image = IF u.image = NoImage THEN file.image ELSE u.image,
            !.users = IF u.users = {} THEN Null ELSE u.users]

\* What is on disk after it.  The image and the property list are two files, and
\* writing either may fail.
Kept(old, new, imageWritten, listWritten) ==
  LET list == IF listWritten THEN new ELSE old
  IN  [list EXCEPT !.image = IF imageWritten THEN new.image ELSE old.image]

\* selectABUsers: the picker selects what is in use; where nothing is, it keeps
\* its selection.
Select(f, u) ==
  [f EXCEPT !.users = IF u.users \in {Null, {}} THEN f.users ELSE u.users,
            !.groups = IF u.groups \in {Null, {}} THEN f.groups ELSE u.groups]

\* Mutant: the source in the combo box is the one that was applied last.
ResetToSelected(f, u, a) ==
  LET r == [f EXCEPT !.interval = (u.interval \div 1000) * 1000, !.size = u.size,
                     !.image = u.image, !.source = u.source, !.useAB = u.useAB]
  IN  {r, Select(r, u)}

\* Mutant: the image well is not reset.
ResetWithoutImage(f, u, a) ==
  LET r == [f EXCEPT !.interval = (u.interval \div 1000) * 1000, !.size = u.size,
                     !.source = a, !.useAB = u.useAB]
  IN  {r, Select(r, u)}

(***************************************************************************)
(* resetPreferencePane: the results it may have.  setIntValue: drops       *)
(* fractions of seconds; the button for makeImagesBigger is left alone;    *)
(* the picker selects what is in use only if selectFirstTabViewItem: makes *)
(* the tab view ask its delegate.                                          *)
(***************************************************************************)
Reset(f, u, a) ==
  LET r == [f EXCEPT !.interval = (u.interval \div 1000) * 1000, !.size = u.size,
                     !.image = u.image, !.source = a, !.useAB = u.useAB]
  IN  {r, Select(r, u)}

\* applyPreferences: up to refreshUsers:, with readABUsers.
Applied(f) ==
  [f EXCEPT !.users = IF f.users = {} THEN Null ELSE f.users,
            !.groups = IF f.groups = {} THEN Null ELSE f.groups]

\* The controls as the nib has them; the picker has nothing selected.
Nib == [NoFile EXCEPT !.users = {}, !.groups = {}]

Init ==
  /\ running = FALSE /\ open = FALSE
  /\ file = NoFile /\ saved = NoFile
  /\ use = NoFile /\ active = MailSource /\ field = Nib
  /\ book = People \cup Groups
  /\ edits = 0

-----------------------------------------------------------------------------
\* init and awakeFromNib.
Launch ==
  /\ ~running /\ running' = TRUE
  /\ use' = Load(file)
  /\ active' = file.source
  /\ field' \in Reset(Nib, use', active')
  /\ UNCHANGED <<open, file, book, edits, saved>>

\* Windows activateThePreferencesWindow:
Open ==
  /\ running /\ ~open /\ open' = TRUE
  /\ UNCHANGED <<running, field, use, active, file, book, edits, saved>>

\* The user may still edit a control.
Editing == open /\ edits < MaxEdits /\ edits' = edits + 1

\* A control that has no action of its own.
Edit(f) ==
  /\ Editing
  /\ field' = f
  /\ UNCHANGED <<running, open, use, active, file, book, saved>>

EditInterval(ms) == Edit([field EXCEPT !.interval = ms])
EditSize(n) == Edit([field EXCEPT !.size = n])
EditImage(i) == Edit([field EXCEPT !.image = i])
EditBigger == Edit([field EXCEPT !.bigger = ~field.bigger])

\* theABPeoplePicker, which is hidden unless useABDirectly.
Pick(users, groups) ==
  use.useAB /\ Edit([field EXCEPT !.users = users, !.groups = groups])

\* selectClassFrom: replaces the active source at once.
SelectSource(s) ==
  /\ Editing
  /\ field' = [field EXCEPT !.source = s]
  /\ active' = s
  /\ UNCHANGED <<running, open, use, file, book, saved>>

\* switchABUsage: takes effect at once.
SwitchABUsage ==
  /\ Editing
  /\ field' = [field EXCEPT !.useAB = ~field.useAB]
  /\ use' = [use EXCEPT !.useAB = field'.useAB]
  /\ UNCHANGED <<running, open, active, file, book, saved>>

\* tabView:willSelectTabViewItem:
SelectTab ==
  /\ open
  /\ field' = Select(field, use)
  /\ UNCHANGED <<running, open, use, active, file, book, edits, saved>>

\* applyPreferences: and the closing of the window.
ApplyPreferences(imageWritten, listWritten) ==
  /\ open /\ open' = FALSE
  /\ use' = Applied(field)
  /\ file' = Kept(file, Save(use'), imageWritten, listWritten)
  /\ saved' = Kept(saved, [use' EXCEPT !.image = Save(use').image],
                   imageWritten, listWritten)
  /\ field' \in Reset(field, use', active)
  /\ UNCHANGED <<running, active, book, edits>>

\* The same when refreshUsers: raises: nothing is saved, the window stays open.
ApplyRaises ==
  /\ open
  /\ use' = Applied(field)
  /\ UNCHANGED <<running, open, field, active, file, book, edits, saved>>

\* windowWillClose:, from Cancel or the close box.
Close ==
  /\ open /\ open' = FALSE
  /\ field' \in Reset(field, use, active)
  /\ UNCHANGED <<running, use, active, file, book, edits, saved>>

\* The end of the program, orderly or not: it does not save preferences.
Exit ==
  /\ running /\ running' = FALSE /\ open' = FALSE
  /\ UNCHANGED <<field, use, active, file, book, edits, saved>>

\* Somebody deletes a record of the address book.
Delete(r) ==
  /\ r \in book /\ book' = book \ {r}
  /\ UNCHANGED <<running, open, field, use, active, file, edits, saved>>

Next ==
  \/ Launch \/ Open
  \/ \E ms \in Intervals : EditInterval(ms)
  \/ \E n \in Sizes : EditSize(n)
  \/ \E i \in Images \cup {NoImage} : EditImage(i)
  \/ EditBigger
  \/ \E users \in SUBSET (People \cap book), groups \in SUBSET (Groups \cap book) :
       Pick(users, groups)
  \/ \E s \in Sources : SelectSource(s)
  \/ SwitchABUsage \/ SelectTab
  \/ \E imageWritten, listWritten \in BOOLEAN : ApplyPreferences(imageWritten, listWritten)
  \/ ApplyRaises \/ Close \/ Exit
  \/ \E r \in book : Delete(r)

Spec == Init /\ [][Next]_vars

-----------------------------------------------------------------------------
Launching == ~running /\ running'

\* An array that is absent is as good as an empty one.
Held(ids) == IF ids = Null THEN {} ELSE ids

\* A launch puts the settings of the last save that succeeded in use, whatever was
\* edited, switched at once, half applied or cancelled since: the interval to
\* within half a hundredth of a second unless it is about one or less.
Restored ==
  [][Launching =>
       /\ \/ use'.interval - saved.interval \in -5..5
          \/ saved.interval < 15 /\ use'.interval = DefaultInterval
       /\ use'.interval > 10
       /\ use'.size = IF saved.size < 1 THEN DefaultSize ELSE saved.size
       /\ \A s \in {"image", "bigger", "useAB", "source"} : use'[s] = saved[s]
       /\ active' = saved.source]_vars

\* No record outside the address book is in use after a launch, and none is lost
\* that is still there, whether the selection was empty, absent or partly deleted.
RecordsRestored ==
  [][Launching =>
       /\ Held(use'.users) = Held(saved.users) \cap book
       /\ Held(use'.groups) = Held(saved.groups) \cap book]_vars

\* Whenever the window is closed, the controls of four settings show what is in use
\* (an interval in whole seconds): the refresh interval, the image size with its
\* ratio, the default image and the use of the address book.  Of these the next OK
\* applies nothing that was cancelled or failed before.  It says nothing of the other
\* two, the button for makeImagesBigger and the picker: see PanelIsReset.
ClosedShowsUse ==
  running /\ ~open =>
    /\ field.interval = (use.interval \div 1000) * 1000
    /\ \A s \in {"size", "image", "useAB"} : field[s] = use[s]

\* "Set the preferences in thePreferencePane NSPanel to the current values"
\* (resetPreferencePane:, Preferences.h:103), all of them, when the window is closed.
\* It does not hold: the button and the picker keep what was cancelled.
PanelIsReset ==
  running /\ ~open =>
    /\ ClosedShowsUse
    /\ field.bigger = use.bigger
    /\ Held(field.users) = Held(use.users) /\ Held(field.groups) = Held(use.groups)

\* The combo box always names the source that is active, so that OK selects for
\* the next launch the source that runs now, however often sources were tried,
\* cancelled or applied with an exception.
SourceShown == running => field.source = active
=============================================================================
