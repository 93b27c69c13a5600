---------------------------- MODULE UserFactory ----------------------------
(***************************************************************************)
(* Controller/UserFactory.m: the list of personae, the two tables that     *)
(* show it, the panel that adds and edits personae, the import from the    *)
(* address book and the ordering by score.                                 *)
(*                                                                         *)
(* Every method runs on the main thread from the run loop and is one       *)
(* action.  What interleaves with the user's actions is the scoring: the   *)
(* Mail Source calls reorderUsers before scoreUsersInArray: returns, the   *)
(* External Source sets one score at a time later and calls reorderUsers   *)
(* with the last one, or ends the handler by an exception.                 *)
(***************************************************************************)
EXTENDS Integers, Sequences, FiniteSets, SequencesExt

CONSTANTS
  Ids,         \* identities of the persona objects the user creates or loads
  People,      \* the persons in the address book
  Nameless,    \* those of them that have neither a first nor a last name
  Selections,  \* what Preferences usersFromAB may return, as sequences of
               \* persons: a group stands for its members
  Levels,      \* the scores a source may give
  Asyncs,      \* whether the active source is the External Source: one of these
  MaxUsers,    \* bound: personae are created while there are fewer than this
               \* (Selections and MaxUsers: a value for each of Asyncs)
  MaxCopies,   \* as many persons as a selection may have
  Nobody       \* no persona

ASSUME UserFactoryAssumption ==
  /\ Nameless \subseteq People /\ IsFiniteSet(People)
  /\ Levels \subseteq Int /\ 0 \in Levels
  /\ Asyncs \subseteq BOOLEAN
  /\ MaxCopies \in Nat
  /\ \A a \in Asyncs :
       /\ MaxUsers[a] \in Nat
       /\ Selections[a] \subseteq Seq(People)
       /\ \A s \in Selections[a] : Len(s) <= MaxCopies

\* theSource tells personae apart: an NSString for a permanent one, an ABPerson
\* for one imported from the address book (copy counts the objects made for one
\* person), nil for one loaded from a record that has no source.
Permanent(p) == [source |-> "NSString", of |-> p, copy |-> 1]
Sourceless(p) == [source |-> "nil", of |-> p, copy |-> 1]
Imported(a, n) == [source |-> "ABPerson", of |-> a, copy |-> n]

Personae == {Permanent(p) : p \in Ids} \cup {Sourceless(p) : p \in Ids}
            \cup {Imported(a, n) : a \in People, n \in 1..MaxCopies}

VARIABLES
  async,        \* the active source is the External Source
  awake,        \* awakeFromNib was run
  theUsers,     \* the personae, in the order they are drawn and listed
  score,        \* theScore of each persona in theUsers, 0 for any other
  theTasks,     \* External Source: what became of each process it lists, <<>>
                \* for nil: "runs", "ended", or "lost" when its end raised
  theUsersRetained, \* the personae at the same places, <<>> for nil
  owed,         \* theTasks is not nil: reorderUsers is still to be called
  asked,        \* objectToInform is not nil
  stray,        \* processes run that theTasks does not list
  timer,        \* theCalculateUserTimer was started
  raised,       \* history: the latest call of the source ended by an exception
  userRows,     \* the number of rows theUserTable (permanent personae) has read
  displayRows,  \* the number of rows theDisplayTable (all personae) has read
  selectedRow,  \* the row selected in theUserTable, 0 if none
  panel,        \* theAddUserPanel: "closed", or visible and titled "add" or "edit"
  theUserToEdit,
  imported,     \* history: the selection that was imported last
  picked,       \* history: the persona shown in the selected row when the user
                \* selected it, or when the row was left selected by a removal
  shown,        \* history: the persona whose values fill the panel
  effect        \* history: what the latest handler removed or wrote to, and whom

vars == <<async, awake, theUsers, score, theTasks, theUsersRetained, owed, asked, stray,
          timer, raised, userRows, displayRows, selectedRow, panel, theUserToEdit,
          imported, picked, shown, effect>>

source == <<theTasks, theUsersRetained, owed, asked, stray, timer, raised>>
scoring == <<score, source>>
tables == <<userRows, displayRows, selectedRow, picked>>
dialog == <<panel, theUserToEdit, shown>>

NoEffect == [kind |-> "none", on |-> Nobody]

TypeOK ==
  /\ async \in Asyncs
  /\ awake \in BOOLEAN
  /\ theUsers \in Seq(Personae) /\ IsInjective(theUsers)
  /\ score \in [Personae -> Levels]
  /\ theTasks \in Seq({"runs", "ended", "lost"}) /\ theUsersRetained \in Seq(Personae)
  /\ {owed, asked, stray, timer, raised} \subseteq BOOLEAN
  /\ userRows \in Nat /\ displayRows \in Nat /\ selectedRow \in 0..userRows
  /\ panel \in {"closed", "add", "edit"}
  /\ {theUserToEdit, picked, shown, effect.on} \subseteq Personae \cup {Nobody}
  /\ imported \in Selections[async] \cup {<<>>}

Init ==
  /\ async \in Asyncs
  /\ awake = FALSE
  /\ theUsers = <<>>
  /\ score = [x \in Personae |-> 0]
  /\ theTasks = <<>> /\ theUsersRetained = <<>> /\ owed = FALSE /\ asked = FALSE
  /\ stray = FALSE /\ timer = FALSE /\ raised = FALSE
  /\ userRows = 0 /\ displayRows = 0 /\ selectedRow = 0
  /\ panel = "closed" /\ theUserToEdit = Nobody
  /\ imported = <<>> /\ picked = Nobody /\ shown = Nobody
  /\ effect = NoEffect

-----------------------------------------------------------------------------
\* The numbers of a finite set in ascending order.
Ascending(I) ==
  [k \in 1..Cardinality(I) |-> CHOOSE i \in I : Cardinality({j \in I : j <= i}) = k]

\* The elements of an array that are in K, in their order.
Those(array, K) ==
  LET places == Ascending({i \in DOMAIN array : array[i] \in K})
  IN  [k \in DOMAIN places |-> array[places[k]]]

\* permanentUsers and usersFromAddressBook: the personae of one kind.
IsPermanent(x) == x.source = "NSString"
IsFromAddressBook(x) == x.source = "ABPerson"

PermanentUsers(users) == Those(users, {x \in Personae : IsPermanent(x)})

UsersFromAddressBook(users) == {x \in ToSet(users) : IsFromAddressBook(x)}

\* [theUsers removeObjectsInArray: ...]
Without(users, gone) == Those(users, Personae \ gone)

\* hasChanged: both tables read their number of rows again; a selection beyond
\* the last row is dropped by the table.
HasChanged(users) ==
  /\ userRows' = Len(PermanentUsers(users))
  /\ displayRows' = Len(users)
  /\ selectedRow' = IF selectedRow <= Len(PermanentUsers(users)) THEN selectedRow ELSE 0
  /\ picked' = IF selectedRow' = 0 THEN Nobody ELSE picked

\* Mutant: compareWith: the other way round.
SortedAscending(users, scores) ==
  {s \in SetToSeqs(ToSet(users)) :
     \A i, j \in DOMAIN s : i < j => scores[s[i]] <= scores[s[j]]}

\* The orders reorderUsers may leave: by descending score (compareWith:), and
\* personae of one score in any order, the sort not being a stable one.
Sorted(users, scores) ==
  {s \in SetToSeqs(ToSet(users)) :
     \A i, j \in DOMAIN s : i < j => scores[s[i]] >= scores[s[j]]}

\* Mutant: the personae are sorted without hasChanged.
ReorderQuietly(users, scores) ==
  /\ theUsers' \in Sorted(users, scores)
  /\ UNCHANGED tables

\* reorderUsers
ReorderUsers(users, scores) ==
  /\ theUsers' \in Sorted(users, scores)
  /\ HasChanged(theUsers')

(***************************************************************************)
(* calculateUserScores, for the personae and scores the handler has so     *)
(* far; changed says whether hasChanged was called on the way.  The Mail   *)
(* Source scores (or skips) every persona and informs before it returns.   *)
(***************************************************************************)
MailSourceScores(users) ==
  /\ \E new \in [ToSet(users) -> Levels] :
       score' = [x \in Personae |-> IF x \in ToSet(users) THEN new[x] ELSE 0]
  /\ ReorderUsers(users, score')
  /\ UNCHANGED <<theTasks, theUsersRetained, owed, asked, stray>>
  /\ raised' = FALSE

\* The External Source only starts to.  Processes of an earlier round run on.
ExternalSourceStarts(users) ==
  /\ theTasks' = [i \in DOMAIN users |-> "runs"]
  /\ theUsersRetained' = users
  /\ owed' = TRUE /\ asked' = TRUE
  /\ stray' = (stray \/ \E i \in DOMAIN theTasks : theTasks[i] = "runs")
  /\ raised' = FALSE

\* The launch of process k + 1 raises (so it does for every program that cannot be
\* run): the personae are retained, the list of processes is the old one.
ExternalSourceRaises(users) ==
  /\ \E k \in 0..(Len(users) - 1) : stray' = (stray \/ k > 0)
  /\ theUsersRetained' = users
  /\ UNCHANGED <<theTasks, owed, asked>>
  /\ raised' = TRUE

CalculateUserScores(users, scores, changed) ==
  IF async
  THEN /\ theUsers' = users /\ score' = scores
       /\ ExternalSourceStarts(users) \/ ExternalSourceRaises(users)
       /\ IF changed THEN HasChanged(users) ELSE UNCHANGED tables
  ELSE MailSourceScores(users)

\* importABUsersFromArray:permanently: NO, the persons taken in order and the
\* nameless ones left out (addNewUserFromABPerson:permanently:).
Named(persons) == Those(persons, People \ Nameless)

ImportABUsers(persons) ==
  [i \in DOMAIN Named(persons) |->
     Imported(Named(persons)[i],
              Cardinality({j \in 1..i : Named(persons)[j] = Named(persons)[i]}))]

\* Mutant: nothing is re-read when nothing is selected.
RefreshIfSelected(users, persons, changed) ==
  LET kept == IF persons = <<>> THEN users ELSE Without(users, UsersFromAddressBook(users))
      new  == ImportABUsers(persons)
  IN  /\ CalculateUserScores(
           kept \o new,
           [x \in Personae |-> IF IsFromAddressBook(x) THEN 0 ELSE score[x]],
           changed \/ new # <<>>)
      /\ imported' = persons
      /\ timer' = (timer \/ ~raised')

\* Mutant: the whole list is read again, not only the imported personae.
RefreshAll(users, persons, changed) ==
  LET new == ImportABUsers(persons)
  IN  /\ CalculateUserScores(
           new,
           [x \in Personae |-> IF IsFromAddressBook(x) THEN 0 ELSE score[x]],
           changed \/ new # <<>>)
      /\ imported' = persons
      /\ timer' = (timer \/ ~raised')

\* refreshUsers: the personae of the address book are removed without hasChanged, new
\* objects with score 0 are appended (addUser: calls hasChanged for each), all are
\* scored, and unless that raised the timer is started.
Refresh(users, persons, changed) ==
  LET kept == Without(users, UsersFromAddressBook(users))
      new  == ImportABUsers(persons)
  IN  /\ CalculateUserScores(
           kept \o new,
           [x \in Personae |-> IF IsFromAddressBook(x) THEN 0 ELSE score[x]],
           changed \/ new # <<>>)
      /\ imported' = persons
      /\ timer' = (timer \/ ~raised')

-----------------------------------------------------------------------------
\* awakeFromNib: loadUsers: and refreshUsers: in one go.  A record without a
\* source gives a persona without one.
AwakeFromNib(loaded, persons) ==
  /\ ~awake /\ awake' = TRUE
  /\ Refresh(loaded, persons, loaded # <<>>)
  /\ effect' = NoEffect
  /\ UNCHANGED dialog

RefreshUsers(persons) ==
  /\ awake
  /\ Refresh(theUsers, persons, FALSE)
  /\ effect' = NoEffect
  /\ UNCHANGED <<awake, dialog>>

\* calculateUserScoresTimer:, if it raises the timer may be gone with it.
CalculateUserScoresTimer ==
  /\ timer
  /\ CalculateUserScores(theUsers, score, FALSE)
  /\ timer' \in {TRUE, ~raised'}
  /\ effect' = NoEffect
  /\ UNCHANGED <<awake, dialog, imported>>

\* setScore: to a persona that may have left theUsers since it was asked for.
SetScore(x, level) ==
  score' = [score EXCEPT ![x] = IF x \in ToSet(theUsers) THEN level ELSE 0]

\* informIfAllTasksEnded: there is nothing left to wait for.
InformCaller ==
  /\ theTasks' = <<>> /\ theUsersRetained' = <<>> /\ owed' = FALSE
  /\ IF asked THEN ReorderUsers(theUsers, score') ELSE UNCHANGED <<theUsers, tables>>

\* taskEnded: for a listed process: it scores the persona at its place, which after an
\* exception is another one, and the last one informs.
ScoreArrives(i, level) ==
  /\ i \in DOMAIN theTasks /\ theTasks[i] = "runs"
  /\ i \in DOMAIN theUsersRetained
  /\ SetScore(theUsersRetained[i], level)
  /\ IF \A k \in DOMAIN theTasks : k = i \/ theTasks[k] = "ended"
     THEN InformCaller
     ELSE /\ theTasks' = [theTasks EXCEPT ![i] = "ended"]
          /\ UNCHANGED <<theUsersRetained, owed, theUsers, tables>>
  /\ effect' = NoEffect
  /\ UNCHANGED <<awake, asked, stray, timer, raised, dialog, imported>>

\* There is no such place: taskEnded: raises, and the round is never complete.
ScoreLost(i) ==
  /\ i \in DOMAIN theTasks /\ theTasks[i] = "runs"
  /\ i \notin DOMAIN theUsersRetained
  /\ theTasks' = [theTasks EXCEPT ![i] = "lost"]
  /\ effect' = NoEffect
  /\ UNCHANGED <<awake, theUsers, score, theUsersRetained, owed, asked, stray, timer, raised,
                 tables, dialog, imported>>

\* While theTasks is nil, a process of an overtaken call takes the first place, and
\* informs.  (While it is not, such a process is not found.)
StrayEnds(level) ==
  /\ stray /\ ~owed
  /\ IF theUsersRetained = <<>> THEN UNCHANGED score ELSE SetScore(theUsersRetained[1], level)
  /\ InformCaller
  /\ effect' = NoEffect
  /\ UNCHANGED <<awake, asked, stray, timer, raised, dialog, imported>>

\* A new object: not one that is listed or still referred to.
IsNew(x) ==
  x \notin ToSet(theUsers) \cup ToSet(theUsersRetained) \cup {theUserToEdit, picked, shown}

\* Mutant: the persona is added twice.
AddUserTwice(x) ==
  /\ theUsers' = theUsers \o <<x, x>>
  /\ score' = [score EXCEPT ![x] = 0]
  /\ HasChanged(theUsers')
  /\ UNCHANGED source

\* addUser: appends it; a new User has the score 0.
AddUser(x) ==
  /\ theUsers' = Append(theUsers, x)
  /\ score' = [score EXCEPT ![x] = 0]
  /\ HasChanged(theUsers')
  /\ UNCHANGED source

\* importAllUsersFromAddressBook: a permanent persona for every named person of
\* the address book, whether or not there is one already.
ImportAllUsersFromAddressBook(ids) ==
  LET new == [i \in DOMAIN ids |-> Permanent(ids[i])]
  IN  /\ awake
      /\ Len(theUsers) + Len(ids) <= MaxUsers[async]
      /\ \A i \in DOMAIN new : IsNew(new[i])
      /\ theUsers' = theUsers \o new
      /\ score' = [x \in Personae |-> IF x \in ToSet(new) THEN 0 ELSE score[x]]
      /\ IF new = <<>> THEN UNCHANGED tables ELSE HasChanged(theUsers')
      /\ effect' = NoEffect
      /\ UNCHANGED <<awake, source, dialog, imported>>

-----------------------------------------------------------------------------
\* The user selects a row of theUserTable, or none.
SelectRow(r) ==
  /\ awake
  /\ selectedRow' = r
  /\ picked' = IF r \in DOMAIN PermanentUsers(theUsers)
               THEN PermanentUsers(theUsers)[r] ELSE Nobody
  /\ effect' = NoEffect
  /\ UNCHANGED <<awake, theUsers, scoring, userRows, displayRows, dialog, imported>>

\* addUserByInterface: a panel that is visible already is only brought to front.
AddUserByInterface ==
  /\ awake /\ panel = "closed"
  /\ panel' = "add"
  /\ shown' = Nobody
  /\ effect' = NoEffect
  /\ UNCHANGED <<awake, theUsers, scoring, tables, theUserToEdit, imported>>

\* Mutant: theUserToEdit is set even if the panel is visible already.
EditUserAlways ==
  /\ awake
  /\ selectedRow \in DOMAIN PermanentUsers(theUsers)
  /\ theUserToEdit' = PermanentUsers(theUsers)[selectedRow]
  /\ panel' = IF panel = "closed" THEN "edit" ELSE panel
  /\ shown' = IF panel = "closed" THEN theUserToEdit' ELSE shown
  /\ effect' = NoEffect
  /\ UNCHANGED <<awake, theUsers, scoring, tables, imported>>

\* editUserByInterface: the segment is enabled while a row is selected.
EditUserByInterface ==
  /\ awake /\ panel = "closed"
  /\ selectedRow \in DOMAIN PermanentUsers(theUsers)
  /\ theUserToEdit' = PermanentUsers(theUsers)[selectedRow]
  /\ panel' = "edit"
  /\ shown' = theUserToEdit'
  /\ effect' = NoEffect
  /\ UNCHANGED <<awake, theUsers, scoring, tables, imported>>

\* The panel's Cancel button and its close box.
CancelPanel ==
  /\ panel # "closed"
  /\ panel' = "closed"
  /\ effect' = NoEffect
  /\ UNCHANGED <<awake, theUsers, scoring, tables, theUserToEdit, shown, imported>>

\* saveUserFromPanelInput: under the title "Edit Persona": writes to the persona
\* being edited.  Apply leaves the panel open.
SaveEdited(apply) ==
  /\ panel = "edit"
  /\ effect' = [kind |-> "wrote", on |-> theUserToEdit]
  /\ HasChanged(theUsers)
  /\ panel' = IF apply THEN "edit" ELSE "closed"
  /\ UNCHANGED <<awake, theUsers, scoring, theUserToEdit, shown, imported>>

\* saveUserFromPanelInput: under the title "Add Persona": adds a persona, and the
\* panel, if it stays open, now edits that one.
SaveAdded(p, apply) ==
  /\ panel = "add"
  /\ Len(theUsers) < MaxUsers[async]
  /\ IsNew(Permanent(p))
  /\ AddUser(Permanent(p))
  /\ theUserToEdit' = Permanent(p)
  /\ shown' = Permanent(p)
  /\ panel' = IF apply THEN "edit" ELSE "closed"
  /\ effect' = [kind |-> "wrote", on |-> Permanent(p)]
  /\ UNCHANGED <<awake, imported>>

\* removeUserByInterface: removes the permanent persona that is at the selected
\* row now; the row stays selected if there is still one.
RemoveUserByInterface ==
  /\ awake
  /\ selectedRow \in DOMAIN PermanentUsers(theUsers)
  /\ LET gone == PermanentUsers(theUsers)[selectedRow]
         left == Without(theUsers, {gone})
     IN  /\ theUsers' = left
         /\ userRows' = Len(PermanentUsers(left))
         /\ displayRows' = Len(left)
         /\ selectedRow' = IF selectedRow <= userRows' THEN selectedRow ELSE 0
         /\ picked' = IF selectedRow' = 0 THEN Nobody
                      ELSE PermanentUsers(left)[selectedRow']
         /\ effect' = [kind |-> "removed", on |-> gone]
         /\ score' = [score EXCEPT ![gone] = 0]
  /\ UNCHANGED <<awake, source, dialog, imported>>

-----------------------------------------------------------------------------
\* What may be loaded: permanent personae and ones that have lost their source.
Loadable ==
  [a \in Asyncs |->
     {s \in UNION {[1..n -> {x \in Personae : ~IsFromAddressBook(x)}] : n \in 0..MaxUsers[a]} :
        \A i, j \in DOMAIN s : s[i].of = s[j].of => i = j}]

\* Identities for new personae, one for each named person of the address book.
IdArrays == {ids \in [1..Cardinality(People \ Nameless) -> Ids] : IsInjective(ids)}

Step ==
  \/ \E loaded \in Loadable[async], persons \in Selections[async] : AwakeFromNib(loaded, persons)
  \/ \E persons \in Selections[async] : RefreshUsers(persons)
  \/ CalculateUserScoresTimer
  \/ \E i \in DOMAIN theTasks, level \in Levels : ScoreArrives(i, level)
  \/ \E i \in DOMAIN theTasks : ScoreLost(i)
  \/ \E level \in Levels : StrayEnds(level)
  \/ \E ids \in IdArrays : ImportAllUsersFromAddressBook(ids)
  \/ \E r \in 0..userRows : SelectRow(r)
  \/ AddUserByInterface
  \/ EditUserByInterface
  \/ CancelPanel
  \/ \E apply \in BOOLEAN : SaveEdited(apply)
  \/ \E p \in Ids, apply \in BOOLEAN : SaveAdded(p, apply)
  \/ RemoveUserByInterface

\* The source stays the same.
Next == Step /\ UNCHANGED async

Spec == Init /\ [][Next]_vars

-----------------------------------------------------------------------------
\* theUserTable always has as many rows as there are permanent personae, and
\* theDisplayTable as there are personae, unless a round is still being scored or the
\* latest one was cut short by an exception: a row past the end makes the drawing raise.
TablesSettled ==
  /\ userRows = Len(PermanentUsers(theUsers))
  /\ ~owed /\ ~raised => displayRows = Len(theUsers)

\* "This method re-reads all non-permanent users ... and scores every user. Afterwards
\* the users are redrawn" (UserFactory.h:54): when nothing is left to come, the tables
\* show the personae there are.  It does not hold when a launch raises.
Redrawn == ~owed => displayRows = Len(theUsers)

\* As long as no score is negative (a new persona has the score 0 and goes to
\* the end), the personae are in the order of their scores whenever no round is
\* being scored, whatever was added, imported, refreshed or removed since.
Ranked ==
  ~owed => \A i, j \in DOMAIN theUsers : i < j => score[theUsers[i]] >= score[theUsers[j]]

\* A persona that did not come from the address book leaves the list only when
\* the user removes it: no refresh, import or sort drops or replaces one.
PermanentsKept ==
  [][\A x \in ToSet(theUsers) :
       ~IsFromAddressBook(x) => x \in ToSet(theUsers') \/ effect' = [kind |-> "removed", on |-> x]]_vars

\* The address-book personae in the list are exactly the named persons of the
\* latest selection, each as often as it was selected: refreshes neither leave
\* old objects behind nor pile up new ones.
ImportedOnce ==
  \A a \in People :
    Cardinality({i \in DOMAIN theUsers : theUsers[i].source = "ABPerson" /\ theUsers[i].of = a})
      = Cardinality({i \in DOMAIN Named(imported) : Named(imported)[i] = a})

\* What the panel shows is written to the persona it was filled from (or has just
\* made), always one of the permanent ones, whatever was selected, sorted,
\* refreshed or opened while the panel was up.
SaveGoesToShown ==
  effect.kind = "wrote" => effect.on = shown /\ IsPermanent(effect.on)

\* UserFactory.h:136: "This method removes the personae selected in the
\* theDisplayTable NSTableView": the persona removed is the one that was selected.
RemovesPicked ==
  [][effect'.kind = "removed" => effect'.on \in {picked, effect.on}]_vars
=============================================================================
