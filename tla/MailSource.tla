------------------------------ MODULE MailSource ------------------------------
(***************************************************************************)
(* MailSource.m: scores personae by the e-mails they sent, which it reads  *)
(* from the database of another program, and keeps which mailboxes count,  *)
(* what an e-mail counts and since when.  That database may be missing,    *)
(* empty or busy at any time, and mailboxes come and go.                   *)
(*                                                                         *)
(* What Preferences makes of the handlers (OK, Cancel, a launch) is one    *)
(* step each: nothing comes between them on the main thread.               *)
(***************************************************************************)
EXTENDS Integers, FiniteSets

CONSTANTS
  Mailbox, Users,
  Weights,        \* theScore as the slider may set it, in parts of One
  One,            \* parts of the score 1.0
  DefaultWeight,  \* 0.2
  Fortnight,      \* default age of theEarliestDate, in days
  LastDay,        \* bound: the last day, also of the date picker and of e-mails
  MaxEdits        \* bound: edits in the pane, and changes of the database

ASSUME MailAssumption ==
  /\ IsFiniteSet(Mailbox) /\ IsFiniteSet(Users)
  /\ One \in Nat \ {0} /\ Weights \subseteq 0..One /\ DefaultWeight \in Weights
  /\ Fortnight \in Nat /\ LastDay \in Nat /\ Fortnight <= LastDay /\ MaxEdits \in Nat

Day == 0..LastDay

VARIABLES
  there,     \* the mailboxes in the database
  mails,     \* who sent an e-mail to which mailbox, and when; the date may be wrong
  now,
  mailboxes, \* the table: whether each mailbox is selected
  selected,  \* theSelectedMailboxes
  use,       \* theScore and theEarliestDate
  shown,     \* the slider and the date picker
  file,      \* the preferences on the disk, or NoFile
  score,     \* of each persona, a fraction
  touched,   \* history: mailboxes edited since the table was read or saved
  chosen,    \* history: the choice for each mailbox when OK last found it in the table
  written,   \* history: the same, of the last OK whose settings reached the disk
  edits      \* how many edits and changes there have been

history == <<touched, chosen, written>>

vars == <<there, mails, now, mailboxes, selected, use, shown, file, score, history, edits>>

world == <<there, mails, now>>
memory == <<mailboxes, selected, use, shown>>

NoFile == [none |-> TRUE]
Nothing == <<>>      \* no mailbox, no entry

Zero == [n |-> 0, d |-> 1]
Full == [n |-> 1, d |-> 1]
NaN == [n |-> 0, d |-> 0]

-------------------------------------------------------------------------------
(* reloadTheMailboxes: rows are what the query finds, none if it fails.       *)

Listed(rows, known) == [m \in rows |-> IF m \in DOMAIN known THEN known[m] ELSE TRUE]

\* The rows the query may find.
Rows == {there, {}}

Default == [weight |-> DefaultWeight, earliest |-> now - Fortnight]

\* What a call may leave of the table: where no database opens, it stays as it is.
ReloadTheMailboxes(table, known) == {table} \union {Listed(rows, known) : rows \in Rows}

Kept == IF file = NoFile THEN [selected |-> Nothing, use |-> Default] ELSE file

\* Mutant of Launch: init does not forget the table of the first of its reloads.
LaunchKeepsFirst ==
  /\ selected' = Kept.selected
  /\ \E early \in ReloadTheMailboxes(Nothing, Nothing) :
       \E loaded \in ReloadTheMailboxes(early, Kept.selected) :
         mailboxes' \in ReloadTheMailboxes(loaded, Kept.selected)
  /\ use' = Kept.use /\ shown' = Kept.use

\* A launch reloads the table three times, and the database may open each time or
\* not.  The first time, from awakeFromNib, nothing is known of the choices: what it
\* lists is forgotten when the nib is loaded (mailboxes = nil, in init).  The others
\* are loadPreferences and, when Preferences shows the pane, initPreferencePane.
Launch ==
  /\ selected' = Kept.selected
  /\ \E loaded \in ReloadTheMailboxes(Nothing, Kept.selected) :
       mailboxes' \in ReloadTheMailboxes(loaded, Kept.selected)
  /\ use' = Kept.use /\ shown' = Kept.use

Init ==
  /\ there \in SUBSET Mailbox /\ mails = {} /\ now = Fortnight
  /\ file = NoFile
  /\ selected = Nothing
  /\ mailboxes \in ReloadTheMailboxes(Nothing, Nothing)
  /\ use = Default /\ shown = use
  /\ score = [u \in Users |-> Zero]
  /\ touched = {} /\ chosen = [m \in Mailbox |-> TRUE] /\ written = chosen
  /\ edits = 0

\* The program is started again, or the source selected again.
Relaunch ==
  /\ Launch
  /\ touched' = {} /\ chosen' = written /\ written' = written
  /\ UNCHANGED <<world, file, score, edits>>

-------------------------------------------------------------------------------
(* The pane.                                                                  *)

Editing == edits < MaxEdits /\ edits' = edits + 1

SelectRow(m) ==
  /\ Editing
  /\ m \in DOMAIN mailboxes
  /\ mailboxes' = [mailboxes EXCEPT ![m] = ~@]
  /\ touched' = touched \union {m}
  /\ UNCHANGED <<world, selected, use, shown, file, score, chosen, written>>

\* selectAll: and deselectAll:
SelectEvery(value) ==
  /\ Editing
  /\ mailboxes' = [m \in DOMAIN mailboxes |-> value]
  /\ touched' = touched \union DOMAIN mailboxes
  /\ UNCHANGED <<world, selected, use, shown, file, score, chosen, written>>

Edit ==
  /\ Editing
  /\ \/ \E w \in Weights : shown' = [shown EXCEPT !.weight = w]
     \/ \E day \in Day : shown' = [shown EXCEPT !.earliest = day]
  /\ UNCHANGED <<world, mailboxes, selected, use, file, score, history>>

\* initPreferencePane: where no database opens the edits of the table stay, too.
Cancel ==
  /\ \/ \E rows \in Rows : mailboxes' = Listed(rows, selected) /\ touched' = {}
     \/ UNCHANGED <<mailboxes, touched>>
  /\ shown' = use
  /\ UNCHANGED <<world, selected, use, file, score, chosen, written, edits>>

-------------------------------------------------------------------------------
(* scoreUsersInArray:inform:bySending:                                        *)

\* Mutant of Counts: e-mails older than the earliest date count, too.
CountsAny(mail, u, table, since) ==
  /\ mail[1] = u
  /\ mail[2] \in DOMAIN table /\ table[mail[2]]

Counts(mail, u, table, since) ==
  /\ mail[1] = u
  /\ mail[2] \in DOMAIN table /\ table[mail[2]]
  /\ mail[3] > since

Counted(u, table, since) == {mail \in mails : Counts(mail, u, table, since)}

\* The sum of the days from the earliest date to each e-mail.
Age(counted, since) ==
  LET upTo[k \in 0..LastDay] ==
        (IF k = 0 THEN 0 ELSE upTo[k - 1]) + Cardinality({mail \in counted : mail[3] = k}) * (k - since)
  IN  upTo[LastDay]

\* weight * age / (now - earliest), at most 1; 0 times something over 0 is no number.
ScoreOf(u, table, with) ==
  LET counted == Counted(u, table, with.earliest)
      n == with.weight * Age(counted, with.earliest)
      d == One * (now - with.earliest)
  IN  IF counted = {} THEN Zero
      ELSE CASE d > 0 /\ n > d  -> Full
             [] d > 0 /\ n <= d -> [n |-> n, d |-> d]
             [] d < 0           -> [n |-> -n, d |-> -d]
             [] OTHER           -> IF n > 0 THEN Full ELSE NaN

\* A persona whose query fails is skipped; if the database does not open, all are.
Scored(skipped, table, with) ==
  [u \in Users |-> IF u \in skipped THEN score[u] ELSE ScoreOf(u, table, with)]

ScoreUsers ==
  /\ \E skipped \in SUBSET Users : score' = Scored(skipped, mailboxes, use)
  /\ UNCHANGED <<world, memory, file, history, edits>>

-------------------------------------------------------------------------------
(* OK: applyPreferencePaneSettings, the refresh, savePreferences, and the     *)
(* window closes.                                                             *)

\* The new choices, and the old ones where there is none.
Over(new, old) ==
  [m \in DOMAIN new \union DOMAIN old |-> IF m \in DOMAIN new THEN new[m] ELSE old[m]]

\* Mutant of NewSelected: only the mailboxes of the table are saved.
NewSelectedOnly(table, old) == table

\* The choices for mailboxes that are not in the table now are kept.
NewSelected(table, old) == Over(table, old)

Ok ==
  /\ use' = shown /\ shown' = shown
  /\ \E skipped \in SUBSET Users : score' = Scored(skipped, mailboxes, shown)
  /\ selected' = NewSelected(mailboxes, selected)
  /\ chosen' = Over(mailboxes, chosen)
  /\ \/ file' = [selected |-> selected', use |-> shown] /\ written' = chosen'
     \/ UNCHANGED <<file, written>>    \* the write fails
  /\ mailboxes' \in ReloadTheMailboxes(mailboxes, selected')
  /\ touched' = {}
  /\ UNCHANGED <<world, edits>>

-------------------------------------------------------------------------------
(* The mail program and time.                                                 *)

MailArrives ==
  /\ Editing
  /\ \E u \in Users, m \in there, day \in Day : mails' = mails \union {<<u, m, day>>}
  /\ UNCHANGED <<there, now, memory, file, score, history>>

MailboxesChange ==
  /\ Editing
  /\ there' \in SUBSET Mailbox
  /\ UNCHANGED <<mails, now, memory, file, score, history>>

Tick ==
  /\ now < LastDay
  /\ now' = now + 1
  /\ UNCHANGED <<there, mails, memory, file, score, history, edits>>

Next ==
  \/ Relaunch \/ Cancel \/ Ok \/ ScoreUsers
  \/ \E m \in Mailbox : SelectRow(m)
  \/ \E value \in BOOLEAN : SelectEvery(value)
  \/ Edit \/ MailArrives \/ MailboxesChange \/ Tick

Spec == Init /\ [][Next]_vars

-------------------------------------------------------------------------------
\* Whatever became of the database, of mailboxes that left it and came back, of edits
\* that were cancelled and of the program: the table shows of each mailbox that was
\* not edited since what OK last found there, or that it is selected.
ChoicesSurvive ==
  \A m \in DOMAIN mailboxes \ touched : mailboxes[m] = chosen[m]

AtMost(s, t) == s.n * t.d <= t.n * s.d

\* v got as many e-mails as u from any day on.
Outdoes(u, v) ==
  \A k \in Day :
    LET since(w) == {mail \in mails : mail[1] = w /\ mail[3] >= k /\ mail[2] \in DOMAIN mailboxes
                                      /\ mailboxes[mail[2]]}
    IN  Cardinality(since(u)) <= Cardinality(since(v))

\* A round ranks nobody below a persona with fewer or older e-mails in the selected
\* mailboxes, and gives scores between 0 and 1, for any dates of e-mails; unless the
\* earliest date is today or later.
MoreMailRanksHigher ==
  [][LET scored == {u \in Users : score'[u] # score[u]}
     IN  now > use'.earliest =>
           /\ \A u \in scored : score'[u].d > 0 /\ AtMost(Zero, score'[u]) /\ AtMost(score'[u], Full)
           /\ \A u, v \in scored : Outdoes(u, v) => AtMost(score'[u], score'[v])]_vars
===============================================================================
