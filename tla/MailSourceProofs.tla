--------------------------- MODULE MailSourceProofs ---------------------------
(***************************************************************************)
(* Theorems about MailSource for any mailboxes and personae and any number *)
(* of edits, OKs, cancels and restarts: the choice made for a mailbox is   *)
(* never lost, and a round of scores ranks personae by their e-mails.      *)
(*                                                                         *)
(* Age is a recursive definition.  What it comes to is proved here by      *)
(* looking at the least day for which a claim would fail.                  *)
(***************************************************************************)
EXTENDS MailSource, FiniteSetTheorems, WellFoundedInduction, TLAPS

\* A function of some mailboxes to whether they are selected.
Choices(f) == DOMAIN f \subseteq Mailbox /\ f \in [DOMAIN f -> BOOLEAN]

\* What is remembered of each mailbox is the last choice made for it, and selected
\* if there was none.
Remembers(sel, ch) ==
  \A m \in Mailbox : ch[m] = IF m \in DOMAIN sel THEN sel[m] ELSE TRUE

Types ==
  /\ Choices(mailboxes) /\ Choices(selected)
  /\ there \subseteq Mailbox /\ touched \subseteq Mailbox
  /\ chosen \in [Mailbox -> BOOLEAN] /\ written \in [Mailbox -> BOOLEAN]

Saved ==
  IF file = NoFile THEN Remembers(Nothing, written)
  ELSE Choices(file.selected) /\ Remembers(file.selected, written)

IInv == Types /\ Remembers(selected, chosen) /\ Saved /\ ChoicesSurvive

\* The dictionary of OK is never taken for a missing file.
LEMMA FileExists == \A a, b : [selected |-> a, use |-> b] # NoFile
BY DEF NoFile

LEMMA NothingListed == DOMAIN Nothing = {} /\ Choices(Nothing)
BY DEF Nothing, Choices

\* reloadTheMailboxes fills the table with what is remembered.
LEMMA ListedRemembered ==
  ASSUME NEW rows \in SUBSET Mailbox, NEW sel, Choices(sel),
         NEW ch \in [Mailbox -> BOOLEAN], Remembers(sel, ch)
  PROVE  /\ Choices(Listed(rows, sel))
         /\ \A m \in DOMAIN Listed(rows, sel) : Listed(rows, sel)[m] = ch[m]
BY DEF Choices, Remembers, Listed

\* The query finds mailboxes.
LEMMA RowsAreMailboxes == ASSUME there \subseteq Mailbox PROVE Rows \subseteq SUBSET Mailbox
BY DEF Rows

\* So a table that agrees with what is remembered still does when it is reloaded,
\* whether the database opens or not.
LEMMA ReloadRemembers ==
  ASSUME there \subseteq Mailbox, NEW sel, Choices(sel),
         NEW ch \in [Mailbox -> BOOLEAN], Remembers(sel, ch),
         NEW table, Choices(table), \A m \in DOMAIN table : table[m] = ch[m],
         NEW reloaded \in ReloadTheMailboxes(table, sel)
  PROVE  /\ Choices(reloaded)
         /\ \A m \in DOMAIN reloaded : reloaded[m] = ch[m]
<1>1. CASE reloaded = table
  BY <1>1
<1>2. ASSUME NEW rows \in Rows, reloaded = Listed(rows, sel)
      PROVE  /\ Choices(reloaded)
             /\ \A m \in DOMAIN reloaded : reloaded[m] = ch[m]
  <2>1. rows \in SUBSET Mailbox
    BY RowsAreMailboxes
  <2> QED
    BY <1>2, <2>1, ListedRemembered
<1> QED
  BY <1>1, <1>2 DEF ReloadTheMailboxes

\* savePreferences keeps the choices for mailboxes that are not in the table.
LEMMA MergeRemembers ==
  ASSUME NEW table, Choices(table), NEW old, Choices(old),
         NEW ch \in [Mailbox -> BOOLEAN], Remembers(old, ch)
  PROVE  /\ Choices(NewSelected(table, old))
         /\ Over(table, ch) \in [Mailbox -> BOOLEAN]
         /\ Remembers(NewSelected(table, old), Over(table, ch))
         /\ \A m \in DOMAIN table : Over(table, ch)[m] = table[m]
BY DEF Choices, Remembers, NewSelected, Over

LEMMA InitIInv == Init => IInv
<1> SUFFICES ASSUME Init PROVE IInv
  OBVIOUS
<1>1. mailboxes \in ReloadTheMailboxes(Nothing, Nothing)
  BY DEF Init
<1>2. there \subseteq Mailbox
  BY DEF Init
<1>3. Remembers(Nothing, chosen) /\ chosen \in [Mailbox -> BOOLEAN] /\ written = chosen
  BY NothingListed DEF Init, Remembers
<1>4. Choices(mailboxes) /\ \A m \in DOMAIN mailboxes : mailboxes[m] = chosen[m]
  BY <1>1, <1>2, <1>3, NothingListed, ReloadRemembers
<1> QED
  BY <1>3, <1>4, NothingListed DEF Init, IInv, Types, Saved, ChoicesSurvive

\* Both reloads that a launch keeps start from the choices on the disk.
LEMMA RelaunchIInv == ASSUME IInv, Relaunch PROVE IInv'
<1>1. PICK loaded \in ReloadTheMailboxes(Nothing, Kept.selected) :
        mailboxes' \in ReloadTheMailboxes(loaded, Kept.selected)
  BY DEF Relaunch, Launch
<1>2. Choices(Kept.selected) /\ Remembers(Kept.selected, written)
  BY NothingListed DEF IInv, Saved, Kept
<1>3. selected' = Kept.selected
  BY DEF Relaunch, Launch
<1>4. there \subseteq Mailbox /\ written \in [Mailbox -> BOOLEAN]
  BY DEF IInv, Types
<1>5. Choices(mailboxes') /\ \A m \in DOMAIN mailboxes' : mailboxes'[m] = written[m]
  <2>1. Choices(loaded) /\ \A m \in DOMAIN loaded : loaded[m] = written[m]
    BY <1>1, <1>2, <1>4, NothingListed, ReloadRemembers
  <2> QED
    BY <1>1, <1>2, <1>4, <2>1, ReloadRemembers
<1>6. /\ touched' = {} /\ chosen' = written /\ written' = written
      /\ file' = file /\ there' = there
  BY DEF Relaunch, world
<1>7. Remembers(selected', chosen')
  BY <1>2, <1>3, <1>6 DEF Remembers
<1>8. Choices(selected')
  BY <1>2, <1>3
<1>9. Types'
  BY <1>4, <1>5, <1>6, <1>8 DEF IInv, Types, Choices
<1>10. Saved'
  BY <1>6 DEF IInv, Saved, Remembers, Choices, NoFile, Nothing
<1> QED
  BY <1>5, <1>6, <1>7, <1>9, <1>10 DEF IInv, ChoicesSurvive, Remembers

LEMMA EditIInv ==
  ASSUME IInv,
         \/ \E m \in Mailbox : SelectRow(m)
         \/ \E value \in BOOLEAN : SelectEvery(value)
  PROVE  IInv'
<1>1. UNCHANGED <<there, selected, file, chosen, written>>
  BY DEF SelectRow, SelectEvery, world
<1>2. /\ Choices(mailboxes') /\ DOMAIN mailboxes' = DOMAIN mailboxes
      /\ touched' \subseteq Mailbox /\ touched \subseteq touched'
      /\ \A m \in DOMAIN mailboxes \ touched' : mailboxes'[m] = mailboxes[m]
  <2>1. CASE \E m \in Mailbox : SelectRow(m)
    BY <2>1 DEF SelectRow, IInv, Types, Choices
  <2>2. CASE \E value \in BOOLEAN : SelectEvery(value)
    BY <2>2 DEF SelectEvery, IInv, Types, Choices
  <2> QED
    BY <2>1, <2>2
<1>3. Types'
  BY <1>1, <1>2 DEF IInv, Types, Choices
<1>4. Remembers(selected, chosen)' /\ Saved'
  BY <1>1 DEF IInv, Saved, Remembers, Choices, NoFile, Nothing
<1> QED
  BY <1>1, <1>2, <1>3, <1>4 DEF IInv, ChoicesSurvive

LEMMA CancelIInv == ASSUME IInv, Cancel PROVE IInv'
<1>1. UNCHANGED <<there, selected, file, chosen, written>>
  BY DEF Cancel, world
<1>2. \/ \E rows \in Rows : mailboxes' = Listed(rows, selected) /\ touched' = {}
      \/ UNCHANGED <<mailboxes, touched>>
  BY DEF Cancel
<1>3. Remembers(selected, chosen)' /\ Saved'
  BY <1>1 DEF IInv, Saved, Remembers, Choices, NoFile, Nothing
<1>4. ASSUME NEW rows \in Rows, mailboxes' = Listed(rows, selected), touched' = {}
      PROVE  Types' /\ ChoicesSurvive'
  <2>1. Choices(mailboxes') /\ \A m \in DOMAIN mailboxes' : mailboxes'[m] = chosen[m]
    <3>1. rows \in SUBSET Mailbox
      BY RowsAreMailboxes DEF IInv, Types
    <3> QED
      BY <1>4, <3>1, ListedRemembered DEF IInv, Types
  <2> QED
    BY <1>1, <1>4, <2>1 DEF IInv, Types, Choices, ChoicesSurvive
<1>5. CASE UNCHANGED <<mailboxes, touched>>
  BY <1>1, <1>3, <1>5 DEF IInv, Types, Choices, ChoicesSurvive
<1> QED
  BY <1>2, <1>3, <1>4, <1>5 DEF IInv

LEMMA OkIInv == ASSUME IInv, Ok PROVE IInv'
<1>1. /\ selected' = NewSelected(mailboxes, selected)
      /\ chosen' = Over(mailboxes, chosen)
      /\ touched' = {} /\ there' = there
  BY DEF Ok, world
<1>2. /\ Choices(selected') /\ chosen' \in [Mailbox -> BOOLEAN]
      /\ Remembers(selected', chosen')
      /\ \A m \in DOMAIN mailboxes : mailboxes[m] = chosen'[m]
  BY <1>1, MergeRemembers DEF IInv, Types
<1>3. Choices(mailboxes') /\ \A m \in DOMAIN mailboxes' : mailboxes'[m] = chosen'[m]
  <2>1. mailboxes' \in ReloadTheMailboxes(mailboxes, selected')
    BY DEF Ok
  <2>2. there \subseteq Mailbox /\ Choices(mailboxes)
    BY DEF IInv, Types
  <2> QED
    BY <1>2, <2>1, <2>2, ReloadRemembers
<1>4. Saved' /\ written' \in [Mailbox -> BOOLEAN]
  <2>1. CASE file' = [selected |-> selected', use |-> shown] /\ written' = chosen'
    <3>1. file' # NoFile /\ file'.selected = selected'
      BY <2>1, FileExists
    <3> QED
      BY <1>2, <2>1, <3>1 DEF Saved, Choices, Remembers, NoFile
  <2>2. CASE UNCHANGED <<file, written>>
    BY <2>2 DEF IInv, Types, Saved, Remembers, Choices, NoFile, Nothing
  <2> QED
    BY <2>1, <2>2 DEF Ok
<1>5. Types'
  BY <1>1, <1>2, <1>3, <1>4 DEF IInv, Types, Choices
<1> QED
  BY <1>2, <1>3, <1>4, <1>5 DEF IInv, ChoicesSurvive, Remembers

\* Nothing else touches what the invariant is about.
LEMMA OtherIInv ==
  ASSUME IInv,
         Edit \/ ScoreUsers \/ MailArrives \/ MailboxesChange \/ Tick \/ UNCHANGED vars
  PROVE  IInv'
<1>1. /\ UNCHANGED <<mailboxes, selected, file, touched, chosen, written>>
      /\ there' \subseteq Mailbox
  BY DEF IInv, Types, Edit, ScoreUsers, MailArrives, MailboxesChange, Tick, vars, world,
         memory, history
<1> QED
  BY <1>1 DEF IInv, Types, Saved, Choices, Remembers, NoFile, Nothing, ChoicesSurvive

-------------------------------------------------------------------------------
\* The choices in the table, in memory and on the disk agree, in every state.
THEOREM MailInvariance == Spec => []IInv
<1>1. ASSUME IInv, [Next]_vars PROVE IInv'
  BY <1>1, RelaunchIInv, EditIInv, CancelIInv, OkIInv, OtherIInv DEF Next
<1> QED
  BY InitIInv, <1>1, PTL DEF Spec

\* The table shows of each mailbox what OK last made of it, or that it is selected,
\* however many mailboxes come and go, and whatever is cancelled, fails to be saved or
\* is started again (MailSource.m:205-237, 269-276, 302-333).
THEOREM ChoicesAlwaysSurvive == Spec => []ChoicesSurvive
<1>1. IInv => ChoicesSurvive
  BY DEF IInv
<1> QED
  BY MailInvariance, <1>1, PTL

-------------------------------------------------------------------------------
(* Sums over the days, and the age of a set of e-mails.                       *)

\* Any set of numbers has a least one.
LEMMA Least ==
  ASSUME NEW T \in SUBSET Nat, T # {}
  PROVE  \E m \in T : \A k \in T : m <= k
<1>1. PICK m \in T : \A k \in T : ~(<<k, m>> \in OpToRel(<, Nat))
  BY NatLessThanWellFounded, WFMin
<1>2. \A k \in T : ~(k < m)
  BY <1>1 DEF OpToRel
<1> QED
  BY <1>2

\* f[k] is the sum of g[0] to g[k].
Adds(f, g, L) == \A k \in 0..L : f[k] = (IF k = 0 THEN 0 ELSE f[k - 1]) + g[k]

\* Every function to integers has its sums, the function the definition by recursion
\* stands for.
LEMMA SumsExist ==
  ASSUME NEW L \in Nat, NEW g \in [0..L -> Int]
  PROVE  \E f \in [0..L -> Int] : Adds(f, g, L)
<1> USE DEF Adds
<1> DEFINE Bad == {m \in 0..L : ~\E f \in [0..m -> Int] : Adds(f, g, m)}
<1>1. SUFFICES ASSUME Bad # {} PROVE FALSE
  <2>1. L \in 0..L
    OBVIOUS
  <2> QED
    BY <1>1, <2>1
<1>2. PICK m \in Bad : \A k \in Bad : m <= k
  <2>1. Bad \in SUBSET Nat
    OBVIOUS
  <2> HIDE DEF Bad
  <2> QED
    BY <1>1, <2>1, Least
<1>3. CASE m = 0
  <2>1. [k \in 0..0 |-> g[0]] \in [0..0 -> Int] /\ Adds([k \in 0..0 |-> g[0]], g, 0)
    OBVIOUS
  <2> QED
    BY <1>3, <2>1
<1>4. CASE m # 0
  <2>0. m \in 0..L /\ \A k \in Bad : m <= k
    BY <1>2
  <2>1. m - 1 \in 0..L /\ m - 1 \notin Bad
    <3>1. m - 1 \in 0..L /\ ~(m <= m - 1)
      BY <1>4, <2>0
    <3> HIDE DEF Bad
    <3> QED
      BY <2>0, <3>1
  <2>2. PICK f \in [0..(m - 1) -> Int] : Adds(f, g, m - 1)
    BY <2>1
  <2> DEFINE h == [k \in 0..m |-> IF k = m THEN f[m - 1] + g[m] ELSE f[k]]
  <2>3. h \in [0..m -> Int]
    BY <1>4
  <2>4. ASSUME NEW k \in 0..m PROVE h[k] = (IF k = 0 THEN 0 ELSE h[k - 1]) + g[k]
    <3>1. CASE k = m
      BY <1>4, <2>0, <3>1
    <3>2. CASE k # m
      <4>1. k \in 0..(m - 1)
        BY <2>0, <3>2
      <4>2. f[k] = (IF k = 0 THEN 0 ELSE f[k - 1]) + g[k]
        BY <2>2, <4>1
      <4>3. h[k] = f[k] /\ (k # 0 => h[k - 1] = f[k - 1])
        BY <2>0, <3>2, <4>1
      <4> QED
        BY <4>2, <4>3
    <3> QED
      BY <3>1, <3>2
  <2> QED
    BY <2>3, <2>4
<1> QED
  BY <1>3, <1>4

\* Two functions that add up the same numbers agree.
LEMMA SumsAgree ==
  ASSUME NEW L \in Nat, NEW g, NEW f, NEW h, Adds(f, g, L), Adds(h, g, L)
  PROVE  \A k \in 0..L : f[k] = h[k]
<1> USE DEF Adds
<1> DEFINE Bad == {k \in 0..L : f[k] # h[k]}
<1>1. SUFFICES ASSUME Bad # {} PROVE FALSE
  OBVIOUS
<1>2. PICK m \in Bad : \A k \in Bad : m <= k
  <2>1. Bad \in SUBSET Nat
    OBVIOUS
  <2> HIDE DEF Bad
  <2> QED
    BY <1>1, <2>1, Least
<1>3. m \in 0..L /\ f[m] # h[m]
  BY <1>2
<1>4. m # 0 => f[m - 1] = h[m - 1]
  <2>1. m # 0 => (m - 1 \in 0..L /\ ~(m <= m - 1))
    BY <1>3
  <2>2. m # 0 => m - 1 \notin Bad
    <3> HIDE DEF Bad
    <3> QED
      BY <1>2, <2>1
  <2> QED
    BY <2>1, <2>2
<1> QED
  BY <1>3, <1>4

\* The e-mails of day k, and those from day k on.
OnDay(counted, k) == Cardinality({mail \in counted : mail[3] = k})
From(counted, k) == Cardinality({mail \in counted : mail[3] >= k})

\* Age adds up day by day.
LEMMA AgeSums ==
  ASSUME MailAssumption, NEW counted, NEW since \in Day,
         \A k \in Day : OnDay(counted, k) \in Nat
  PROVE  \E f \in [Day -> Int] :
           /\ Age(counted, since) = f[LastDay]
           /\ \A k \in Day : f[k] = (IF k = 0 THEN 0 ELSE f[k - 1])
                + OnDay(counted, k) * (k - since)
<1> USE DEF OnDay
<1> DEFINE n(k) == Cardinality({mail \in counted : mail[3] = k})
           Sums(f) == f = [k \in 0..LastDay |->
                             (IF k = 0 THEN 0 ELSE f[k - 1]) + n(k) * (k - since)]
           g == [k \in 0..LastDay |-> n(k) * (k - since)]
           up == CHOOSE f : Sums(f)
<1>1. LastDay \in Nat /\ since \in Int /\ Day = 0..LastDay
  BY DEF MailAssumption, Day
<1>2. g \in [0..LastDay -> Int]
  BY <1>1
<1>3. PICK h \in [0..LastDay -> Int] : Adds(h, g, LastDay)
  <2> HIDE DEF g
  <2> QED
    BY <1>1, <1>2, SumsExist
<1>4. Sums(h)
  BY <1>3 DEF Adds
<1>5. Sums(up)
  BY <1>4
<1>6. Age(counted, since) = up[LastDay]
  BY DEF Age
<1>7. Adds(up, g, LastDay)
  <2> HIDE DEF up, n
  <2> QED
    BY <1>5 DEF Adds
<1>8. \A k \in 0..LastDay : up[k] = h[k]
  <2>1. LastDay \in Nat
    BY <1>1
  <2> HIDE DEF up, g, n, Sums
  <2> QED
    BY <1>3, <1>7, <2>1, SumsAgree
<1>9. Age(counted, since) = h[LastDay]
  <2> HIDE DEF up
  <2> QED
    BY <1>1, <1>6, <1>8
<1>10. \A k \in Day : h[k] = (IF k = 0 THEN 0 ELSE h[k - 1]) + n(k) * (k - since)
  BY <1>1, <1>3 DEF Adds
<1> QED
  BY <1>1, <1>9, <1>10

\* A set of e-mails a persona may be scored by: finite, each after the day since.
Countable(counted, since) ==
  IsFiniteSet(counted) /\ \A mail \in counted : mail[3] \in Day /\ mail[3] > since

\* The e-mails from day k on are those of day k and those from the next day on.
LEMMA FromSteps ==
  ASSUME MailAssumption, NEW since \in Day, NEW counted, Countable(counted, since)
  PROVE  /\ \A k \in Int : OnDay(counted, k) \in Nat /\ From(counted, k) \in Nat
         /\ \A k \in Int : From(counted, k) = OnDay(counted, k) + From(counted, k + 1)
         /\ \A k \in Int : k <= since => OnDay(counted, k) = 0
         /\ From(counted, LastDay + 1) = 0
<1> DEFINE on(k) == {mail \in counted : mail[3] = k}
           from(k) == {mail \in counted : mail[3] >= k}
<1>0. LastDay \in Nat /\ Day = 0..LastDay /\ IsFiniteSet(counted)
      /\ \A mail \in counted : mail[3] \in Day /\ mail[3] > since
  BY DEF MailAssumption, Day, Countable
<1>1. \A k \in Int : IsFiniteSet(on(k)) /\ IsFiniteSet(from(k))
  <2>1. \A k \in Int : on(k) \subseteq counted /\ from(k) \subseteq counted
    OBVIOUS
  <2> HIDE DEF on, from
  <2> QED
    BY <1>0, <2>1, FS_Subset
<1>2. \A k \in Int : OnDay(counted, k) \in Nat /\ From(counted, k) \in Nat
  BY <1>1, FS_CardinalityType DEF OnDay, From
<1>3. ASSUME NEW k \in Int PROVE From(counted, k) = OnDay(counted, k) + From(counted, k + 1)
  <2>1. from(k) = on(k) \union from(k + 1) /\ on(k) \intersect from(k + 1) = {}
    BY <1>0
  <2>2. IsFiniteSet(on(k)) /\ IsFiniteSet(from(k + 1))
    <3>1. k + 1 \in Int
      OBVIOUS
    <3> HIDE DEF on, from
    <3> QED
      BY <1>1, <3>1
  <2>3. Cardinality(from(k)) = Cardinality(on(k)) + Cardinality(from(k + 1)) - 0
    <3>1. Cardinality(on(k)) \in Nat /\ Cardinality(from(k + 1)) \in Nat
      BY <2>2, FS_CardinalityType
    <3> HIDE DEF on, from
    <3> QED
      BY <2>1, <2>2, FS_Union, FS_EmptySet
  <2>4. /\ OnDay(counted, k) = Cardinality(on(k))
        /\ From(counted, k) = Cardinality(from(k))
        /\ From(counted, k + 1) = Cardinality(from(k + 1))
    BY DEF OnDay, From
  <2>5. OnDay(counted, k) \in Nat /\ From(counted, k + 1) \in Nat
    <3>1. k + 1 \in Int
      OBVIOUS
    <3> QED
      BY <1>2, <3>1
  <2> HIDE DEF on, from
  <2> QED
    BY <2>3, <2>4, <2>5
<1>4. ASSUME NEW k \in Int, k <= since PROVE OnDay(counted, k) = 0
  <2>1. on(k) = {}
    BY <1>0, <1>4
  <2> QED
    BY <2>1, FS_EmptySet DEF OnDay
<1>5. From(counted, LastDay + 1) = 0
  <2>1. from(LastDay + 1) = {}
    BY <1>0
  <2> QED
    BY <2>1, FS_EmptySet DEF From
<1> QED
  BY <1>2, <1>3, <1>4, <1>5

\* Age adds up from how many e-mails there are from each day on.
LEMMA AgeByTails ==
  ASSUME MailAssumption, NEW since \in Day, NEW counted, Countable(counted, since)
  PROVE  \E sum \in [Day -> Int] :
           /\ Age(counted, since) = sum[LastDay]
           /\ \A k \in Day : sum[k] = IF k <= since THEN 0
                                      ELSE sum[k - 1] + From(counted, k)
<1>0. LastDay \in Nat /\ Day = 0..LastDay /\ since \in Int /\ since >= 0
  BY DEF MailAssumption, Day
<1>1. /\ \A k \in Int : OnDay(counted, k) \in Nat /\ From(counted, k) \in Nat
      /\ \A k \in Int : From(counted, k) = OnDay(counted, k) + From(counted, k + 1)
      /\ \A k \in Int : k <= since => OnDay(counted, k) = 0
      /\ From(counted, LastDay + 1) = 0
  BY FromSteps
<1>2. PICK f \in [Day -> Int] :
        /\ Age(counted, since) = f[LastDay]
        /\ \A k \in Day : f[k] = (IF k = 0 THEN 0 ELSE f[k - 1])
                                 + OnDay(counted, k) * (k - since)
  <2>1. \A k \in Day : OnDay(counted, k) \in Nat
    <3>1. \A k \in Day : k \in Int
      BY <1>0
    <3> QED
      BY <1>1, <3>1
  <2> QED
    BY <2>1, AgeSums
<1>3. \A k \in Day : k <= since => f[k] = 0
  <2> DEFINE Bad == {k \in Day : k <= since /\ f[k] # 0}
  <2> SUFFICES ASSUME Bad # {} PROVE FALSE
    OBVIOUS
  <2>1. PICK m \in Bad : \A k \in Bad : m <= k
    <3>1. Bad \in SUBSET Nat
      BY <1>0
    <3> HIDE DEF Bad
    <3> QED
      BY <3>1, Least
  <2>2. m \in Day /\ m <= since /\ f[m] # 0
    BY <2>1
  <2>3. f[m] = (IF m = 0 THEN 0 ELSE f[m - 1]) + 0 * (m - since)
    BY <1>0, <1>1, <1>2, <2>2
  <2>4. m # 0 => m - 1 \notin Bad
    <3>1. m # 0 => ~(m <= m - 1)
      BY <1>0, <2>2
    <3> HIDE DEF Bad
    <3> QED
      BY <2>1, <3>1
  <2> QED
    BY <1>0, <2>2, <2>3, <2>4
<1> DEFINE sum == [k \in Day |-> IF k <= since THEN 0
                                ELSE f[k] + From(counted, k + 1) * (k - since)]
<1>4. sum \in [Day -> Int]
  <2>1. \A k \in Day : k \in Int /\ k + 1 \in Int /\ k - since \in Int
    BY <1>0
  <2>2. \A k \in Day : From(counted, k + 1) * (k - since) \in Int
    BY <1>1, <2>1
  <2> QED
    BY <1>2, <2>2
<1>5. sum[LastDay] = Age(counted, since)
  <2>1. LastDay \in Day /\ LastDay - since \in Int /\ f[LastDay] \in Int
    BY <1>0, <1>2
  <2>2. sum[LastDay] = IF LastDay <= since THEN 0 ELSE f[LastDay] + 0 * (LastDay - since)
    BY <1>1, <2>1
  <2> QED
    BY <1>2, <1>3, <2>1, <2>2
<1>6. ASSUME NEW k \in Day, k > since PROVE sum[k] = sum[k - 1] + From(counted, k)
  <2> DEFINE a == OnDay(counted, k)
             b == From(counted, k + 1)
             e == k - since
  <2>0. k \in Int /\ k + 1 \in Int /\ e \in Nat
    BY <1>0, <1>6
  <2>1. a \in Nat /\ b \in Nat /\ e \in Nat /\ From(counted, k) = a + b
    BY <1>1, <2>0
  <2>2. f[k] = f[k - 1] + a * e
    BY <1>0, <1>2, <1>6
  <2>3. sum[k] = f[k - 1] + a * e + b * e
    BY <1>0, <1>6, <2>2
  <2>4. sum[k - 1] = f[k - 1] + (a + b) * (e - 1)
    <3>1. CASE k - 1 <= since
      BY <1>0, <1>3, <1>6, <2>1, <3>1
    <3>2. CASE k - 1 > since
      BY <1>0, <1>6, <2>1, <3>2
    <3> QED
      BY <1>0, <1>6, <3>1, <3>2
  <2>5. (a + b) * (e - 1) = a * e + b * e - (a + b)
    <3> HIDE DEF a, b, e
    <3> QED
      BY <2>1
  <2>6. f[k - 1] \in Int /\ a * e \in Int /\ b * e \in Int
    <3>1. k - 1 \in Day
      BY <1>0, <1>6
    <3> HIDE DEF a, b, e
    <3> QED
      BY <1>2, <2>1, <3>1
  <2> QED
    <3> HIDE DEF a, b, e, sum
    <3> QED
      BY <2>1, <2>3, <2>4, <2>5, <2>6
<1>7. \A k \in Day : k <= since => sum[k] = 0
  OBVIOUS
<1> HIDE DEF sum
<1>8. \A k \in Day : sum[k] = IF k <= since THEN 0 ELSE sum[k - 1] + From(counted, k)
  BY <1>0, <1>6, <1>7
<1> QED
  BY <1>4, <1>5, <1>8

\* A round's Age is no less for who has as many e-mails from any day on.
LEMMA AgeGrows ==
  ASSUME MailAssumption, NEW since \in Day,
         NEW less, Countable(less, since), NEW more, Countable(more, since),
         \A k \in Day : k > since => From(less, k) <= From(more, k)
  PROVE  Age(less, since) \in Nat /\ Age(more, since) \in Nat
         /\ Age(less, since) <= Age(more, since)
<1>0. LastDay \in Day /\ Day \subseteq Nat /\ since \in Nat
      /\ \A k \in Day : k > since => k - 1 \in Day
  BY DEF MailAssumption, Day
<1>1. PICK s \in [Day -> Int] :
        /\ Age(less, since) = s[LastDay]
        /\ \A k \in Day : s[k] = IF k <= since THEN 0 ELSE s[k - 1] + From(less, k)
  BY AgeByTails
<1>2. PICK t \in [Day -> Int] :
        /\ Age(more, since) = t[LastDay]
        /\ \A k \in Day : t[k] = IF k <= since THEN 0 ELSE t[k - 1] + From(more, k)
  BY AgeByTails
<1>3. \A k \in Day : From(less, k) \in Nat /\ From(more, k) \in Nat
  <2>1. \A k \in Int : From(less, k) \in Nat /\ From(more, k) \in Nat
    BY FromSteps
  <2>2. \A k \in Day : k \in Int
    BY <1>0
  <2> QED
    BY <2>1, <2>2
<1> DEFINE Bad == {k \in Day : ~(0 <= s[k] /\ s[k] <= t[k])}
<1>4. Bad = {}
  <2> SUFFICES ASSUME Bad # {} PROVE FALSE
    OBVIOUS
  <2>1. PICK m \in Bad : \A k \in Bad : m <= k
    <3>1. Bad \in SUBSET Nat
      BY <1>0
    <3> HIDE DEF Bad
    <3> QED
      BY <3>1, Least
  <2>2. m \in Day /\ ~(0 <= s[m] /\ s[m] <= t[m])
    BY <2>1
  <2>3. m > since
    BY <1>0, <1>1, <1>2, <2>2
  <2>4. m - 1 \in Day /\ m - 1 \notin Bad
    <3>1. m - 1 \in Day /\ ~(m <= m - 1)
      BY <1>0, <2>2, <2>3
    <3> HIDE DEF Bad
    <3> QED
      BY <2>1, <3>1
  <2>5. 0 <= s[m - 1] /\ s[m - 1] <= t[m - 1]
    BY <2>4
  <2>6. s[m] = s[m - 1] + From(less, m) /\ t[m] = t[m - 1] + From(more, m)
        /\ s[m - 1] \in Int /\ t[m - 1] \in Int
    BY <1>0, <1>1, <1>2, <2>2, <2>3, <2>4
  <2>7. From(less, m) \in Nat /\ From(more, m) \in Nat /\ From(less, m) <= From(more, m)
    BY <1>3, <2>2, <2>3
  <2> QED
    BY <2>2, <2>5, <2>6, <2>7
<1>5. 0 <= s[LastDay] /\ s[LastDay] <= t[LastDay]
  BY <1>0, <1>4
<1> QED
  BY <1>0, <1>1, <1>2, <1>5

-------------------------------------------------------------------------------
\* The settings and the e-mails of a state.
Setting == [weight : Weights, earliest : Day]

MailTypes ==
  /\ now \in Day /\ now >= Fortnight
  /\ use \in Setting /\ shown \in Setting
  /\ file # NoFile => file.use \in Setting
  /\ IsFiniteSet(mails) /\ \A mail \in mails : mail[3] \in Day

\* Weighing or comparing by a factor keeps the order of two numbers.
LEMMA ProductGrows ==
  ASSUME NEW c \in Nat, NEW a \in Nat, NEW b \in Nat, a <= b
  PROVE  c * a \in Nat /\ c * b \in Nat /\ c * a <= c * b
<1>1. PICK e \in Nat : b = a + e
  <2>1. b - a \in Nat /\ b = a + (b - a)
    OBVIOUS
  <2> QED
    BY <2>1
<1>2. c * b = c * a + c * e
  BY <1>1
<1>3. c * a \in Nat /\ c * e \in Nat
  BY <1>1
<1> QED
  BY <1>2, <1>3

\* What a round divides by.
Divisor(with) == One * (now - with.earliest)

\* The slider and the date picker give numbers from their ranges.
LEMMA SettingTypes ==
  ASSUME MailAssumption, NEW with \in Setting
  PROVE  /\ with.earliest \in Day /\ with.weight \in Nat
         /\ Day \subseteq Nat /\ One \in Nat \ {0}
<1>1. with.earliest \in Day /\ with.weight \in Weights
  BY DEF Setting
<1>2. Day \subseteq Nat /\ Weights \subseteq Nat /\ One \in Nat \ {0}
  BY DEF MailAssumption, Day
<1> QED
  BY <1>1, <1>2

\* The score is what ScoreOf's first three cases make of it.
LEMMA ScoreIs ==
  ASSUME MailAssumption, MailTypes, NEW with \in Setting, now > with.earliest, NEW u
  PROVE  LET counted == Counted(u, mailboxes, with.earliest)
             n == with.weight * Age(counted, with.earliest)
             d == Divisor(with)
         IN  /\ d \in Nat \ {0} /\ n \in Nat
             /\ \/ counted = {} /\ ScoreOf(u, mailboxes, with) = Zero
                \/ counted # {} /\ n > d /\ ScoreOf(u, mailboxes, with) = Full
                \/ counted # {} /\ n <= d /\ ScoreOf(u, mailboxes, with) = [n |-> n, d |-> d]
<1> DEFINE counted == Counted(u, mailboxes, with.earliest)
           n == with.weight * Age(counted, with.earliest)
           d == Divisor(with)
<1>1. with.earliest \in Day /\ with.weight \in Nat /\ One \in Nat \ {0} /\ Day \subseteq Nat
      /\ now \in Nat
  BY SettingTypes DEF MailTypes
<1>2. Countable(counted, with.earliest)
  BY FS_Subset DEF Countable, Counted, Counts, MailTypes
<1>3. n \in Nat
  <2>1. \A k \in Day : From(counted, k) <= From(counted, k)
    <3>1. \A k \in Int : From(counted, k) \in Nat
      BY <1>1, <1>2, FromSteps
    <3> HIDE DEF counted
    <3> QED
      BY <1>1, <3>1
  <2>2. Age(counted, with.earliest) \in Nat
    <3> HIDE DEF counted
    <3> QED
      BY <1>1, <1>2, <2>1, AgeGrows
  <2> HIDE DEF counted
  <2> QED
    BY <1>1, <2>2
<1>4. d \in Nat \ {0}
  <2>1. now - with.earliest \in Nat \ {0}
    <3>1. with.earliest \in Nat
      BY <1>1
    <3> QED
      BY <1>1, <3>1
  <2>2. \A a, b \in Nat \ {0} : a * b \in Nat \ {0}
    OBVIOUS
  <2> QED
    BY <1>1, <2>1, <2>2 DEF Divisor
<1>5. ScoreOf(u, mailboxes, with) =
        IF counted = {} THEN Zero
        ELSE CASE d > 0 /\ n > d  -> Full
               [] d > 0 /\ n <= d -> [n |-> n, d |-> d]
               [] d < 0           -> [n |-> -n, d |-> -d]
               [] OTHER           -> IF n > 0 THEN Full ELSE NaN
  BY DEF ScoreOf, Divisor
<1> HIDE DEF counted, n, d
<1>6. d > 0 /\ (n > d \/ n <= d) /\ ~(n > d /\ n <= d)
  BY <1>3, <1>4
<1>7. /\ counted = {} => ScoreOf(u, mailboxes, with) = Zero
      /\ counted # {} /\ n > d => ScoreOf(u, mailboxes, with) = Full
      /\ counted # {} /\ n <= d => ScoreOf(u, mailboxes, with) = [n |-> n, d |-> d]
  <2>1. CASE counted = {}
    BY <1>5, <2>1
  <2>2. CASE counted # {} /\ n > d
    BY <1>3, <1>4, <1>5, <2>2
  <2>3. CASE counted # {} /\ n <= d
    BY <1>3, <1>4, <1>5, <2>3
  <2> QED
    BY <1>6, <2>1, <2>2, <2>3
<1>8. /\ d \in Nat \ {0} /\ n \in Nat
      /\ \/ counted = {} /\ ScoreOf(u, mailboxes, with) = Zero
         \/ counted # {} /\ n > d /\ ScoreOf(u, mailboxes, with) = Full
         \/ counted # {} /\ n <= d /\ ScoreOf(u, mailboxes, with) = [n |-> n, d |-> d]
  BY <1>3, <1>4, <1>6, <1>7
<1> QED
  BY <1>8 DEF counted, n, d

\* A score is a fraction from 0 to 1.
LEMMA ScoreBounds ==
  ASSUME MailAssumption, MailTypes, NEW with \in Setting, now > with.earliest, NEW u
  PROVE  LET s == ScoreOf(u, mailboxes, with)
         IN  s.d > 0 /\ AtMost(Zero, s) /\ AtMost(s, Full)
<1> DEFINE counted == Counted(u, mailboxes, with.earliest)
           n == with.weight * Age(counted, with.earliest)
           d == Divisor(with)
           s == ScoreOf(u, mailboxes, with)
<1>1. /\ d \in Nat \ {0} /\ n \in Nat
      /\ \/ s = Zero
         \/ s = Full
         \/ n <= d /\ s = [n |-> n, d |-> d]
  BY ScoreIs
<1> HIDE DEF counted, n, d, s
<1>2. s.d > 0 /\ AtMost(Zero, s) /\ AtMost(s, Full)
  BY <1>1 DEF AtMost, Zero, Full
<1> QED
  BY <1>2 DEF s

\* Who has as many e-mails from any day on is not ranked lower.
LEMMA ScoresRank ==
  ASSUME MailAssumption, MailTypes, NEW with \in Setting, now > with.earliest,
         NEW u, NEW v, Outdoes(u, v)
  PROVE  AtMost(ScoreOf(u, mailboxes, with), ScoreOf(v, mailboxes, with))
<1> DEFINE since == with.earliest
           counted(w) == Counted(w, mailboxes, since)
           n(w) == with.weight * Age(counted(w), since)
           d == Divisor(with)
           s(w) == ScoreOf(w, mailboxes, with)
<1>1. /\ d \in Nat \ {0} /\ n(u) \in Nat /\ n(v) \in Nat
      /\ \/ counted(u) = {} /\ s(u) = Zero
         \/ counted(u) # {} /\ n(u) > d /\ s(u) = Full
         \/ counted(u) # {} /\ n(u) <= d /\ s(u) = [n |-> n(u), d |-> d]
      /\ \/ counted(v) = {} /\ s(v) = Zero
         \/ counted(v) # {} /\ n(v) > d /\ s(v) = Full
         \/ counted(v) # {} /\ n(v) <= d /\ s(v) = [n |-> n(v), d |-> d]
  BY ScoreIs
<1>2. since \in Day /\ with.weight \in Nat
  BY SettingTypes
<1>3. Countable(counted(u), since) /\ Countable(counted(v), since)
  BY FS_Subset DEF Countable, Counted, Counts, MailTypes
<1>4. \A k \in Day : k > since => From(counted(u), k) <= From(counted(v), k)
  <2> SUFFICES ASSUME NEW k \in Day, k > since
               PROVE  From(counted(u), k) <= From(counted(v), k)
    OBVIOUS
  <2> DEFINE tail(w) == {mail \in mails : mail[1] = w /\ mail[3] >= k
                                       /\ mail[2] \in DOMAIN mailboxes /\ mailboxes[mail[2]]}
  <2>1. Cardinality(tail(u)) <= Cardinality(tail(v))
    BY DEF Outdoes
  <2>2. ASSUME NEW w PROVE tail(w) = {mail \in counted(w) : mail[3] >= k}
    <3> DEFINE picked(mail) == /\ mail[1] = w
                               /\ mail[2] \in DOMAIN mailboxes /\ mailboxes[mail[2]]
    <3>1. \A mail \in mails : mail[3] >= k => mail[3] > since
      <4>1. Day \subseteq Int
        BY DEF Day
      <4>2. since \in Int /\ k \in Int /\ k > since
        BY <1>2, <4>1
      <4>3. \A mail \in mails : mail[3] \in Int
        BY <4>1 DEF MailTypes
      <4> HIDE DEF since
      <4> QED
        BY <4>2, <4>3
    <3>2. counted(w) = {mail \in mails : picked(mail) /\ mail[3] > since}
      BY DEF Counted, Counts
    <3>3. tail(w) = {mail \in mails : picked(mail) /\ mail[3] >= k}
      OBVIOUS
    <3> HIDE DEF picked, counted, tail, since
    <3> QED
      BY <3>1, <3>2, <3>3
  <2> HIDE DEF tail, counted
  <2> QED
    BY <2>1, <2>2 DEF From
<1>5. counted(v) = {} => counted(u) = {}
  <2> SUFFICES ASSUME counted(v) = {}, counted(u) # {} PROVE FALSE
    OBVIOUS
  <2>1. since + 1 \in Day /\ since + 1 > since
    BY <1>2, <1>3 DEF Countable, Day, MailAssumption
  <2>2. {mail \in counted(v) : mail[3] >= since + 1} = {}
    OBVIOUS
  <2>3. {mail \in counted(u) : mail[3] >= since + 1} = counted(u)
    BY <1>2, <1>3 DEF Countable, Day
  <2>4. From(counted(v), since + 1) = 0
    BY <2>2, FS_EmptySet DEF From
  <2>5. From(counted(u), since + 1) \in Nat \ {0}
    BY <1>3, <2>3, FS_EmptySet, FS_CardinalityType DEF From, Countable
  <2> HIDE DEF counted, since
  <2> QED
    BY <1>4, <2>1, <2>4, <2>5
<1>6. n(u) <= n(v)
  <2>1. Age(counted(u), since) \in Nat /\ Age(counted(v), since) \in Nat
        /\ Age(counted(u), since) <= Age(counted(v), since)
    <3> HIDE DEF counted, since
    <3> QED
      BY <1>2, <1>3, <1>4, AgeGrows
  <2> HIDE DEF counted, since
  <2> QED
    BY <1>2, <2>1, ProductGrows
<1>7. AtMost(s(u), s(v))
  <2>1. n(u) * d <= n(v) * d
    <3> HIDE DEF n, d
    <3>1. d * n(u) <= d * n(v)
      BY <1>1, <1>6, ProductGrows
    <3> QED
      BY <1>1, <3>1
  <2> HIDE DEF n, d, s, counted
  <2> QED
    BY <1>1, <1>5, <1>6, <2>1 DEF AtMost, Zero, Full
<1> QED
  BY <1>7

\* The settings start as the defaults, and there are no e-mails.
LEMMA InitMailTypes == MailAssumption /\ Init => MailTypes
<1> SUFFICES ASSUME MailAssumption, Init PROVE MailTypes
  OBVIOUS
<1>1. /\ mails = {} /\ now = Fortnight /\ file = NoFile
      /\ use = Default /\ shown = use
  BY DEF Init
<1>2. Default \in Setting
  BY <1>1 DEF Default, Setting, MailAssumption, Day
<1>3. now \in Day /\ now >= Fortnight
  BY <1>1 DEF MailAssumption, Day
<1> QED
  BY <1>1, <1>2, <1>3, FS_EmptySet DEF MailTypes

\* OK, the pane and a launch change the settings, an arrival the e-mails, a tick the day.
LEMMA NextMailTypes == ASSUME MailAssumption, MailTypes, [Next]_vars PROVE MailTypes'
<1>1. CASE Relaunch
  <2>1. use' = Kept.use /\ shown' = Kept.use /\ UNCHANGED <<now, mails, file>>
    BY <1>1 DEF Relaunch, Launch, world
  <2>2. Default \in Setting
    <3>1. now - Fortnight \in Day
      BY DEF MailTypes, MailAssumption, Day
    <3> QED
      BY <3>1 DEF Default, Setting, MailAssumption
  <2>3. Kept.use \in Setting
    BY <2>2 DEF MailTypes, Kept
  <2> QED
    BY <2>1, <2>3 DEF MailTypes
<1>2. CASE Ok
  <2>1. /\ use' = shown /\ shown' = shown /\ UNCHANGED <<now, mails>>
        /\ \/ file' = [selected |-> selected', use |-> shown]
           \/ UNCHANGED file
    BY <1>2 DEF Ok, world
  <2> QED
    BY <2>1 DEF MailTypes
<1>3. CASE Edit
  <2>1. UNCHANGED <<now, mails, use, file>>
    BY <1>3 DEF Edit, world
  <2>2. \/ \E w \in Weights : shown' = [shown EXCEPT !.weight = w]
        \/ \E day \in Day : shown' = [shown EXCEPT !.earliest = day]
    BY <1>3 DEF Edit
  <2>3. shown' \in Setting
    BY <2>2 DEF MailTypes, Setting
  <2> QED
    BY <2>1, <2>3 DEF MailTypes
<1>4. CASE MailArrives
  <2>1. PICK u \in Users, m \in there, day \in Day : mails' = mails \union {<<u, m, day>>}
    BY <1>4 DEF MailArrives
  <2>2. UNCHANGED <<now, use, shown, file>>
    BY <1>4 DEF MailArrives, memory
  <2>3. IsFiniteSet(mails')
    BY <2>1, FS_AddElement DEF MailTypes
  <2>4. \A mail \in mails' : mail[3] \in Day
    BY <2>1 DEF MailTypes
  <2> QED
    BY <2>2, <2>3, <2>4 DEF MailTypes
<1>5. CASE Tick
  <2>1. UNCHANGED <<mails, use, shown, file>> /\ now' = now + 1 /\ now < LastDay
    BY <1>5 DEF Tick, memory
  <2>2. now' \in Day /\ now' >= Fortnight
    BY <2>1 DEF MailTypes, MailAssumption, Day
  <2> QED
    BY <2>1, <2>2 DEF MailTypes
<1>6. CASE Cancel
  BY <1>6 DEF Cancel, world, MailTypes
<1>7. CASE UNCHANGED <<now, mails, use, shown, file>>
  BY <1>7 DEF MailTypes
<1>8. ASSUME \/ \E m \in Mailbox : SelectRow(m)
             \/ \E value \in BOOLEAN : SelectEvery(value)
             \/ ScoreUsers \/ MailboxesChange \/ UNCHANGED vars
      PROVE  UNCHANGED <<now, mails, use, shown, file>>
  BY <1>8 DEF SelectRow, SelectEvery, ScoreUsers, MailboxesChange, vars, world, memory
<1> QED
  BY <1>1, <1>2, <1>3, <1>4, <1>5, <1>6, <1>7, <1>8 DEF Next

\* A step that changes a score is a round by the settings then in use.
LEMMA RoundScores ==
  ASSUME MailTypes, [Next]_vars, NEW u \in Users, score'[u] # score[u]
  PROVE  use' \in Setting /\ score'[u] = ScoreOf(u, mailboxes, use')
<1>1. CASE ScoreUsers
  <2>1. PICK skipped \in SUBSET Users : score' = Scored(skipped, mailboxes, use)
    BY <1>1 DEF ScoreUsers
  <2>2. use' = use
    BY <1>1 DEF ScoreUsers, memory
  <2> QED
    BY <2>1, <2>2 DEF Scored, MailTypes
<1>2. CASE Ok
  <2>1. PICK skipped \in SUBSET Users : score' = Scored(skipped, mailboxes, shown)
    BY <1>2 DEF Ok
  <2>2. use' = shown
    BY <1>2 DEF Ok
  <2> QED
    BY <2>1, <2>2 DEF Scored, MailTypes
<1>3. ASSUME \/ Relaunch \/ Cancel
             \/ \E m \in Mailbox : SelectRow(m)
             \/ \E value \in BOOLEAN : SelectEvery(value)
             \/ Edit \/ MailArrives \/ MailboxesChange \/ Tick \/ UNCHANGED vars
      PROVE  score' = score
  BY <1>3 DEF Relaunch, Cancel, SelectRow, SelectEvery, Edit, MailArrives, MailboxesChange,
     Tick, vars
<1> QED
  BY <1>1, <1>2, <1>3 DEF Next

\* For any number of e-mails with any dates and any settings whose earliest date is past,
\* a round gives scores from 0 to 1 and ranks nobody below a persona with fewer or older
\* e-mails in the selected mailboxes (MailSource.m:107-165).
THEOREM MoreMailAlwaysRanksHigher == Spec => MoreMailRanksHigher
<1> DEFINE A ==
      LET scored == {u \in Users : score'[u] # score[u]}
      IN  now > use'.earliest =>
            /\ \A u \in scored :
                 score'[u].d > 0 /\ AtMost(Zero, score'[u]) /\ AtMost(score'[u], Full)
            /\ \A u, v \in scored : Outdoes(u, v) => AtMost(score'[u], score'[v])
<1>1. ASSUME MailAssumption, MailTypes, [Next]_vars PROVE A
  <2> SUFFICES ASSUME now > use'.earliest PROVE A
    OBVIOUS
  <2> DEFINE scored == {u \in Users : score'[u] # score[u]}
  <2>1. \A u \in scored : use' \in Setting /\ score'[u] = ScoreOf(u, mailboxes, use')
    BY <1>1, RoundScores
  <2>2. ASSUME NEW u \in scored
        PROVE  score'[u].d > 0 /\ AtMost(Zero, score'[u]) /\ AtMost(score'[u], Full)
    <3> HIDE DEF scored
    <3> QED
      BY <1>1, <2>1, ScoreBounds
  <2>3. ASSUME NEW u \in scored, NEW v \in scored, Outdoes(u, v)
        PROVE  AtMost(score'[u], score'[v])
    <3> HIDE DEF scored
    <3> QED
      BY <1>1, <2>1, <2>3, ScoresRank
  <2> QED
    BY <2>2, <2>3
<1>2. MailAssumption /\ MailTypes /\ [Next]_vars => MailTypes'
  BY NextMailTypes
<1>3. MailAssumption /\ MailTypes /\ [Next]_vars => [A]_vars
  BY <1>1
<1> QED
  BY MailAssumption, InitMailTypes, <1>2, <1>3, PTL DEF Spec, MoreMailRanksHigher
===============================================================================
