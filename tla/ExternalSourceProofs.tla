------------------------ MODULE ExternalSourceProofs ------------------------
(***************************************************************************)
(* Theorems about ExternalSource for every set of personae, calls and      *)
(* requests, whether calls overtake each other and whether launches raise. *)
(*                                                                         *)
(* Aligned alone is not inductive: it does not say that a listed process   *)
(* still runs, nor that a listed round still has an entry to wait for, and *)
(* both are lost together with the round if they are ever false.  IInv     *)
(* adds them.                                                              *)
(***************************************************************************)
EXTENDS ExternalSource, TLAPS

\* Unless the latest call was cut short, every listed process still runs.
ListedRuns ==
  ~raised /\ theTasks # Nil =>
    \A i \in DOMAIN theTasks : theTasks[i] = Null \/ theTasks[i] \in running

\* A listed round with entries has one that is not Null.
NotAllEnded == theTasks \notin {Nil, <<>>} => ~AllTasksEnded(theTasks)

IInv == /\ TypeOK
        /\ DueWhileListed
        /\ NotAllEnded
        /\ Aligned
        /\ ListedRuns

-----------------------------------------------------------------------------
\* The index found for an ended process is one of theTasks where it is listed.
LEMMA IndexOfListed ==
  ASSUME theTasks # Nil, NEW t, Found(t)
  PROVE  IndexOf(t) \in DOMAIN theTasks /\ theTasks[IndexOf(t)] = t
BY DEF Found, IndexOf, Range

LEMMA InitIInv == Init => IInv
BY NilAssumption
DEF Init, IInv, TypeOK, DueWhileListed, NotAllEnded, Aligned, ListedRuns

\* Launching the processes of a round gives a round that satisfies the
\* invariant, whatever was there before.
LEMMA ScoreUsersIInv ==
  ASSUME IInv, NEW us \in Requests, NEW c \in Calls, ScoreUsers(us, c)
  PROVE  IInv'
<1>1. us \in Seq(Users) /\ us # Nil
  BY RequestsAssumption, NilAssumption
<1>2. DOMAIN us = 1..Len(us) /\ \A i \in DOMAIN us : us[i] \in Users
  BY <1>1
<1>3. \A i \in DOMAIN us : TaskOf(us[i], c) \in Task
  BY <1>2 DEF TaskOf, Task
<1>4. theTasks' \in Seq(Task \cup {Null})
  BY <1>1, <1>2, <1>3 DEF ScoreUsers
<1>5. theTasks' # Nil
  BY <1>4, NilAssumption
<1>6. \A i \in DOMAIN theTasks' : theTasks'[i] = TaskOf(us[i], c)
  BY DEF ScoreUsers
<1>7. \A i \in DOMAIN us : TaskOf(us[i], c) \in running'
  BY DEF ScoreUsers, Range
<1>8. TypeOK'
  <2>1. running' \in SUBSET Task
    BY <1>2 DEF ScoreUsers, IInv, TypeOK, Range, TaskOf, Task
  <2> QED
    BY <2>1, <1>4 DEF ScoreUsers, IInv, TypeOK
<1>9. DueWhileListed'
  BY <1>5 DEF ScoreUsers, DueWhileListed
<1>10. NotAllEnded'
  <2> SUFFICES ASSUME theTasks' # <<>> PROVE ~AllTasksEnded(theTasks')
    BY <1>5 DEF NotAllEnded
  <2>1. 1 \in DOMAIN theTasks'
    BY <1>4
  <2>2. theTasks'[1] # Null
    BY <2>1, <1>3, <1>6, NilAssumption DEF ScoreUsers
  <2> QED
    BY <2>1, <2>2, <1>5 DEF AllTasksEnded
<1>11. Aligned'
  BY <1>1, <1>5, <1>6 DEF ScoreUsers, Aligned
<1>12. ListedRuns'
  BY <1>6, <1>7 DEF ScoreUsers, ListedRuns
<1> QED
  BY <1>8, <1>9, <1>10, <1>11, <1>12 DEF IInv

\* A launch that raises leaves theTasks alone; what Aligned and ListedRuns say
\* is not claimed until the next complete call.
LEMMA ScoreUsersRaisesIInv ==
  ASSUME IInv, NEW us \in Requests, NEW c \in Calls, NEW k \in 0..Len(us),
         ScoreUsersRaises(us, c, k)
  PROVE  IInv'
<1>1. us \in Seq(Users)
  BY RequestsAssumption
<1>2. \A i \in 1..k : us[i] \in Users
  BY <1>1 DEF ScoreUsersRaises
<1>3. running' \in SUBSET Task
  BY <1>2 DEF ScoreUsersRaises, IInv, TypeOK, TaskOf, Task
<1>4. TypeOK'
  BY <1>3 DEF ScoreUsersRaises, IInv, TypeOK
<1>5. raised' /\ UNCHANGED <<theTasks, answer>>
  BY DEF ScoreUsersRaises
<1> QED
  BY <1>4, <1>5
  DEF IInv, DueWhileListed, NotAllEnded, AllTasksEnded, Aligned, ListedRuns

-----------------------------------------------------------------------------
\* What informIfAllTasksEnded leaves is either nothing or the tasks it was
\* given, one of them not ended.
LEMMA Informing ==
  ASSUME NEW tasks \in Seq(Task \cup {Null}) \cup {Nil},
         answer \in {"none", "due", "given", "repeated"},
         InformIfAllTasksEnded(tasks)
  PROVE  /\ \/ theTasks' = Nil /\ theUsersRetained' = Nil /\ answer' # "due"
            \/ theTasks' = tasks /\ tasks # Nil /\ ~AllTasksEnded(tasks)
                  /\ UNCHANGED <<theUsersRetained, answer>>
         /\ answer' \in {"none", "due", "given", "repeated"}
BY DEF InformIfAllTasksEnded, AllTasksEnded

\* The end of a process that is not listed.  Were theTasks nil it would have
\* been found, so a round is listed and none of its running processes is t.
LEMMA EndIgnoredIInv ==
  ASSUME IInv, NEW t \in Task, TaskEnded(t), EndIgnored(t)
  PROVE  IInv'
<1>1. UNCHANGED <<theUsersRetained, theTasks, score, answer, round, raised>>
      /\ running' = running \ {t}
  BY DEF TaskEnded, EndIgnored
<1>2. TypeOK' /\ DueWhileListed' /\ NotAllEnded' /\ Aligned'
  BY <1>1 DEF IInv, TypeOK, DueWhileListed, NotAllEnded, AllTasksEnded, Aligned,
              ScoredInRound
<1>3. ListedRuns'
  BY <1>1 DEF IInv, ListedRuns, EndIgnored, Found, Range
<1> QED
  BY <1>1, <1>2, <1>3 DEF IInv

\* An index past the end of theUsersRetained means that the latest call was cut
\* short: after a complete one the arrays have one length.
LEMMA EndRaisesOnlyAfterRaise ==
  ASSUME IInv, NEW t, EndRaises(t)
  PROVE  raised
<1>1. SUFFICES ASSUME ~raised PROVE FALSE
  OBVIOUS
<1>2. theUsersRetained # Nil /\ IndexOf(t) \notin DOMAIN theUsersRetained
  BY DEF EndRaises, InRange
<1>3. theTasks # Nil /\ DOMAIN theTasks = DOMAIN theUsersRetained
  BY <1>1, <1>2 DEF IInv, Aligned
<1> QED
  BY <1>2, <1>3, IndexOfListed DEF EndRaises

LEMMA EndRaisesIInv ==
  ASSUME IInv, NEW t \in Task, TaskEnded(t), EndRaises(t)
  PROVE  IInv'
<1>1. UNCHANGED <<theUsersRetained, theTasks, score, answer, round, raised>>
      /\ running' = running \ {t}
  BY DEF TaskEnded, EndRaises
<1>2. raised
  BY EndRaisesOnlyAfterRaise
<1> QED
  BY <1>1, <1>2 DEF IInv, TypeOK, DueWhileListed, NotAllEnded, AllTasksEnded,
                    Aligned, ListedRuns

\* After a complete call the entry found for an ended process is the one of the
\* persona the process was run for, and of no other.
LEMMA OwnEntry ==
  ASSUME IInv, ~raised, theTasks # Nil, NEW t \in Task, Found(t)
  PROVE  /\ IndexOf(t) \in DOMAIN theUsersRetained
         /\ t = TaskOf(theUsersRetained[IndexOf(t)], round)
         /\ \A j \in DOMAIN theTasks :
              j # IndexOf(t) => /\ theTasks[j] # t
                                /\ theUsersRetained[j] # theUsersRetained[IndexOf(t)]
<1>1. IndexOf(t) \in DOMAIN theTasks /\ theTasks[IndexOf(t)] = t
  BY IndexOfListed
<1>2. t # Null
  BY NilAssumption
<1>3. /\ DOMAIN theTasks = DOMAIN theUsersRetained
      /\ \A i \in DOMAIN theTasks :
           theTasks[i] = Null \/ theTasks[i] = TaskOf(theUsersRetained[i], round)
  BY DEF IInv, Aligned
<1>4. theUsersRetained \in Requests
  BY DEF IInv, Aligned, TypeOK
<1>5. \A j \in DOMAIN theUsersRetained :
        j # IndexOf(t) => theUsersRetained[j] # theUsersRetained[IndexOf(t)]
  BY <1>1, <1>3, <1>4, RequestsAssumption DEF IsInjective
<1>6. t = TaskOf(theUsersRetained[IndexOf(t)], round)
  BY <1>1, <1>2, <1>3
<1>7. \A j \in DOMAIN theTasks : j # IndexOf(t) => theTasks[j] # t
  BY <1>2, <1>3, <1>5, <1>6 DEF TaskOf
<1> QED
  BY <1>1, <1>3, <1>5, <1>6, <1>7

\* The tasks taskEnded: hands to informIfAllTasksEnded.
Marked(t) == IF theTasks = Nil THEN Nil ELSE [theTasks EXCEPT ![IndexOf(t)] = Null]

LEMMA MarkedType ==
  ASSUME IInv, NEW t, Found(t)
  PROVE  /\ Marked(t) \in Seq(Task \cup {Null}) \cup {Nil}
         /\ theTasks # Nil => Marked(t) # Nil
<1>1. CASE theTasks = Nil
  BY <1>1 DEF Marked
<1>2. CASE theTasks # Nil
  <2>1. theTasks \in Seq(Task \cup {Null})
    BY <1>2 DEF IInv, TypeOK
  <2>2. IndexOf(t) \in 1..Len(theTasks)
    BY <1>2, <2>1, IndexOfListed
  <2>3. [theTasks EXCEPT ![IndexOf(t)] = Null] \in Seq(Task \cup {Null})
    BY <2>1, <2>2
  <2> QED
    BY <1>2, <2>3, NilAssumption DEF Marked
<1> QED
  BY <1>1, <1>2

\* The end of a process that was found: its persona is scored, its entry becomes
\* NSNull, and the round is over or still has an entry to wait for.
LEMMA EndScoredIInv ==
  ASSUME IInv, NEW t \in Task, TaskEnded(t), EndScored(t)
  PROVE  IInv'
<1>1. /\ running' = running \ {t}
      /\ UNCHANGED <<round, raised>>
      /\ Found(t)
      /\ InformIfAllTasksEnded(Marked(t))
      /\ score' = IF theUsersRetained = Nil THEN score
                  ELSE [score EXCEPT ![theUsersRetained[IndexOf(t)]] = t]
  BY DEF TaskEnded, EndScored, Marked
<1>2. /\ \/ theTasks' = Nil /\ theUsersRetained' = Nil /\ answer' # "due"
         \/ theTasks' = Marked(t) /\ Marked(t) # Nil /\ ~AllTasksEnded(Marked(t))
               /\ UNCHANGED <<theUsersRetained, answer>>
      /\ answer' \in {"none", "due", "given", "repeated"}
  BY <1>1, MarkedType, Informing DEF IInv, TypeOK
<1>3. TypeOK'
  <2>1. score' \in [Users -> Task \cup {Null}]
    BY <1>1 DEF IInv, TypeOK
  <2>2. theTasks' \in Seq(Task \cup {Null}) \cup {Nil}
    BY <1>1, <1>2, MarkedType
  <2>3. theUsersRetained' \in Requests \cup {Nil}
    BY <1>2 DEF IInv, TypeOK
  <2> QED
    BY <1>1, <1>2, <2>1, <2>2, <2>3 DEF IInv, TypeOK
<1>4. CASE theTasks' = Nil /\ theUsersRetained' = Nil /\ answer' # "due"
  BY <1>3, <1>4 DEF IInv, DueWhileListed, NotAllEnded, Aligned, ListedRuns
<1>5. CASE /\ theTasks' = Marked(t) /\ Marked(t) # Nil
           /\ ~AllTasksEnded(Marked(t))
           /\ UNCHANGED <<theUsersRetained, answer>>
  <2>1. theTasks # Nil
    BY <1>5 DEF Marked
  <2>2. theTasks' # Nil /\ theTasks' = [theTasks EXCEPT ![IndexOf(t)] = Null]
    BY <1>5, <2>1 DEF Marked
  <2>3. DueWhileListed'
    BY <1>5, <2>1, <2>2 DEF IInv, DueWhileListed
  <2>4. NotAllEnded'
    BY <1>5 DEF NotAllEnded, AllTasksEnded
  <2>5. ASSUME ~raised PROVE Aligned' /\ ListedRuns'
    <3> DEFINE i == IndexOf(t)
               own == theUsersRetained[i]
    <3>1. /\ i \in DOMAIN theUsersRetained
          /\ t = TaskOf(own, round)
          /\ \A j \in DOMAIN theTasks :
               j # i => theTasks[j] # t /\ theUsersRetained[j] # own
      BY <1>1, <2>1, <2>5, OwnEntry
    <3>2. /\ theUsersRetained # Nil
          /\ DOMAIN theTasks = DOMAIN theUsersRetained
          /\ \A j \in DOMAIN theTasks :
               \/ theTasks[j] = Null /\ ScoredInRound(theUsersRetained[j])
               \/ theTasks[j] = TaskOf(theUsersRetained[j], round)
      BY <2>1, <2>5 DEF IInv, Aligned
    <3>3. theUsersRetained \in Seq(Users)
      BY <3>2, RequestsAssumption DEF IInv, TypeOK
    <3>4. \A j \in DOMAIN theUsersRetained : theUsersRetained[j] \in Users
      BY <3>3
    <3>5. score' = [score EXCEPT ![own] = t]
      BY <1>1, <3>2
    <3>6. score'[own] = t
      BY <3>1, <3>4, <3>5 DEF IInv, TypeOK
    <3>7. \A j \in DOMAIN theTasks :
            j # i => score'[theUsersRetained[j]] = score[theUsersRetained[j]]
      BY <3>1, <3>2, <3>4, <3>5 DEF IInv, TypeOK
    <3>8. DOMAIN theTasks' = DOMAIN theTasks
      BY <2>2
    <3>9. theTasks'[i] = Null
      BY <2>2, <3>1, <3>2
    <3>10. \A j \in DOMAIN theTasks : j # i => theTasks'[j] = theTasks[j]
      BY <2>2
    <3>11. ASSUME NEW j \in DOMAIN theTasks'
           PROVE  \/ theTasks'[j] = Null /\ score'[theUsersRetained[j]] = TaskOf(theUsersRetained[j], round)
                  \/ theTasks'[j] = TaskOf(theUsersRetained[j], round)
      <4>1. CASE j = i
        BY <4>1, <3>1, <3>6, <3>9
      <4>2. CASE j # i
        BY <4>2, <3>2, <3>7, <3>8, <3>10 DEF ScoredInRound
      <4> QED
        BY <4>1, <4>2
    <3>12. Aligned'
      BY <1>1, <1>5, <2>2, <3>2, <3>8, <3>11 DEF Aligned, ScoredInRound, TaskOf
    <3>13. ASSUME NEW j \in DOMAIN theTasks', theTasks'[j] # Null
           PROVE  theTasks'[j] \in running'
      <4>1. j # i
        BY <3>9, <3>13
      <4>2. theTasks'[j] = theTasks[j] /\ theTasks[j] # t
        BY <4>1, <3>1, <3>8, <3>10
      <4>3. theTasks[j] \in running
        BY <2>1, <2>5, <4>2, <3>8, <3>13 DEF IInv, ListedRuns
      <4> QED
        BY <1>1, <4>2, <4>3
    <3>14. ListedRuns'
      BY <3>13 DEF ListedRuns
    <3> QED
      BY <3>12, <3>14
  <2>6. Aligned' /\ ListedRuns'
    BY <1>1, <2>5 DEF Aligned, ListedRuns
  <2> QED
    BY <1>3, <2>3, <2>4, <2>6 DEF IInv
<1> QED
  BY <1>2, <1>4, <1>5

-----------------------------------------------------------------------------
\* Every step, of the caller or of a process's end, preserves the invariant.
LEMMA NextIInv == IInv /\ [Next]_vars => IInv'
<1> SUFFICES ASSUME IInv, [Next]_vars PROVE IInv'
  OBVIOUS
<1>1. ASSUME NEW us \in Requests, NEW c \in Calls, ScoreUsers(us, c) PROVE IInv'
  BY <1>1, ScoreUsersIInv
<1>2. ASSUME NEW us \in Requests, NEW c \in Calls, NEW k \in 0..Len(us),
             ScoreUsersRaises(us, c, k)
      PROVE  IInv'
  BY <1>2, ScoreUsersRaisesIInv
<1>3. ASSUME NEW t \in Task, TaskEnded(t) PROVE IInv'
  <2>1. EndIgnored(t) \/ EndRaises(t) \/ EndScored(t)
    BY <1>3 DEF TaskEnded
  <2> QED
    BY <1>3, <2>1, EndIgnoredIInv, EndRaisesIInv, EndScoredIInv
<1>4. CASE UNCHANGED vars
  BY <1>4 DEF vars, IInv, TypeOK, DueWhileListed, NotAllEnded, AllTasksEnded,
              Aligned, ScoredInRound, ListedRuns
<1> QED
  BY <1>1, <1>2, <1>3, <1>4 DEF Next

\* The inductive invariant holds in every state of every behaviour.
THEOREM Invariance == Spec => []IInv
<1> QED
  BY InitIInv, NextIInv, PTL DEF Spec

\* The variables keep their types: in particular theTasks never holds anything
\* but tasks and NSNull, and theUsersRetained is nil or an array some call got.
THEOREM TypeCorrect == Spec => []TypeOK
<1>1. IInv => TypeOK
  BY DEF IInv
<1> QED
  BY <1>1, Invariance, PTL

\* The parallel arrays of scoreUsersInArray: and taskEnded: match after every
\* complete call, for any number of personae and overtaken calls.
THEOREM ArraysAligned == Spec => []Aligned
<1>1. IInv => Aligned
  BY DEF IInv
<1> QED
  BY <1>1, Invariance, PTL

\* theTasks lists a round exactly while its caller is still to be informed.
THEOREM ListedWhileDue == Spec => []DueWhileListed
<1>1. IInv => DueWhileListed
  BY DEF IInv
<1> QED
  BY <1>1, Invariance, PTL

\* A listed round with processes always has one that still runs, so the
\* notification informIfAllTasksEnded waits for is still to come.
THEOREM RoundFinishable == Spec => []RoundCanFinish
<1>1. IInv => RoundCanFinish
  BY DEF IInv, NotAllEnded, AllTasksEnded, ListedRuns, RoundCanFinish
<1> QED
  BY <1>1, Invariance, PTL

-----------------------------------------------------------------------------
\* After a complete call the end of a process changes no score but the one of
\* the persona the process was run for, which becomes what it printed.
LEMMA OwnScore ==
  ASSUME IInv, ~raised, NEW t \in Task, TaskEnded(t),
         NEW u \in Users, score'[u] # score[u]
  PROVE  EndScored(t) /\ theTasks # Nil /\ u = theUsersRetained[IndexOf(t)]
         /\ t = TaskOf(u, round) /\ score' = [score EXCEPT ![u] = t]
<1>1. EndScored(t)
  BY DEF TaskEnded, EndIgnored, EndRaises
<1>2. /\ theUsersRetained # Nil /\ Found(t)
      /\ score' = [score EXCEPT ![theUsersRetained[IndexOf(t)]] = t]
  BY <1>1 DEF EndScored
<1>3. theTasks # Nil
  BY <1>2 DEF IInv, Aligned
<1>4. u = theUsersRetained[IndexOf(t)]
  BY <1>2 DEF IInv, TypeOK
<1> QED
  BY <1>1, <1>2, <1>3, <1>4, OwnEntry

\* A process's output is only ever given to the persona it was run for, unless
\* the latest call was cut short.
THEOREM OutputBelongs == Spec => ScoreBelongs
<1> DEFINE Step == ~raised => \A u \in Users :
                               score'[u] # score[u] => score'[u].name = u
<1>1. ASSUME IInv, [Next]_vars, ~raised, NEW u \in Users, score'[u] # score[u]
      PROVE  score'[u].name = u
  <2>1. CASE \E t \in Task : TaskEnded(t)
    <3>1. PICK t \in Task : TaskEnded(t)
      BY <2>1
    <3>2. t = TaskOf(u, round) /\ score' = [score EXCEPT ![u] = t]
      BY <1>1, <3>1, OwnScore
    <3>3. score'[u] = t
      BY <1>1, <3>2 DEF IInv, TypeOK
    <3> QED
      BY <3>2, <3>3 DEF TaskOf
  <2>2. CASE ~ \E t \in Task : TaskEnded(t)
    BY <1>1, <2>2 DEF Next, ScoreUsers, ScoreUsersRaises, vars
  <2> QED
    BY <2>1, <2>2
<1>2. IInv /\ [Next]_vars => [Step]_vars
  BY <1>1
<1> QED
  BY <1>2, Invariance, PTL DEF Spec, ScoreBelongs

\* When the caller of a complete call is informed, every persona it asked for
\* has the score this round's own process printed.
THEOREM AnswersComplete == Spec => AnswerIsComplete
<1> DEFINE Step == ~raised /\ answer = "due" /\ answer' = "given" =>
                     \A u \in Range(theUsersRetained) : score'[u] = TaskOf(u, round)
<1>1. ASSUME IInv, [Next]_vars, ~raised, answer = "due", answer' = "given",
             NEW u \in Range(theUsersRetained)
      PROVE  score'[u] = TaskOf(u, round)
  <2>1. PICK t \in Task : TaskEnded(t)
    BY <1>1 DEF Next, ScoreUsers, ScoreUsersRaises, vars
  <2>2. EndScored(t)
    BY <1>1, <2>1 DEF TaskEnded, EndIgnored, EndRaises
  <2>3. Found(t) /\ InformIfAllTasksEnded(Marked(t))
    BY <2>2 DEF EndScored, Marked
  <2>4. theTasks # Nil
    BY <1>1 DEF IInv, DueWhileListed
  <2>5. AllTasksEnded(Marked(t))
    BY <1>1, <2>3 DEF InformIfAllTasksEnded
  <2> DEFINE i == IndexOf(t)
             own == theUsersRetained[i]
  <2>6. /\ i \in DOMAIN theUsersRetained
        /\ t = TaskOf(own, round)
        /\ \A j \in DOMAIN theTasks :
             j # i => theTasks[j] # t /\ theUsersRetained[j] # own
    BY <1>1, <2>3, <2>4, OwnEntry
  <2>7. theUsersRetained # Nil /\ DOMAIN theTasks = DOMAIN theUsersRetained
    BY <1>1, <2>4 DEF IInv, Aligned
  <2>8. \A j \in DOMAIN theUsersRetained : theUsersRetained[j] \in Users
    <3>1. theUsersRetained \in Seq(Users)
      BY <1>1, <2>7, RequestsAssumption DEF IInv, TypeOK
    <3> QED
      BY <3>1
  <2>9. \A j \in DOMAIN theTasks :
           theTasks[j] = Null => score[theUsersRetained[j]] = TaskOf(theUsersRetained[j], round)
    <3>1. \A j \in DOMAIN theTasks : TaskOf(theUsersRetained[j], round) # Null
      BY <1>1, <2>7, <2>8, NilAssumption DEF IInv, TypeOK, TaskOf, Task
    <3> QED
      BY <1>1, <2>4, <3>1 DEF IInv, Aligned, ScoredInRound
  <2>10. score' = [score EXCEPT ![own] = t]
    BY <2>2, <2>7 DEF EndScored
  <2>11. PICK j \in DOMAIN theUsersRetained : u = theUsersRetained[j]
    BY <1>1 DEF Range
  <2>12. CASE j = i
    BY <1>1, <2>6, <2>8, <2>10, <2>11, <2>12 DEF IInv, TypeOK
  <2>13. CASE j # i
    <3>1. Marked(t) # Nil
      BY <1>1, <2>3, <2>4, MarkedType
    <3>2. Marked(t) = [theTasks EXCEPT ![i] = Null]
      BY <2>4 DEF Marked
    <3>3. theTasks[j] = Null
      BY <2>5, <2>7, <2>11, <2>13, <3>1, <3>2 DEF AllTasksEnded
    <3>4. score[u] = TaskOf(u, round) /\ u # own
      BY <2>6, <2>7, <2>11, <2>13, <2>9, <3>3
    <3> QED
      BY <1>1, <2>8, <2>10, <2>11, <3>4 DEF IInv, TypeOK
  <2> QED
    BY <2>12, <2>13
<1>2. IInv /\ [Next]_vars => [Step]_vars
  BY <1>1
<1> QED
  BY <1>2, Invariance, PTL DEF Spec, AnswerIsComplete

-----------------------------------------------------------------------------
\* Unless the latest call was cut short, every process of the latest complete
\* call that still runs is listed: none of them is left once theTasks is nil.
RoundListed ==
  ~raised =>
    \A t \in running : t.call = round => theTasks # Nil /\ t \in Range(theTasks)

\* Replacing one entry by Null keeps the other processes listed.
LEMMA OthersListed ==
  ASSUME IInv, theTasks # Nil, NEW t \in Task, Found(t),
         NEW s \in Range(theTasks), s # t
  PROVE  s \in Range(Marked(t))
<1>1. PICK j \in DOMAIN theTasks : s = theTasks[j]
  BY DEF Range
<1>2. theTasks[IndexOf(t)] = t
  BY IndexOfListed
<1>3. /\ Marked(t) = [theTasks EXCEPT ![IndexOf(t)] = Null]
      /\ DOMAIN Marked(t) = DOMAIN theTasks
  BY DEF Marked
<1>4. j \in DOMAIN Marked(t) /\ Marked(t)[j] = s
  BY <1>1, <1>2, <1>3
<1> QED
  BY <1>4 DEF Range

LEMMA RoundListedStep ==
  ASSUME IInv, RoundListed, [Next]_vars
  PROVE  RoundListed'
<1>1. ASSUME NEW us \in Requests, NEW c \in Calls, ScoreUsers(us, c)
      PROVE  RoundListed'
  <2> SUFFICES ASSUME NEW s \in running', s.call = c
               PROVE  theTasks' # Nil /\ s \in Range(theTasks')
    BY <1>1 DEF RoundListed, ScoreUsers
  <2>1. theTasks' # Nil
    BY <1>1, ScoreUsersIInv DEF IInv, DueWhileListed, ScoreUsers
  <2>2. s \notin running
    BY <1>1 DEF ScoreUsers, Unused
  <2>3. PICK i \in DOMAIN us : s = TaskOf(us[i], c)
    BY <1>1, <2>2 DEF ScoreUsers, Range
  <2>4. DOMAIN theTasks' = DOMAIN us /\ theTasks'[i] = s
    BY <1>1, <2>3 DEF ScoreUsers
  <2> QED
    BY <2>1, <2>4 DEF Range
<1>2. ASSUME NEW us \in Requests, NEW c \in Calls, NEW k \in 0..Len(us),
             ScoreUsersRaises(us, c, k)
      PROVE  RoundListed'
  BY <1>2 DEF RoundListed, ScoreUsersRaises
<1>3. ASSUME NEW t \in Task, TaskEnded(t) PROVE RoundListed'
  <2> SUFFICES ASSUME ~raised, NEW s \in running, s # t, s.call = round
               PROVE  theTasks' # Nil /\ s \in Range(theTasks')
    BY <1>3 DEF RoundListed, TaskEnded
  <2>1. theTasks # Nil /\ s \in Range(theTasks)
    BY DEF RoundListed
  <2>2. CASE EndIgnored(t) \/ EndRaises(t)
    BY <2>1, <2>2 DEF EndIgnored, EndRaises
  <2>3. CASE EndScored(t)
    <3>1. Found(t) /\ InformIfAllTasksEnded(Marked(t))
      BY <2>3 DEF EndScored, Marked
    <3>2. s \in Range(Marked(t)) /\ Marked(t) # Nil
      BY <2>1, <3>1, OthersListed, MarkedType
    <3>3. s # Null
      BY NilAssumption DEF IInv, TypeOK
    <3>4. ~AllTasksEnded(Marked(t))
      BY <3>2, <3>3 DEF AllTasksEnded, Range
    <3> QED
      BY <3>1, <3>2, <3>4 DEF InformIfAllTasksEnded
  <2> QED
    BY <1>3, <2>2, <2>3 DEF TaskEnded
<1>4. CASE UNCHANGED vars
  BY <1>4 DEF vars, RoundListed
<1> QED
  BY <1>1, <1>2, <1>3, <1>4 DEF Next

\* No process of a complete call informs its caller a second time.
THEOREM InformedByLastOnly == Spec => AnsweredOnce
<1> DEFINE Step == ~raised /\ answer = "given" /\ answer' = "repeated" =>
                     \A t \in running \ running' : t.call # round
<1>1. Init => RoundListed
  BY DEF Init, RoundListed
<1>2. IInv /\ RoundListed /\ [Next]_vars => RoundListed'
  BY RoundListedStep
<1>3. IInv /\ RoundListed => Step
  BY DEF IInv, DueWhileListed, RoundListed
<1>4. IInv /\ RoundListed /\ [Next]_vars => [Step]_vars
  BY <1>3
<1>5. Spec => []RoundListed
  BY <1>1, <1>2, Invariance, PTL DEF Spec
<1> QED
  BY <1>4, <1>5, Invariance, PTL DEF Spec, AnsweredOnce

-----------------------------------------------------------------------------
\* A call of scoreUsersInArray: is a Request.
LEMMA ScoreUsersRequests ==
  ASSUME IInv, NEW us \in Requests, NEW c \in Calls, ScoreUsers(us, c)
  PROVE  Abstract!Request(Range(us), c) /\ Range(us) \in SUBSET Users
<1>1. us \in Seq(Users)
  BY RequestsAssumption
<1>2. \A i \in DOMAIN us : us[i] \in Users /\ TaskOf(us[i], c) \in Task
  BY <1>1 DEF TaskOf, Task
<1>3. theTasks' \in Seq(Task \cup {Null})
  BY <1>1, <1>2 DEF ScoreUsers
<1>4. theTasks' # Nil
  BY <1>3, NilAssumption
<1>5. Pending' = DOMAIN us
  BY <1>2, <1>4, NilAssumption DEF Pending, ScoreUsers
<1>6. Waiting' = Range(us)
  BY <1>5 DEF Waiting, ScoreUsers, Range
<1> QED
  BY <1>2, <1>6 DEF Abstract!Request, ScoreUsers, Range

\* The end of a listed process settles its persona.
LEMMA EndSettles ==
  ASSUME IInv, ~raised, NEW t \in Task, TaskEnded(t), EndScored(t), theTasks # Nil
  PROVE  \E u \in Users : Abstract!Settle(u)
<1> DEFINE i == IndexOf(t)
           own == theUsersRetained[i]
<1>1. Found(t) /\ InformIfAllTasksEnded(Marked(t))
  BY DEF EndScored, Marked
<1>2. i \in DOMAIN theTasks /\ theTasks[i] = t
  BY <1>1, IndexOfListed
<1>3. /\ t = TaskOf(own, round)
      /\ \A j \in DOMAIN theTasks : j # i => theUsersRetained[j] # own
  BY <1>1, OwnEntry
<1>4. theUsersRetained # Nil /\ DOMAIN theTasks = DOMAIN theUsersRetained
  BY DEF IInv, Aligned
<1>5. own \in Users
  <2>1. theUsersRetained \in Seq(Users)
    BY <1>4, RequestsAssumption DEF IInv, TypeOK
  <2> QED
    BY <1>2, <1>4, <2>1
<1>6. score' = [score EXCEPT ![own] = [name |-> own, call |-> round]]
  BY <1>3, <1>4 DEF EndScored, TaskOf
<1>7. i \in Pending
  BY <1>2, NilAssumption DEF Pending
<1>8. own \in Waiting
  BY <1>7 DEF Waiting
<1>9. answer = "due"
  BY DEF IInv, DueWhileListed
<1>10. Waiting \ {own} = {theUsersRetained[j] : j \in Pending \ {i}}
  BY <1>3, <1>7 DEF Waiting, Pending
<1>11. Marked(t) # Nil /\ Marked(t) = [theTasks EXCEPT ![i] = Null]
  BY <1>1, MarkedType DEF Marked
<1>12. \A j \in DOMAIN theTasks : Marked(t)[j] # Null <=> j \in Pending \ {i}
  BY <1>2, <1>11 DEF Pending
<1>13. CASE AllTasksEnded(Marked(t))
  <2>1. theTasks' = Nil /\ answer' = "given"
    BY <1>1, <1>9, <1>13 DEF InformIfAllTasksEnded
  <2>2. Pending \ {i} = {}
    BY <1>11, <1>12, <1>13 DEF AllTasksEnded, Pending
  <2>3. Waiting' = {}
    BY <2>1 DEF Waiting, Pending
  <2>4. Waiting' = Waiting \ {own}
    BY <1>10, <2>2, <2>3
  <2> QED
    BY <1>5, <1>6, <1>8, <2>1, <2>3, <2>4 DEF Abstract!Settle, TaskEnded
<1>14. CASE ~AllTasksEnded(Marked(t))
  <2>1. theTasks' = Marked(t) /\ UNCHANGED <<theUsersRetained, answer>>
    BY <1>1, <1>14 DEF InformIfAllTasksEnded
  <2>2. Pending' = Pending \ {i}
    BY <1>11, <1>12, <2>1 DEF Pending
  <2>3. Waiting' = Waiting \ {own}
    BY <1>10, <2>1, <2>2 DEF Waiting
  <2> QED
    BY <1>5, <1>6, <1>8, <2>1, <2>3 DEF Abstract!Settle, TaskEnded
<1> QED
  BY <1>13, <1>14

\* Any other end of a process changes nothing the caller can see.
LEMMA OtherEndsStutter ==
  ASSUME IInv, ~raised, NEW t \in Task, TaskEnded(t), ~EndScored(t) \/ theTasks = Nil
  PROVE  UNCHANGED Abstract!vars
<1>1. CASE ~EndScored(t)
  <2>1. UNCHANGED <<theUsersRetained, theTasks, score, answer, round>>
    BY <1>1 DEF TaskEnded, EndIgnored, EndRaises
  <2> QED
    BY <2>1 DEF Abstract!vars, Waiting, Pending
<1>2. CASE EndScored(t) /\ theTasks = Nil
  <2>1. theUsersRetained = Nil
    BY <1>2 DEF IInv, Aligned
  <2>2. score' = score /\ InformIfAllTasksEnded(Nil) /\ round' = round
    BY <1>2, <2>1 DEF EndScored, TaskEnded
  <2>3. theTasks' = Nil
    BY <2>2 DEF InformIfAllTasksEnded, AllTasksEnded
  <2>4. answer # "due" /\ answer' # "due"
    BY <1>2, <2>2 DEF IInv, TypeOK, DueWhileListed, InformIfAllTasksEnded, AllTasksEnded
  <2>5. Waiting = {} /\ Waiting' = {}
    BY <1>2, <2>3 DEF Waiting, Pending
  <2> QED
    BY <2>2, <2>4, <2>5 DEF Abstract!vars
<1> QED
  BY <1>1, <1>2

\* ExternalSource keeps the promise of Source.h: however calls overtake each other,
\* every step of it is one of Scoring's or changes nothing the caller can see, but
\* after an exception that cut a call short, and then until the next complete call.
THEOREM Implementation == Spec => ImplementsScoring
<1>1. Init => Abstract!Init
  BY DEF Init, Abstract!Init, Waiting, Pending
<1>2. ASSUME IInv, [Next]_vars PROVE [raised' \/ Abstract!Next]_(Abstract!vars)
  <2>1. ASSUME NEW us \in Requests, NEW c \in Calls, ScoreUsers(us, c)
        PROVE  Abstract!Next
    BY <1>2, <2>1, ScoreUsersRequests DEF Abstract!Next
  <2>2. ASSUME NEW us \in Requests, NEW c \in Calls, NEW k \in 0..Len(us),
               ScoreUsersRaises(us, c, k)
        PROVE  raised'
    BY <2>2 DEF ScoreUsersRaises
  <2>3. ASSUME NEW t \in Task, TaskEnded(t), ~raised
        PROVE  Abstract!Next \/ UNCHANGED Abstract!vars
    BY <1>2, <2>3, EndSettles, OtherEndsStutter DEF Abstract!Next
  <2>4. ASSUME NEW t \in Task, TaskEnded(t), raised PROVE raised'
    BY <2>4 DEF TaskEnded
  <2>5. CASE UNCHANGED vars
    BY <2>5 DEF vars, Abstract!vars, Waiting, Pending
  <2> QED
    BY <1>2, <2>1, <2>2, <2>3, <2>4, <2>5 DEF Next
<1> QED
  BY <1>1, <1>2, Invariance, PTL DEF Spec, ImplementsScoring
=============================================================================
