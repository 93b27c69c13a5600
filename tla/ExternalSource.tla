--------------------------- MODULE ExternalSource ---------------------------
(***************************************************************************)
(* SourceImplementations/ExternalSource/ExternalSource.m: the source that  *)
(* scores personae by running an external program, one process (NSTask)    *)
(* per persona, all at the same time.  theTasks and theUsersRetained are   *)
(* parallel arrays: the process at an index scores the persona at the same *)
(* index, and an entry of theTasks becomes NSNull when its process ended.  *)
(*                                                                         *)
(* The program runs on one main thread, so each method is one action; the  *)
(* processes run beside it, and NSTaskDidTerminateNotification is          *)
(* delivered between two methods, for every process of the program and in  *)
(* any order.  What a process prints is abstracted to the task itself: the *)
(* persona its %name% parameter stands for and the call that launched it.  *)
(***************************************************************************)
EXTENDS Naturals, Sequences, Functions

CONSTANTS
  Users,     \* the personae
  Calls,     \* identities of calls of scoreUsersInArray: (one is reused when
             \* no process of it is left)
  Nil,       \* the Objective-C nil of theTasks and theUsersRetained
  Null,      \* [NSNull null] in theTasks; the score of a persona not yet scored
  Requests   \* the arrays of personae a caller may pass

Task == [name : Users, call : Calls]

ASSUME RequestsAssumption ==
  \A us \in Requests : us \in Seq(Users) /\ IsInjective(us)

ASSUME NilAssumption ==
  /\ Nil \notin Requests
  /\ Nil \notin Seq(Task \cup {Null})
  /\ Null \notin Task

VARIABLES
  theUsersRetained, \* the personae of the latest call, or Nil
  theTasks,         \* their processes, Null once ended, or Nil
  running,          \* the processes that have not been reported as ended
  score,            \* theScore of each persona, as the task that printed it
  answer,           \* history: what the latest complete call has had so far:
                    \* "none" there was none (objectToInform is nil), "due" the
                    \* caller is not informed yet, "given" it was informed once,
                    \* "repeated" more than once
  round,            \* history: the latest complete call
  raised            \* history: the latest call was cut short by an exception

vars == <<theUsersRetained, theTasks, running, score, answer, round, raised>>

TypeOK ==
  /\ theUsersRetained \in Requests \cup {Nil}
  /\ theTasks \in Seq(Task \cup {Null}) \cup {Nil}
  /\ running \in SUBSET Task
  /\ score \in [Users -> Task \cup {Null}]
  /\ answer \in {"none", "due", "given", "repeated"}
  /\ round \in Calls
  /\ raised \in BOOLEAN

Init ==
  /\ theUsersRetained = Nil
  /\ theTasks = Nil
  /\ running = {}
  /\ score = [u \in Users |-> Null]
  /\ answer = "none"
  /\ round \in Calls
  /\ raised = FALSE

-----------------------------------------------------------------------------
\* The process that scores persona u in call c.
TaskOf(u, c) == [name |-> u, call |-> c]

\* A process object of its own for each process: c is not the call of one that
\* still runs or is still listed.
Unused(c) ==
  /\ \A t \in running : t.call # c
  /\ theTasks # Nil => \A t \in Range(theTasks) \ {Null} : t.call # c

\* Mutant: theUsersRetained is set only once, "if (theUsersRetained == nil)".
ScoreUsersKeepsUsers(us, c) ==
  /\ Unused(c)
  /\ theUsersRetained' = IF theUsersRetained = Nil THEN us ELSE theUsersRetained
  /\ theTasks' = [i \in DOMAIN us |-> TaskOf(us[i], c)]
  /\ running' = running \cup {TaskOf(u, c) : u \in Range(us)}
  /\ answer' = "due" /\ round' = c /\ raised' = FALSE
  /\ UNCHANGED score

\* Mutant: the tasks of an earlier call are kept while there are any.
ScoreUsersKeepsTasks(us, c) ==
  /\ Unused(c)
  /\ theUsersRetained' = us
  /\ theTasks' = IF theTasks = Nil THEN [i \in DOMAIN us |-> TaskOf(us[i], c)] ELSE theTasks
  /\ running' = running \cup {TaskOf(u, c) : u \in Range(us)}
  /\ answer' = "due" /\ round' = c /\ raised' = FALSE
  /\ UNCHANGED score

(***************************************************************************)
(* scoreUsersInArray:inform:bySending: launches a process for every        *)
(* persona, and only then replaces theTasks: processes of an earlier call  *)
(* are forgotten, not terminated.  An array of no personae gives theTasks  *)
(* no entries.                                                             *)
(***************************************************************************)
ScoreUsers(us, c) ==
  /\ Unused(c)
  /\ theUsersRetained' = us
  /\ theTasks' = [i \in DOMAIN us |-> TaskOf(us[i], c)]
  /\ running' = running \cup {TaskOf(u, c) : u \in Range(us)}
  /\ answer' = "due"
  /\ round' = c
  /\ raised' = FALSE
  /\ UNCHANGED score

(***************************************************************************)
(* The same method when the launch of process k+1 raises: the run loop     *)
(* catches the exception.  theUsersRetained is the new array by then,      *)
(* theTasks, objectToInform and selectorToPerform are still the old ones,  *)
(* and the k processes launched run without being recorded.                *)
(***************************************************************************)
ScoreUsersRaises(us, c, k) ==
  /\ Unused(c)
  /\ k < Len(us)
  /\ theUsersRetained' = us
  /\ running' = running \cup {TaskOf(us[i], c) : i \in 1..k}
  /\ raised' = TRUE
  /\ UNCHANGED <<theTasks, score, answer, round>>

-----------------------------------------------------------------------------
\* [theTasks indexOfObject: endedTask] finds something: the process is listed,
\* or theTasks is nil, where the message returns the index of the first entry.
Found(t) == theTasks # Nil => t \in Range(theTasks)

IndexOf(t) ==
  IF theTasks = Nil THEN 1 ELSE CHOOSE i \in DOMAIN theTasks : theTasks[i] = t

\* [theUsersRetained objectAtIndex:] raises for an index past the end; sent to
\* nil it returns nil.
InRange(t) == theUsersRetained # Nil => IndexOf(t) \in DOMAIN theUsersRetained

\* Mutant: allTasksEnded is assigned in the loop, not and-ed: the last entry counts.
LastTaskEnded(tasks) == tasks # Nil /\ tasks # <<>> => tasks[Len(tasks)] = Null

AllTasksEnded(tasks) ==
  tasks # Nil => \A i \in DOMAIN tasks : tasks[i] = Null

\* informIfAllTasksEnded, with theTasks as taskEnded: has left it.
InformIfAllTasksEnded(tasks) ==
  IF AllTasksEnded(tasks)
  THEN /\ theTasks' = Nil
       /\ theUsersRetained' = Nil
       /\ answer' = CASE answer = "none" -> "none"
                      [] answer = "due"  -> "given"
                      [] OTHER           -> "repeated"
  ELSE /\ theTasks' = tasks
       /\ UNCHANGED <<theUsersRetained, answer>>

\* A process theTasks does not know: the early return.
EndIgnored(t) ==
  /\ ~Found(t)
  /\ UNCHANGED <<theUsersRetained, theTasks, score, answer>>

\* objectAtIndex: raises before the entry of the process is replaced.
EndRaises(t) ==
  /\ Found(t) /\ ~InRange(t)
  /\ UNCHANGED <<theUsersRetained, theTasks, score, answer>>

\* Mutant: informIfAllTasksEnded is sent before the entry is replaced.
EndScoredInformsFirst(t) ==
  /\ Found(t) /\ InRange(t)
  /\ score' = IF theUsersRetained = Nil THEN score
              ELSE [score EXCEPT ![theUsersRetained[IndexOf(t)]] = t]
  /\ IF AllTasksEnded(theTasks)
     THEN InformIfAllTasksEnded(theTasks)
     ELSE /\ theTasks' = [theTasks EXCEPT ![IndexOf(t)] = Null]
          /\ UNCHANGED <<theUsersRetained, answer>>

\* The persona at the index gets what the process printed, the entry becomes
\* NSNull, and the caller is informed if it was the last one.
EndScored(t) ==
  /\ Found(t) /\ InRange(t)
  /\ score' = IF theUsersRetained = Nil THEN score
              ELSE [score EXCEPT ![theUsersRetained[IndexOf(t)]] = t]
  /\ InformIfAllTasksEnded(
       IF theTasks = Nil THEN Nil ELSE [theTasks EXCEPT ![IndexOf(t)] = Null])

\* taskEnded:
TaskEnded(t) ==
  /\ t \in running
  /\ running' = running \ {t}
  /\ EndIgnored(t) \/ EndRaises(t) \/ EndScored(t)
  /\ UNCHANGED <<round, raised>>

-----------------------------------------------------------------------------
Next ==
  \/ \E us \in Requests, c \in Calls : ScoreUsers(us, c)
  \/ \E us \in Requests, c \in Calls :
       \E k \in 0..Len(us) : ScoreUsersRaises(us, c, k)
  \/ \E t \in Task : TaskEnded(t)

Spec == Init /\ [][Next]_vars

\* Every process ends, and the run loop delivers its notification.
FairSpec == Spec /\ \A t \in Task : WF_vars(TaskEnded(t))

-----------------------------------------------------------------------------
\* The score of persona u is what this round's process printed for it.
ScoredInRound(u) == score[u] = TaskOf(u, round)

\* Unless the latest call was cut short, the parallel arrays match: both are
\* nil or have one length, and each entry of theTasks is this round's running
\* process for the persona at the same index, or Null, the persona then having
\* the score that process printed.
Aligned ==
  ~raised =>
    /\ theTasks = Nil <=> theUsersRetained = Nil
    /\ theTasks # Nil =>
         /\ DOMAIN theTasks = DOMAIN theUsersRetained
         /\ \A i \in DOMAIN theTasks :
              \/ theTasks[i] = Null /\ ScoredInRound(theUsersRetained[i])
              \/ theTasks[i] = TaskOf(theUsersRetained[i], round)

\* A round of at least one process can always be finished: unless the latest
\* call was cut short, some entry of theTasks is a process that still runs, so
\* that its end will be noticed.  (A round whose processes are all gone would
\* never inform anybody.)
RoundCanFinish ==
  ~raised /\ theTasks \notin {Nil, <<>>} =>
    \E i \in DOMAIN theTasks : theTasks[i] \in running

\* Somebody is waiting for an answer exactly while tasks are listed: however
\* calls, exceptions and late notifications interleave, no listed round belongs
\* to a caller already informed and no caller is forgotten by clearing theTasks.
DueWhileListed == answer = "due" <=> theTasks # Nil

\* Unless the latest call was cut short, a process's output is only ever given
\* to the persona it was run for, however late it ends.
ScoreBelongs ==
  [][~raised => \A u \in Users : score'[u] # score[u] => score'[u].name = u]_vars

\* The caller is informed of a round only once every persona it asked for has
\* the score this round's process printed for it.
AnswerIsComplete ==
  [][~raised /\ answer = "due" /\ answer' = "given" =>
       \A u \in Range(theUsersRetained) : score'[u] = TaskOf(u, round)]_vars

\* Once its caller is informed, no process of a complete call informs it again:
\* what comes too early never counts as the last one.  (A late process of an
\* overtaken call does inform it again: with theTasks nil, every end is found.)
AnsweredOnce ==
  [][~raised /\ answer = "given" /\ answer' = "repeated" =>
       \A t \in running \ running' : t.call # round]_vars

\* The caller of a complete call whose array holds a persona is informed in the
\* end, unless a new call or an exception comes first: however late and in
\* whatever order processes of this call and of earlier ones end.
Unanswered(c) == ~raised /\ theTasks # <<>> /\ answer = "due" /\ round = c
AnsweredUnlessReplaced == \A c \in Calls : Unanswered(c) ~> ~Unanswered(c)

-----------------------------------------------------------------------------
\* The personae still waiting for their score are the ones whose entry in
\* theTasks is not Null.
Pending == IF theTasks = Nil THEN {} ELSE {i \in DOMAIN theTasks : theTasks[i] # Null}
Waiting == {theUsersRetained[i] : i \in Pending}

Abstract == INSTANCE Scoring WITH waiting <- Waiting, owed <- (answer = "due")

\* ExternalSource implements what Source.h promises, one persona settled by each
\* process's end.  Only a call that an exception cuts short, and the processes that end
\* after it, break the promise; the next complete call keeps it again, whatever was left
\* behind.
ImplementsScoring == Abstract!Init /\ [][raised' \/ Abstract!Next]_(Abstract!vars)
=============================================================================
