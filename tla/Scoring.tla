------------------------------ MODULE Scoring ------------------------------
(***************************************************************************)
(* What a Source promises to its caller (Model/Source.h, the comment of    *)
(* scoreUsersInArray:inform:bySending:): it calculates the score of every  *)
(* persona of the array and, when done, informs the caller by sending the  *)
(* selector.                                                               *)
(*                                                                         *)
(* A score is abstracted to where it comes from: a record naming the       *)
(* persona it was calculated for and the call it was calculated in.  Every *)
(* source has to implement this; ExternalSource is shown to.               *)
(***************************************************************************)
CONSTANTS Users,   \* the personae
          Calls,   \* identities of calls of scoreUsersInArray:
          Null     \* the score of a persona no source has scored yet

VARIABLES waiting, \* the personae whose score is still to be calculated
          owed,    \* the caller has not been informed yet
          round,   \* the call that is being answered
          score    \* where the score of each persona comes from

vars == <<waiting, owed, round, score>>

Score == [name : Users, call : Calls]

Init == /\ waiting = {}
        /\ owed = FALSE
        /\ round \in Calls
        /\ score = [u \in Users |-> Null]

\* A new call replaces whatever was still going on.
Request(us, c) == /\ waiting' = us
                  /\ owed' = TRUE
                  /\ round' = c
                  /\ UNCHANGED score

\* One persona gets its own score, calculated in this call; the caller may be
\* informed in the same step, but only when nobody is left waiting.
Settle(u) == /\ u \in waiting
             /\ waiting' = waiting \ {u}
             /\ score' = [score EXCEPT ![u] = [name |-> u, call |-> round]]
             /\ \/ owed' = owed
                \/ waiting' = {} /\ owed' = FALSE
             /\ UNCHANGED round

Inform == /\ owed /\ waiting = {}
          /\ owed' = FALSE
          /\ UNCHANGED <<waiting, round, score>>

Next == \/ \E us \in SUBSET Users, c \in Calls : Request(us, c)
        \/ \E u \in Users : Settle(u)
        \/ Inform

Spec == Init /\ [][Next]_vars
=============================================================================
