----------------------------- MODULE UserStore -----------------------------
(***************************************************************************)
(* How permanent personae survive the program: User dictionary and         *)
(* initWithDictionary: (Model/User.m), loadUsers:, saveUsers: and          *)
(* applicationWillTerminate: (Controller/UserFactory.m).  The file is      *)
(* written only when the program is quit in an orderly way, and written    *)
(* atomically; a crash or a failed save leaves what the last save wrote.   *)
(*                                                                         *)
(* Personae of the address book are left out: they are never saved.        *)
(***************************************************************************)
CONSTANTS Ids,    \* identities of personae
          Texts   \* what the user may have typed as a name and an info

\* image: theImage is not nil.  source: theSource is a string, so that the
\* persona is a permanent one (permanentUsers); otherwise it is nil.
Persona == [id : Ids, text : Texts, image : BOOLEAN, source : BOOLEAN]

\* The saved form of a persona: keys are the optional entries it has.
Record == [id : Ids, text : Texts, keys : SUBSET {"Image", "Source"}]

VARIABLES running,   \* the program runs
          theUsers,  \* the personae, empty while it does not
          file,      \* the property list of personae; no file is as good as an
                     \* empty one, loadUsers: returns early
          saved      \* history: the permanent personae at the last save

vars == <<running, theUsers, file, saved>>

TypeOK == /\ running \in BOOLEAN
          /\ theUsers \subseteq Persona
          /\ file \subseteq Record
          /\ saved \subseteq Persona

Init == /\ running = FALSE
        /\ theUsers = {}
        /\ file = {}
        /\ saved = {}

-----------------------------------------------------------------------------
PermanentUsers(users) == {p \in users : p.source}

\* dictionary: the list of objects and keys it is made from ends at the first
\* nil, and the image comes before the source.
Dictionary(p) ==
  [id |-> p.id, text |-> p.text,
   keys |-> IF ~p.image THEN {} ELSE IF p.source THEN {"Image", "Source"} ELSE {"Image"}]

\* Mutant: the source is not read back.
FromDictionaryWithoutSource(r) ==
  [id |-> r.id, text |-> r.text, image |-> "Image" \in r.keys, source |-> FALSE]

\* Mutant: the dictionary itself is listed.
DictionaryAsUser(r) == r

\* initWithDictionary: an entry that is missing is nil.
FromDictionary(r) ==
  [id |-> r.id, text |-> r.text, image |-> "Image" \in r.keys, source |-> "Source" \in r.keys]

\* awakeFromNib, as far as loadUsers: goes.
Launch ==
  /\ ~running /\ running' = TRUE
  /\ theUsers' = {FromDictionary(r) : r \in file}
  /\ UNCHANGED <<file, saved>>

\* addUser:, for a persona of the panel: the image well may be empty.
AddUser(p) ==
  /\ running /\ p.source
  /\ \A q \in theUsers : q.id # p.id
  /\ theUsers' = theUsers \cup {p}
  /\ UNCHANGED <<running, file, saved>>

\* saveUserFromPanelInput: for a persona being edited.
EditUser(p, text, image) ==
  /\ p \in PermanentUsers(theUsers)
  /\ theUsers' = (theUsers \ {p}) \cup {[p EXCEPT !.text = text, !.image = image]}
  /\ UNCHANGED <<running, file, saved>>

\* removeUserByInterface
RemoveUser(p) ==
  /\ p \in PermanentUsers(theUsers)
  /\ theUsers' = theUsers \ {p}
  /\ UNCHANGED <<running, file, saved>>

\* Mutant: the personae are added to what the file holds already.
TerminateMerging(written) ==
  /\ running /\ running' = FALSE
  /\ IF written
     THEN /\ file' = file \cup {Dictionary(p) : p \in PermanentUsers(theUsers)}
          /\ saved' = PermanentUsers(theUsers)
     ELSE UNCHANGED <<file, saved>>
  /\ theUsers' = {}

\* applicationWillTerminate: and saveUsers:.  When the directory or the file
\* cannot be written the failure is only logged.
Terminate(written) ==
  /\ running /\ running' = FALSE
  /\ IF written
     THEN /\ file' = {Dictionary(p) : p \in PermanentUsers(theUsers)}
          /\ saved' = PermanentUsers(theUsers)
     ELSE UNCHANGED <<file, saved>>
  /\ theUsers' = {}

\* The program ends without applicationWillTerminate:.
Crash ==
  /\ running /\ running' = FALSE
  /\ theUsers' = {}
  /\ UNCHANGED <<file, saved>>

Next ==
  \/ Launch
  \/ \E p \in Persona : AddUser(p)
  \/ \E p \in theUsers, text \in Texts, image \in BOOLEAN : EditUser(p, text, image)
  \/ \E p \in theUsers : RemoveUser(p)
  \/ \E written \in BOOLEAN : Terminate(written)
  \/ Crash

Spec == Init /\ [][Next]_vars

-----------------------------------------------------------------------------
Launching == ~running /\ running'

\* A permanent persona that has an image is back unchanged at the next launch,
\* however many crashes and failed saves lie between its save and that launch.
Reloaded == [][Launching => {p \in saved : p.image} \subseteq theUsers']_vars

\* A launch brings back nothing but what was permanent at the last save, with the
\* text it had then: no removed persona returns, no lost edit reappears.
NothingReturns ==
  [][Launching => \A p \in theUsers' : \E q \in saved : q.id = p.id /\ q.text = p.text]_vars

\* No two personae of a session are the same one, loaded or added: an edit or a
\* removal concerns one persona only, also after restarts.
OnePerId == \A p, q \in theUsers : p.id = q.id => p = q

\* UserFactory.h:106: "Permanent users are saved at exit and loaded at creation of
\* the UserFactory object."  It does not hold for a persona without an image.
PermanentsReloaded == [][Launching => saved \subseteq theUsers']_vars
=============================================================================
