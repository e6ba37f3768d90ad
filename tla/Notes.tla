-------------------------------- MODULE Notes --------------------------------
(* A note on a response and who is told of it: services/note.service.ts and   *)
(* controllers/note.controller.ts.                                            *)
(*                                                                            *)
(* An edit replaces the mentions and tells only those that the note did not   *)
(* mention when the edit read it. Two edits, a deletion and a change of who   *)
(* has access interleave between its round trips.                             *)
EXTENDS Naturals

CONSTANTS
  Mentionable,  \* users
  Author,       \* the one that wrote the note; only the author edits it
  Hands,        \* requests under way at the same time
  None,
  MaxRequests,  \* bound: requests
  MaxCuts       \* bound: requests cut short

\* What is assumed of the constants.
NotesAssumption ==
  /\ Author \in Mentionable /\ None \notin Mentionable
  /\ MaxRequests \in Nat /\ MaxCuts \in Nat

VARIABLES
  access,    \* who has access to the form: userHasAccessToForm
  note,      \* the mentions of the note, or None without one
  told,      \* who got a notification
  missed,    \* history: whose notification a request that was cut short left out
  writing,   \* per hand: the mentions to set, those it read, those to tell
  started, cuts

noteVars == <<access, note, told, missed, writing, started, cuts>>

Away == [at |-> "idle", mentions |-> {}, before |-> {}, todo |-> {}]

Init ==
  /\ access \in SUBSET Mentionable
  /\ note = None /\ told = {} /\ missed = {}
  /\ writing = [h \in Hands |-> Away]
  /\ started = 0 /\ cuts = 0

Count == started < MaxRequests /\ started' = started + 1

\* create and update read the note and look up everyone they mention. An edit
\* of the text alone changes nothing that is kept here.
WriteNote(h) ==
  /\ writing[h] = Away /\ Count
  /\ \A j \in Hands : writing[j].at # "create"
  /\ \E M \in SUBSET access :
       writing' = [writing EXCEPT ![h] =
         [Away EXCEPT !.at = IF note = None THEN "create" ELSE "save", !.mentions = M,
                      !.before = IF note = None THEN {} ELSE note]]
  /\ UNCHANGED <<access, note, told, missed, cuts>>

\* Variant: the mentions before are read after the new ones are set.
NewlyMentionedNone(M, before) == M \ (before \cup M \cup {Author})
\* notifyNewMentions leaves out the author and those mentioned before.
NewlyMentioned(M, before) == M \ (before \cup {Author})

\* The save fails when the note is gone by then.
SaveNote(h) ==
  LET w == writing[h]
      new == NewlyMentioned(w.mentions, w.before)
  IN /\ w.at \in {"create", "save"}
     /\ IF w.at = "save" /\ note = None
        THEN UNCHANGED note /\ writing' = [writing EXCEPT ![h] = Away]
        ELSE /\ note' = w.mentions
             /\ writing' = [writing EXCEPT ![h] = IF new = {} THEN Away
                                                  ELSE [w EXCEPT !.at = "notify", !.todo = new]]
     /\ UNCHANGED <<access, told, missed, started, cuts>>

Notify(h, u) ==
  LET w == writing[h]
  IN /\ w.at = "notify" /\ u \in w.todo
     /\ told' = told \cup {u}
     /\ writing' = [writing EXCEPT ![h] = IF w.todo = {u} THEN Away ELSE [w EXCEPT !.todo = @ \ {u}]]
     /\ UNCHANGED <<access, note, missed, started, cuts>>

\* By its author, an admin or the owner.
DeleteNote ==
  /\ note # None /\ Count
  /\ note' = None
  /\ UNCHANGED <<access, told, missed, writing, cuts>>

\* A member is removed, or a share is given.
ChangeAccess(u) ==
  /\ Count
  /\ access' = IF u \in access THEN access \ {u} ELSE access \cup {u}
  /\ UNCHANGED <<note, told, missed, writing, cuts>>

\* The process stops, or a notification cannot be stored.
Cut(h) ==
  /\ writing[h] # Away /\ cuts < MaxCuts
  /\ cuts' = cuts + 1
  /\ missed' = missed \cup (IF writing[h].at = "notify" THEN writing[h].todo ELSE {})
  /\ writing' = [writing EXCEPT ![h] = Away]
  /\ UNCHANGED <<access, note, told, started>>

Next ==
  \/ \E h \in Hands : WriteNote(h) \/ SaveNote(h) \/ Cut(h) \/ \E u \in Mentionable : Notify(h, u)
  \/ DeleteNote
  \/ \E u \in Mentionable : ChangeAccess(u)

------------------------------------------------------------------------------
\* Everyone a stored note mentions has been told, or is about to be, but its
\* author and those whose request was cut short: no order of two edits makes
\* both leave the telling to the other.
MentionsTold ==
  note # None => \A u \in note \ {Author} :
    \/ u \in told \cup missed
    \/ \E h \in Hands : writing[h].at = "notify" /\ u \in writing[h].todo
==============================================================================
