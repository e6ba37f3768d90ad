------------------------------ MODULE Handling ------------------------------
(* Everything members do with the responses of a form. The four parts write  *)
(* different attributes and rows and read none of each other's, so that each  *)
(* is followed with the others at rest.                                       *)
EXTENDS Triage, TLC

CONSTANTS Cards, Columns, Spacing, MinGap, Hands, Criteria, Reviewers, Editors, Mentionable, Author, MaxCuts

VARIABLES
  part,                                        \* the one that is followed
  stage, rank, placing, dirty,                 \* Board
  criterion, entries, editing,                 \* Scores
  access, note, told, missed, writing, cuts    \* Notes

Order == INSTANCE Board
Marks == INSTANCE Scores
Remarks == INSTANCE Notes

ASSUME HandlingAssumption ==
  Order!BoardAssumption /\ Marks!ScoresAssumption /\ Remarks!NotesAssumption

handlingVars == <<triageVars, part, stage, rank, placing, dirty, criterion, entries, editing,
                  access, note, told, missed, writing, cuts>>
boardOnly == <<stage, rank, placing, dirty>>
scoresOnly == <<criterion, entries, editing>>
notesOnly == <<access, note, told, missed, writing, cuts>>
triageOnly == <<resp, tagRows, member, shared, trashed, request, excused, faults>>

HandlingInit ==
  /\ part \in {"triage", "board", "scores", "notes"}
  /\ Init /\ Order!Init /\ Marks!Init /\ Remarks!Init
  /\ part # "triage" => member = People /\ \A r \in Responses : resp[r].assignee = None /\ resp[r].tags = {}
  /\ part # "board" => stage = [c \in Cards |-> CHOOSE s \in Columns : TRUE]
  /\ part # "notes" => access = {}

HandlingNext ==
  \/ part = "triage" /\ Next /\ UNCHANGED <<part, boardOnly, scoresOnly, notesOnly>>
  \/ part = "board" /\ Order!Next /\ UNCHANGED <<part, triageOnly, scoresOnly, notesOnly>>
  \/ part = "scores" /\ Marks!Next /\ UNCHANGED <<part, triageOnly, boardOnly, notesOnly>>
  \/ part = "notes" /\ Remarks!Next /\ UNCHANGED <<part, triageOnly, boardOnly, scoresOnly>>

HandlingSpec == HandlingInit /\ [][HandlingNext]_handlingVars

\* Everything is of its type; no response that is in use is assigned to somebody who left
\* or carries a tag that is gone (Triage); a reviewer has one entry per criterion (Scores).
NothingDangles == TypeOK /\ RemovedHoldNothing /\ TagsExist /\ Marks!OneScoreEach

\* Whoever a note mentions is told of it once (Notes).
MentionsTold == Remarks!MentionsTold

\* Putting a card somewhere leaves the others in their order and puts it where it was
\* asked for (Board).
PlacedRight == Order!OthersStay /\ Order!PlacedAsAsked

\* A merged tag's responses carry the other tag (Triage), and a form that has criteria
\* keeps one (Scores).
DeletesKeep == MergeCarriesOver /\ Marks!SomeCriterion

\* People are alike, and so are tags and requests.
Alike == Permutations(People) \cup Permutations(Tags) \cup Permutations(Slots)
=============================================================================
