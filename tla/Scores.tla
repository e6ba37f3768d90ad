------------------------------- MODULE Scores -------------------------------
(* Scoring criteria and scores: services/score.service.ts,                    *)
(* controllers/score.controller.ts, controllers/scoreCriterion.controller.ts. *)
(*                                                                            *)
(* The first look seeds one criterion; every handler counts or reads before   *)
(* it writes, and nothing but the index on scores holds two of them apart.    *)
EXTENDS Naturals, FiniteSets, FiniteSetsExt

CONSTANTS
  Criteria,     \* ids of ScoreCriterion rows
  Reviewers,    \* membership ids
  Editors,      \* requests under way at the same time
  None,
  MaxRequests   \* bound: requests

\* What is assumed of the constants.
ScoresAssumption == MaxRequests \in Nat

VARIABLES
  criterion,  \* ScoreCriterion rows: none, or the order and isDefault
  entries,    \* ScoreEntry rows on one response: a bag, as the index may not hold
  editing,    \* per request, what it read
  started

scoreVars == <<criterion, entries, editing, started>>

Absent == [there |-> FALSE, order |-> 0, default |-> FALSE]
Resting == [kind |-> "idle", at |-> "idle", which |-> None, who |-> None, order |-> 0]

Init ==
  /\ criterion = [c \in Criteria |-> Absent]
  /\ entries = [x \in Reviewers \X Criteria |-> 0]
  /\ editing = [e \in Editors |-> Resting]
  /\ started = 0

There == {c \in Criteria : criterion[c].there}
LastOrder == Max({criterion[c].order : c \in There})

Start(e, kind, at, who) ==
  /\ editing[e] = Resting /\ started < MaxRequests
  /\ started' = started + 1
  /\ editing' = [editing EXCEPT ![e] = [Resting EXCEPT !.kind = kind, !.at = at, !.who = who]]
Rest(e) == editing' = [editing EXCEPT ![e] = Resting]
At(e, kind, at) == editing[e].kind = kind /\ editing[e].at = at

Add(c, order, default) ==
  criterion' = [criterion EXCEPT ![c] = [there |-> TRUE, order |-> order, default |-> default]]

\* ensureDefaultCriteria, on every look and before every new criterion: only a
\* workspace without any is seeded.
Look(e, kind) ==
  /\ kind \in {"list", "create"}
  /\ There = {} \/ kind = "create"
  /\ Start(e, kind, IF There = {} THEN "seed" ELSE "last", None)
  /\ UNCHANGED <<criterion, entries>>

Seed(e, c) ==
  /\ editing[e].at = "seed" /\ c \notin There
  /\ Add(c, 0, TRUE)
  /\ IF editing[e].kind = "list" THEN Rest(e)
     ELSE editing' = [editing EXCEPT ![e].at = "last"]
  /\ UNCHANGED <<entries, started>>

\* createCriterion: after the last one as it is read here.
ReadLast(e) ==
  /\ At(e, "create", "last")
  /\ editing' = [editing EXCEPT ![e].at = "add", ![e].order = IF There = {} THEN 0 ELSE LastOrder + 1]
  /\ UNCHANGED <<criterion, entries, started>>

Create(e, c) ==
  /\ At(e, "create", "add") /\ c \notin There
  /\ \A r \in Reviewers : entries[<<r, c>>] = 0
  /\ Add(c, editing[e].order, FALSE)
  /\ Rest(e)
  /\ UNCHANGED <<entries, started>>

\* Variant: the default may go too, as long as another is counted.
DeletableAny(c) == There \ {c} # {}
\* deleteCriterion: not the default, and not the last one.
Deletable(c) == ~criterion[c].default /\ There \ {c} # {}

Delete(e, c) ==
  /\ c \in There /\ Deletable(c)
  /\ editing[e] = Resting /\ started < MaxRequests /\ started' = started + 1
  /\ editing' = [editing EXCEPT ![e] = [Resting EXCEPT !.kind = "delete", !.at = "write", !.which = c]]
  /\ UNCHANGED <<criterion, entries>>

EndDelete(e) ==
  /\ At(e, "delete", "write")
  /\ criterion' = [criterion EXCEPT ![editing[e].which] = Absent]
  /\ Rest(e)
  /\ UNCHANGED <<entries, started>>

\* reorderCriteria: a list of the ids as they are, numbered from nought. Two
\* round trips, one step: the second names each row by its id.
Reorder ==
  /\ started < MaxRequests /\ started' = started + 1 /\ Cardinality(There) > 1
  /\ \E f \in [There -> 0..(Cardinality(There) - 1)] :
       /\ \A c, d \in There : c # d => f[c] # f[d]
       /\ criterion' = [c \in Criteria |-> IF c \in There THEN [criterion[c] EXCEPT !.order = f[c]]
                                           ELSE criterion[c]]
  /\ UNCHANGED <<entries, editing>>

\* scoreResponse: a criterion of the workspace that is there when it is looked
\* up; then the reviewer's own row, found or made.
Score(e, r, c) ==
  /\ c \in There
  /\ editing[e] = Resting /\ started < MaxRequests /\ started' = started + 1
  /\ editing' = [editing EXCEPT ![e] = [Resting EXCEPT !.kind = "score", !.at = "find", !.who = r, !.which = c]]
  /\ UNCHANGED <<criterion, entries>>

FindScore(e) ==
  LET x == <<editing[e].who, editing[e].which>>
  IN /\ At(e, "score", "find")
     /\ IF entries[x] > 0 THEN Rest(e)
        ELSE editing' = [editing EXCEPT ![e].at = "insert"]
     /\ UNCHANGED <<criterion, entries, started>>

\* Variant: there is no unique index.
InsertedAny(x) == entries[x] + 1
\* The index refuses the second row of a reviewer for a criterion.
Inserted(x) == IF entries[x] > 0 THEN entries[x] ELSE 1

InsertScore(e) ==
  LET x == <<editing[e].who, editing[e].which>>
  IN /\ At(e, "score", "insert")
     /\ entries' = [entries EXCEPT ![x] = Inserted(x)]
     /\ Rest(e)
     /\ UNCHANGED <<criterion, started>>

Next ==
  \/ \E e \in Editors :
       \/ \E kind \in {"list", "create"} : Look(e, kind)
       \/ ReadLast(e) \/ EndDelete(e) \/ FindScore(e) \/ InsertScore(e)
       \/ \E c \in Criteria : \/ Seed(e, c) \/ Create(e, c) \/ Delete(e, c)
                              \/ \E r \in Reviewers : Score(e, r, c)
  \/ Reorder

------------------------------------------------------------------------------
\* A workspace that has had a criterion has one to score on, whatever is
\* deleted at the same time: each deletion counts the others before it.
SomeCriterion == [][There # {} => There' # {}]_scoreVars

\* A reviewer has one score per criterion, however often it is sent.
OneScoreEach == \A x \in DOMAIN entries : entries[x] <= 1
=============================================================================
