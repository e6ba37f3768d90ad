-------------------------------- MODULE Keeping --------------------------------
(* What is kept of forms over time: where one lives and who may use it        *)
(* (Moving), how it looks and is listed (Looks), copies of it (Copies) and    *)
(* the answers given to it (Answers). The parts keep documents of their own   *)
(* and are followed one by one.                                               *)
EXTENDS Moving, Functions, TLC

CONSTANTS
  People, Owner, Limit, MaxLooks,               \* Looks
  Forms, First, Templates, MaxField, MaxSteps,  \* Copies
  Questions, Labels, MaxEdits, MaxRules         \* Answers

VARIABLES
  part,                                           \* the one that is followed
  default, seen, view, rows, stale, want, over,   \* Looks
  fields, template, made, steps,                  \* Copies
  questions, stored, given, touched, edits         \* Answers

Look == INSTANCE Looks WITH None <- Nil, MaxRequests <- MaxLooks
Copy == INSTANCE Copies WITH None <- Nil
Reply == INSTANCE Answers WITH None <- Nil, Fields <- Questions, form <- questions

ASSUME KeepingAssumption ==
  Look!LooksAssumption /\ Copy!CopiesAssumption /\ Reply!AnswersAssumption

movingOnly == <<home, creator, role, grant, told, pin, req, untold, torn, cuts>>
looksOnly == <<default, seen, view, rows, stale, want, over>>
copiesOnly == <<fields, template, made, steps>>
answersOnly == <<questions, stored, given, touched, edits>>
keepingVars == <<part, movingOnly, looksOnly, copiesOnly, answersOnly, started>>

\* Where Moving starts when it is not followed is of no matter.
SomeHome ==
  /\ home = Personal
  /\ role = [w \in Workspaces |-> [u \in Users |-> Nil]]

KeepingInit ==
  /\ part \in {"moving", "looks", "copies", "answers"}
  /\ MovingInit /\ Look!Init /\ Copy!Init /\ Reply!Init
  /\ part # "moving" => SomeHome
  /\ part # "looks" => view = "team"

KeepingNext ==
  \/ part = "moving" /\ MovingNext /\ UNCHANGED <<part, looksOnly, copiesOnly, answersOnly>>
  \/ part = "looks" /\ Look!Next /\ UNCHANGED <<part, movingOnly, copiesOnly, answersOnly>>
  \/ part = "copies" /\ Copy!Next /\ UNCHANGED <<part, movingOnly, looksOnly, answersOnly, started>>
  \/ part = "answers" /\ Reply!Next /\ UNCHANGED <<part, movingOnly, looksOnly, copiesOnly, started>>

KeepingSpec == KeepingInit /\ [][KeepingNext]_keepingVars

\* A type invariant; no pin and no share is of a workspace that does not exist,
\* and no default view claims a version nobody saved.
KeepingTypes ==
  /\ home \in Homes /\ creator \in Users
  /\ grant \in [Users -> {Nil} \cup [role : Roles, home : Homes, late : BOOLEAN]]
  /\ pin \in [Users -> {Nil} \cup [home : Homes, late : BOOLEAN]]
  /\ default.version \in 0..MaxLooks /\ (default.says = Nil <=> default.version = 0)
  /\ \A p \in People : seen[p].version <= default.version
  /\ made \in 1..MaxField
  /\ \A f \in Forms : fields[f] # Nil => DOMAIN fields[f] \subseteq 1..made

\* Everything is of its type; after a move nothing of the old place is left: no share, and
\* no pin of somebody who may not read the form; whoever holds a share was told (Moving).
MoveIsClean == KeepingTypes /\ SharesStayBehind /\ PinsFollow /\ HoldersTold

\* A default view is never saved over one its editor did not see, and what is kept up to a
\* number exceeds it by the requests side by side at most (Looks).
LooksHold == Look!NothingSavedOver /\ Look!LimitsHold

\* A form's rules name its fields, and a template whose rules stay within it can be used
\* (Copies).
CopiesHold == Copy!FormsWhole /\ Copy!ClosedTemplatesUsable

\* A view that was deleted stays deleted (Looks).
ViewsStay == [][view = Nil => view' = Nil]_keepingVars

\* A view that was deleted stays deleted; no two questions of a form become one, an answer is
\* read back under the question it was given to, and no required question that was shown
\* goes unanswered (Answers).
StoredHolds ==
  /\ ViewsStay
  /\ []Reply!QuestionsDiffer
  /\ Reply!ReadBack /\ Reply!RequiredAnswered

\* The labels of a run: "Question" and "Question (2)".
TwoLabels == {<<>>, <<2>>}

\* Requests are alike, and so are users, workspaces and questions; one of the
\* people with views is the owner.
Interchangeable == Permutations(Hands) \cup Permutations(Users) \cup Permutations(Workspaces) \cup Permutations(Questions)
==============================================================================
