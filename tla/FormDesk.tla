------------------------------- MODULE FormDesk -------------------------------
(* What editors do to a form that people answer meanwhile: they publish, close, *)
(* trash and re-configure it (FormIntake, with an editor, a closing date and a   *)
(* builder's test), and they change the stages its responses sit on (Stages).    *)
(* The parts share no state of the code and are followed one by one; a scene of   *)
(* FormIntake of its own has rivals for the last place and nobody who edits.      *)
EXTENDS FormIntake, TLC

CONSTANTS
  Rivals,   \* requests that come in the scene of the race alone
  StageIds, Responses, Handlers, Categories, First, Kinds, Nothing, MaxHandled, MaxCrashes  \* Stages

VARIABLES
  part,                                                         \* the one that is followed
  stage, resp, version, req, raced, refused, begun, crashes     \* Stages

Sorting == INSTANCE Stages WITH Requests <- Handlers, MaxRequests <- MaxHandled

ASSUME FormDeskAssumption == Sorting!StagesAssumption

stagesOnly == <<stage, resp, version, req, raced, refused, begun, crashes>>
deskVars == <<part, vars, stagesOnly>>

\* Where a part starts when it is not followed is of no matter.
DeskInit ==
  /\ part \in {"edits", "race", "stages"}
  /\ Init /\ Sorting!Init
  /\ part # "stages" => \A s \in StageIds : stage[s].is = "unused"
  /\ part = "stages" => form.status = "published" /\ form.closeDate = NoDate
  /\ part = "race" => form.closeDate = NoDate

\* Bounds of the scenes.
Scene ==
  /\ part = "edits" => \A r \in Rivals : pc[r] = "idle"
  /\ part = "race" => editsUsed = 0 /\ now = 0 /\ \A t \in Tests : pc[t] = "idle"
  /\ part = "stages" => crashes = 0 \/ begun <= 2

DeskNext ==
  /\ \/ part # "stages" /\ UNCHANGED <<part, stagesOnly>> /\ Next
     \/ part = "stages" /\ UNCHANGED <<part, vars>> /\ Sorting!Next
  /\ Scene'

DeskSpec == DeskInit /\ [][DeskNext]_deskVars

\* The documents of Stages are of their types; where nothing raced, a response is on a
\* stage its form shows and carries that stage's category.
ResponsesInPlace == Sorting!TypeOK /\ Sorting!EveryResponseShown /\ Sorting!StatusInStep

\* Once a workspace has a default stage it keeps having one (Stages).
DefaultStays == [][Sorting!HasDefault => Sorting!HasDefault']_deskVars

\* Requests about stages are alike.
Alike == Permutations(Handlers)
==============================================================================
