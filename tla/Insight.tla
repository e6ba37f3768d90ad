------------------------------- MODULE Insight -------------------------------
(* What is shown of a form's responses: charts that are computed (Charts) and  *)
(* charts and layouts that are kept (Dashboards). The scenes have bounds of     *)
(* their own: what the bars of every chart count ("bars"), the runs and their   *)
(* cache under load ("load"), the charts people keep ("kept") and the layout of  *)
(* the home page ("layout").                                                    *)
EXTENDS Charts

CONSTANTS
  Members, Admins, Screens, ChartIds, Questions, Designs, Limit, Hands, MaxRequests, MaxChanges

VARIABLES
  part,                                                                             \* the scene
  question, touched, chart, layout, seen, hand, blind, cleared, begun, changes      \* Dashboards

Board == INSTANCE Dashboards

\* What is assumed of the constants.
InsightAssumption == ChartsAssumption /\ Board!DashboardsAssumption

dashboardsOnly ==
  <<question, touched, chart, layout, seen, hand, blind, cleared, begun, changes>>

\* A part that is not followed stands still.
InsightInit ==
  /\ Init /\ Board!Init
  /\ part # "bars" => def = CHOOSE d \in Definitions : Len(d.levels) > 1 /\ d.filters.items = {}
  /\ part # "bars" => \A r, s \in Responses : resp[r].choice = resp[s].choice /\ resp[r].choice # {}
  /\ part \notin {"bars", "load"} => \A r \in Responses : resp[r].number = {100}
  /\ \A x \in Questions : question[x] = "number"

\* Bounds of the scenes: one page looks at the bars; under load few things change.
Scene ==
  /\ part = "bars" => now = 0 /\ errors = 0 /\ writes = 0 /\ Cardinality({q \in Asks : ask[q].at # "idle"}) <= 1
  /\ part = "load" => writes + errors + now <= 2

InsightNext ==
  /\ \/ part \in {"bars", "load"} /\ ChartsNext /\ UNCHANGED dashboardsOnly
     \/ part = "kept" /\ Board!ChartStep /\ UNCHANGED chartsVars
     \/ part = "layout" /\ Board!LayoutStep /\ UNCHANGED chartsVars
  /\ UNCHANGED part /\ Scene'

\* The properties of the charts, and of what is kept.
ChartsHold == BarsOpenTheirRows /\ EverybodyHasABar /\ PlacesHeld /\ WaitersHaveRuns

KeptHolds ==
  Board!ChartsBounded /\ Board!PrivateIsOwn /\ Board!UntouchedAnswers /\ Board!LayoutsAreSeen
=============================================================================
