------------------------------ MODULE Workspace ------------------------------
(* A workspace: its people, their roles and shares (Membership), and the charts *)
(* they look at and keep (Insight). The parts share no state of the code and    *)
(* are followed one at a time.                                                  *)
EXTENDS Membership

CONSTANTS
  Responses, Options, WeekOf, Stages, Definitions, Sample, Late, Asks, DayLimit, TopGroups,
  TimeGroups, MaxSegments, MaxRunning, MaxCached, Ttl, MaxTime, MaxWrites, MaxAsks, MaxErrors,
  Members, Admins, Screens, ChartIds, Questions, Designs, Limit, Hands, MaxLooks, MaxChanges   \* Insight

VARIABLES
  part,                                                                             \* the scene
  def, resp, removed, version, cache, runs, running, ask, now, writes, asks, errors,
  question, touched, chart, layout, seen, hand, blind, cleared, begun, changes      \* Insight

Looking == INSTANCE Insight WITH MaxRequests <- MaxLooks

ASSUME WorkspaceAssumption == Looking!InsightAssumption

lookingVars ==
  <<def, resp, removed, version, cache, runs, running, ask, now, writes, asks, errors,
    question, touched, chart, layout, seen, hand, blind, cleared, begun, changes>>
workspaceVars == <<part, vars, lookingVars>>

WorkspaceInit ==
  /\ part \in {"people", "bars", "load", "kept", "layout"}
  /\ Init /\ (part # "people" => owner = Creator)
  /\ Looking!InsightInit

WorkspaceNext ==
  /\ UNCHANGED part
  /\ \/ part = "people" /\ Next /\ UNCHANGED lookingVars
     \/ Looking!InsightNext /\ UNCHANGED vars

WorkspaceSpec == WorkspaceInit /\ [][WorkspaceNext]_workspaceVars

\* Everything is of its type; an invitation makes one membership; the workspace has an owner
\* (Membership).
RolesHold == part = "people" => TypeOK /\ SingleUse /\ SomeOwner

\* Access to a form comes from a role or a grant, is decided by the form and not by the
\* request's headers, and deleting for good is the owner's, on all tables left behind.
AccessHolds == part = "people" => AccessIsGranted /\ AccessIsTheResources /\ AccessToDelete

\* Each bar opens the rows it counts, everybody who answered has one, and the runs keep to
\* their places (Charts).
ChartsHold == part \in {"bars", "load"} => Looking!ChartsHold

\* Members keep a bounded number of charts, those never shared are theirs alone, a chart whose
\* questions nobody touched is answered, and no layout is saved over one its sender did not
\* see (Dashboards).
KeptHolds == part \in {"kept", "layout"} => Looking!KeptHolds
=============================================================================
