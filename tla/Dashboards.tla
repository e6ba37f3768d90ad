----------------------------- MODULE Dashboards -----------------------------
(* The charts people keep on a form and the layout of their home page:         *)
(* controllers/chart.controller.ts and services/dashboardLayout.service.ts.    *)
(* A chart is a definition over the form's questions, its owner's alone or     *)
(* everybody's in the workspace; requests read before they write, side by side, *)
(* while the form loses questions or changes their type.                       *)
EXTENDS Naturals, FiniteSets, FiniteSetsExt, Sequences, SequencesExt, Functions

CONSTANTS
  Members, Admins,        \* those who may make charts, and the admins among them
  Screens,                \* home pages open at an admin's
  ChartIds,               \* charts, in the order they are made
  Questions,
  Designs,                \* definitions: [legacy, levels: sequence of questions, measure, filter]
  Limit,                  \* MAX_CHARTS_PER_OWNER
  Hands,                  \* requests under way
  MaxRequests, MaxChanges,   \* bounds
  None

\* What is assumed of the constants.
DashboardsAssumption ==
  /\ ChartIds \subseteq Nat /\ Admins \subseteq Members /\ Limit \in Nat \ {0}
  /\ IsFiniteSet(Hands) /\ None \notin Members \cup Questions
  /\ \A d \in Designs : /\ d.levels \in Seq(Questions) /\ {d.measure, d.filter} \subseteq Questions \cup {None}
                        /\ d.legacy => Len(d.levels) = 1 /\ d.measure = None /\ d.filter = None

VARIABLES
  question,   \* what each question can be charted as: "choice", "number", "text" or "gone"
  touched,    \* history: questions that were changed or removed
  chart,      \* the rows, and what each is: not made yet, a row, deleted
  layout,     \* the home page of the workspace: [version, says]; version 0 when it is the standard one
  seen,       \* per screen, the layout it shows
  hand,       \* the requests
  blind,      \* history: a layout was saved over one its sender had not seen
  cleared,    \* history: the layout was removed once
  begun, changes

dashboardsVars ==
  <<question, touched, chart, layout, seen, hand, blind, cleared, begun, changes>>
-----------------------------------------------------------------------------
(* Definitions and the form. *)

Named(d) == Range(d.levels) \cup ({d.measure, d.filter} \ {None})

\* classify: a question that is gone, or of any other type, cannot be charted.
Chartable(q) == question[q] \in {"choice", "number"}

\* validateDefinition: each level another field, the measure a number.
Valid(d) ==
  /\ IsInjective(d.levels)
  /\ \A q \in Named(d) : Chartable(q)
  /\ d.measure # None => question[d.measure] = "number"

\* What GET /charts/:id/data answers: a warning for a grouped question that is gone (the
\* type it had is not looked at), then the query with its checks.
Answer(d) ==
  IF \E i \in DOMAIN d.levels : question[d.levels[i]] = "gone" THEN "warning"
  ELSE IF d.legacy /\ ~Chartable(d.levels[1]) THEN "warning"
  ELSE IF Valid(d) THEN "answered" ELSE "error"

\* The form is edited: a question is removed, or becomes one of another type.
ChangeQuestion(q) ==
  /\ changes < MaxChanges /\ changes' = changes + 1
  /\ question[q] # "gone"
  /\ \E k \in {"choice", "number", "text", "gone"} \ {question[q]} :
       question' = [question EXCEPT ![q] = k]
  /\ touched' = touched \cup {q}
  /\ UNCHANGED <<chart, layout, seen, hand, blind, cleared, begun>>
-----------------------------------------------------------------------------
(* Charts. *)

Rows == {c \in ChartIds : chart[c].is = "row"}
Own(p) == {c \in Rows : chart[c].owner = p}

\* visibleToMe and the rule of loadChart.
Visible(p, c) == c \in Rows /\ (chart[c].shared \/ chart[c].owner = p)
MayEdit(p, c) == Visible(p, c) /\ (chart[c].owner = p \/ p \in Admins)

Idle == [at |-> "idle"]
End(h) == hand' = [hand EXCEPT ![h] = Idle]
Inserts(h, at) ==
  hand' = [hand EXCEPT ![h] = [at |-> "insert", who |-> hand[h].who, def |-> hand[h].def,
                               shared |-> hand[h].shared, position |-> at]]
Begin(h, request) ==
  /\ hand[h].at = "idle" /\ begun < MaxRequests /\ begun' = begun + 1
  /\ hand' = [hand EXCEPT ![h] = request]
FormUnchanged == UNCHANGED <<question, touched, changes>>
LayoutUnchanged == UNCHANGED <<layout, seen, blind, cleared>>

\* POST /charts: the definition is checked against the form the request has read.
Create(h, p) ==
  /\ \E d \in Designs, shared \in BOOLEAN :
       /\ Valid(d)
       /\ Begin(h, [at |-> "count", who |-> p, def |-> d, shared |-> shared])
  /\ FormUnchanged /\ LayoutUnchanged /\ UNCHANGED chart

\* POST /charts/:id/duplicate: of any chart one can see; the copy is private.
Duplicate(h, p) ==
  /\ \E c \in Rows : Visible(p, c)
       /\ Begin(h, [at |-> "count", who |-> p, def |-> chart[c].def, shared |-> FALSE])
  /\ FormUnchanged /\ LayoutUnchanged /\ UNCHANGED chart

NextPlace(p) == Max({0} \cup {chart[c].position + 1 : c \in Own(p)})

\* Variant: as many more.
CountNothing(h) ==
  /\ hand[h].at = "count"
  /\ Inserts(h, NextPlace(hand[h].who))
  /\ FormUnchanged /\ LayoutUnchanged /\ UNCHANGED <<chart, begun>>

\* nextPosition: the number of one's own charts, and the place after the last of them.
CountOwn(h) ==
  /\ hand[h].at = "count"
  /\ IF Cardinality(Own(hand[h].who)) >= Limit THEN End(h)
     ELSE Inserts(h, NextPlace(hand[h].who))
  /\ FormUnchanged /\ LayoutUnchanged /\ UNCHANGED <<chart, begun>>

Insert(h) ==
  /\ hand[h].at = "insert"
  /\ \E c \in ChartIds :
       /\ chart[c].is = "none" /\ \A b \in ChartIds : b < c => chart[b].is # "none"
       /\ chart' = [chart EXCEPT ![c] =
            [is |-> "row", owner |-> hand[h].who, shared |-> hand[h].shared, ever |-> hand[h].shared,
             def |-> hand[h].def, version |-> 1, by |-> hand[h].who, position |-> hand[h].position]]
  /\ End(h) /\ FormUnchanged /\ LayoutUnchanged /\ UNCHANGED begun

\* What one request changes: who sees the chart, its place, or the whole query.
Changes ==
  {[shared |-> TRUE, ever |-> TRUE], [shared |-> FALSE], [position |-> 0]}
    \cup {[def |-> d] : d \in {e \in Designs : Valid(e) /\ ~e.legacy}}

\* Variant: whoever can see it.
UpdateWhatOneSees(h, p) ==
  /\ \E c \in Rows :
       /\ Visible(p, c) \/ p \in Admins
       /\ \E sets \in Changes :
            Begin(h, [at |-> "save", who |-> p, chart |-> c, sets |-> sets, base |-> chart[c].version])
  /\ FormUnchanged /\ LayoutUnchanged /\ UNCHANGED chart

\* PATCH /charts/:id: what the request loaded decides; a definition is checked, and one that
\* names an older version than the loaded one is refused.
Update(h, p) ==
  /\ \E c \in Rows :
       /\ MayEdit(p, c)
       /\ \E sets \in Changes :
            Begin(h, [at |-> "save", who |-> p, chart |-> c, sets |-> sets, base |-> chart[c].version])
  /\ FormUnchanged /\ LayoutUnchanged /\ UNCHANGED chart

\* save() writes what was changed and the version counted from the one that was loaded, to
\* the row as it is by then; a row that is gone is an error.
Saved(row, q) ==
  LET counts == ("def" \in DOMAIN q.sets) \/ ~row.def.legacy IN
  [f \in DOMAIN row |->
     CASE f = "by" -> q.who
       [] f = "version" -> IF counts THEN q.base + 1 ELSE row.version
       [] f \in DOMAIN q.sets -> q.sets[f]
       [] OTHER -> row[f]]
Save(h) ==
  /\ hand[h].at = "save"
  /\ LET c == hand[h].chart IN
       IF c \in Rows THEN chart' = [chart EXCEPT ![c] = Saved(@, hand[h])] ELSE UNCHANGED chart
  /\ End(h) /\ FormUnchanged /\ LayoutUnchanged /\ UNCHANGED begun

\* DELETE /charts/:id, loaded, then deleted.
Delete(h, p) ==
  /\ \E c \in Rows : MayEdit(p, c) /\ Begin(h, [at |-> "delete", who |-> p, chart |-> c])
  /\ FormUnchanged /\ LayoutUnchanged /\ UNCHANGED chart
DeleteRow(h) ==
  /\ hand[h].at = "delete"
  /\ chart' = [chart EXCEPT ![hand[h].chart] = [is |-> "gone"]]
  /\ End(h) /\ FormUnchanged /\ LayoutUnchanged /\ UNCHANGED begun

\* PUT /charts/order: an order of the charts that were one's own when they were read.
Reorder(h, p) ==
  /\ Own(p) # {}
  /\ \E order \in SetToSeqs(Own(p)) : Begin(h, [at |-> "number", who |-> p, order |-> order])
  /\ FormUnchanged /\ LayoutUnchanged /\ UNCHANGED chart
Number(h) ==
  /\ hand[h].at = "number"
  /\ chart' = [c \in ChartIds |->
       IF c \in Rows /\ Contains(hand[h].order, c)
       THEN [chart[c] EXCEPT !.position = (CHOOSE i \in DOMAIN hand[h].order : hand[h].order[i] = c) - 1]
       ELSE chart[c]]
  /\ End(h) /\ FormUnchanged /\ LayoutUnchanged /\ UNCHANGED begun
-----------------------------------------------------------------------------
(* The layout of the home page. *)

ChartsUnchanged == UNCHANGED <<chart, question, touched, changes>>

Standard == [version |-> 0, says |-> 0]

Look(w) ==
  /\ seen[w] # layout /\ seen' = [seen EXCEPT ![w] = layout]
  /\ ChartsUnchanged /\ UNCHANGED <<layout, hand, blind, cleared, begun>>

\* PUT /dashboard/home, of those with dashboard:manage, with the version on the screen; the row is read first.
Put(h, w) ==
  /\ Begin(h, [at |-> IF layout.version = 0 THEN "first" ELSE "swap", who |-> w, base |-> seen[w],
               says |-> begun, read |-> layout.version])
  /\ ChartsUnchanged /\ LayoutUnchanged

\* The first save creates the row; the unique index refuses the second of two.
PutFirst(h) ==
  /\ hand[h].at = "first"
  /\ LET w == hand[h].who IN
       IF layout.version = 0
       THEN /\ layout' = [version |-> 1, says |-> hand[h].says]
            /\ seen' = [seen EXCEPT ![w] = layout']
       ELSE seen' = [seen EXCEPT ![w] = layout] /\ UNCHANGED layout
  /\ End(h) /\ ChartsUnchanged /\ UNCHANGED <<blind, cleared, begun>>

\* Variant: the version is compared with the row that was read, and the row written as it is.
PutUnguarded(h) ==
  /\ hand[h].at = "swap"
  /\ LET w == hand[h].who
         base == hand[h].base IN
       IF base.version = hand[h].read /\ layout.version # 0
       THEN /\ layout' = [version |-> layout.version + 1, says |-> hand[h].says]
            /\ seen' = [seen EXCEPT ![w] = layout']
            /\ blind' = (blind \/ base # layout)
       ELSE seen' = [seen EXCEPT ![w] = layout] /\ UNCHANGED <<layout, blind>>
  /\ End(h) /\ ChartsUnchanged /\ UNCHANGED <<cleared, begun>>

\* Any other save names the version that was read, and the row must still have it.
PutOver(h) ==
  /\ hand[h].at = "swap"
  /\ LET w == hand[h].who
         base == hand[h].base IN
       IF base.version = hand[h].read /\ layout.version = hand[h].read
       THEN /\ layout' = [version |-> layout.version + 1, says |-> hand[h].says]
            /\ seen' = [seen EXCEPT ![w] = layout']
            /\ blind' = (blind \/ base # layout)
       ELSE seen' = [seen EXCEPT ![w] = layout] /\ UNCHANGED <<layout, blind>>
  /\ End(h) /\ ChartsUnchanged /\ UNCHANGED <<cleared, begun>>

\* DELETE /dashboard/home: back to the standard page.
PutBack(w) ==
  /\ layout.version # 0 /\ layout' = Standard /\ cleared' = TRUE
  /\ seen' = [seen EXCEPT ![w] = Standard]
  /\ ChartsUnchanged /\ UNCHANGED <<hand, blind, begun>>
-----------------------------------------------------------------------------
Init ==
  /\ question \in [Questions -> {"choice", "number"}] /\ touched = {}
  /\ chart = [c \in ChartIds |-> [is |-> "none"]]
  /\ layout = Standard /\ seen = [w \in Screens |-> Standard]
  /\ hand = [h \in Hands |-> Idle]
  /\ blind = FALSE /\ cleared = FALSE /\ begun = 0 /\ changes = 0

ChartStep ==
  \/ \E h \in Hands, p \in Members :
       Create(h, p) \/ Duplicate(h, p) \/ Update(h, p) \/ Delete(h, p) \/ Reorder(h, p)
  \/ \E h \in Hands : CountOwn(h) \/ Insert(h) \/ Save(h) \/ DeleteRow(h) \/ Number(h)
  \/ \E q \in Questions : ChangeQuestion(q)

LayoutStep ==
  \/ \E w \in Screens : Look(w) \/ PutBack(w) \/ \E h \in Hands : Put(h, w)
  \/ \E h \in Hands : PutFirst(h) \/ PutOver(h)
-----------------------------------------------------------------------------
(* Properties. *)

\* A member has no more charts than the limit, but for requests that counted side by side.
ChartsBounded == \A p \in Members : Cardinality(Own(p)) < Limit + Cardinality(Hands)

\* A chart that was never shared is its owner's work alone: "Someone else's private chart
\* does not exist as far as the caller can tell".
PrivateIsOwn == \A c \in Rows : ~chart[c].ever => chart[c].by = chart[c].owner

\* A chart can be shown as long as nobody touched the questions it names.
UntouchedAnswers ==
  \A c \in Rows : Named(chart[c].def) \cap touched = {} => Answer(chart[c].def) = "answered"

\* "Without one it would silently overwrite someone else's layout": no save of the layout is
\* over one its sender did not see, unless the page was put back to the standard one meanwhile.
LayoutsAreSeen == blind => cleared
=============================================================================
