--------------------------------- MODULE Looks ---------------------------------
(* What people keep of a form's look and of lists: the default view of its    *)
(* responses (services/responseView.service.ts), views people save            *)
(* (services/savedView.service.ts), and what is kept up to a number:          *)
(* saved styles (controllers/formStyle.controller.ts) and pinned forms        *)
(* (services/pin.service.ts).                                                 *)
EXTENDS Naturals, FiniteSets

CONSTANTS
  People,       \* one of them the owner of the saved view, all able to edit the form
  Owner,
  Hands,        \* requests under way at the same time
  None,
  Limit,        \* PIN_LIMIT, MAX_STYLES_PER_SCOPE
  MaxRequests   \* bound: requests

\* What is assumed of the constants.
LooksAssumption ==
  /\ Owner \in People /\ None \notin People
  /\ Limit \in Nat \ {0} /\ MaxRequests \in Nat /\ IsFiniteSet(Hands)

Kinds == {"style", "pin"}

VARIABLES
  default,   \* ResponseViewDefault: version and what it says, or None
  seen,      \* per person: the version and the saying he last loaded
  view,      \* a SavedView: visibility and admins' edits, or None once removed
  rows,      \* per kind: how many are kept
  stale,     \* pins of forms that can no longer be read, among rows["pin"]
  want,      \* the request in each hand
  over,      \* history: a default was saved over one its author had not seen
  started

looksVars == <<default, seen, view, rows, stale, want, over, started>>

Idle == [op |-> "idle", by |-> None, was |-> None]
NoDefault == [version |-> 0, says |-> None]

Init ==
  /\ default = NoDefault
  /\ seen = [p \in People |-> NoDefault]
  /\ view \in {"personal", "team"}
  /\ rows = [k \in Kinds |-> 0] /\ stale = 0
  /\ want = [h \in Hands |-> Idle]
  /\ over = FALSE /\ started = 0

Count == started < MaxRequests /\ started' = started + 1
Start(h, r) == want[h] = Idle /\ Count /\ want' = [want EXCEPT ![h] = r]
Done(h) == want' = [want EXCEPT ![h] = Idle]

------------------------------------------------------------------------------
(* The default view of a form's responses                                     *)

\* getViewForForm
Load(p) ==
  /\ seen[p] # default /\ seen' = [seen EXCEPT ![p] = default]
  /\ UNCHANGED <<default, view, rows, stale, want, over, started>>

Save(h, p) ==
  /\ Start(h, [Idle EXCEPT !.op = "default", !.by = p, !.was = seen[p]])
  /\ UNCHANGED <<default, seen, view, rows, stale, over>>

\* Variant: a first save replaces what is there.
AcceptsFirst(version) == version \in {0, default.version}
\* saveFormDefault: created only if there is none (the unique index), and
\* replaced only at the version the author had.
Accepts(version) == version = default.version

\* Variant: a first default has no version.
BumpedLater(version) == IF version = 0 THEN 0 ELSE version + 1
\* Created as version 1, counted up with every change.
Bumped(version) == version + 1

\* A save that is refused answers with the current version, not its settings.
SaveDefault(h) ==
  LET r == want[h]
  IN /\ r.op = "default"
     /\ IF Accepts(r.was.version)
        THEN /\ default' = [version |-> Bumped(default.version), says |-> r.by]
             /\ seen' = [seen EXCEPT ![r.by] = default']
             /\ over' = (over \/ r.was # default)
        ELSE UNCHANGED <<default, seen, over>>
     /\ Done(h)
     /\ UNCHANGED <<view, rows, stale, started>>

------------------------------------------------------------------------------
(* A saved view                                                               *)

\* findOwnedOrAdmin: the owner, or an admin while it is the team's. Every
\* person but the owner is an admin here.
MayTouch(p) == p = Owner \/ view = "team"

Touch(h, p) ==
  /\ view # None /\ MayTouch(p)
  /\ \E op \in {"show", "hide", "remove"} :
       Start(h, [Idle EXCEPT !.op = op, !.by = p, !.was = view])
  /\ UNCHANGED <<default, seen, view, rows, stale, over>>

\* Variant: the save inserts what it does not find.
TouchViewUpsert(h) ==
  LET op == want[h].op
  IN /\ op \in {"show", "hide", "remove"}
     /\ view' = IF op = "remove" THEN None ELSE IF op = "show" THEN "team" ELSE "personal"
     /\ Done(h)
     /\ UNCHANGED <<default, seen, rows, stale, over, started>>
\* updateView saves the document it found; the save fails once that is gone.
\* removeView deletes it.
TouchView(h) ==
  LET op == want[h].op
  IN /\ op \in {"show", "hide", "remove"}
     /\ view' = IF view = None \/ op = "remove" THEN None
                ELSE IF op = "show" THEN "team" ELSE "personal"
     /\ Done(h)
     /\ UNCHANGED <<default, seen, rows, stale, over, started>>

------------------------------------------------------------------------------
(* Kept up to a number                                                        *)

\* Variant: one too many.
FullAt(n) == n > Limit
\* The count is compared before anything is written.
Full(n) == n >= Limit

\* createFormStyle counts; pinForm, once the count is reached, throws out the
\* pins of forms that cannot be read and counts again.
Keep(h, k) ==
  LET pruned == k = "pin" /\ Full(rows[k])
      left == IF pruned THEN rows[k] - stale ELSE rows[k]
  IN /\ IF Full(left) THEN want[h] = Idle /\ Count /\ UNCHANGED want
        ELSE Start(h, [Idle EXCEPT !.op = k])
     /\ rows' = [rows EXCEPT ![k] = left]
     /\ stale' = IF pruned THEN 0 ELSE stale
     /\ UNCHANGED <<default, seen, view, over>>

KeepWrite(h) ==
  LET k == want[h].op
  IN /\ k \in Kinds
     /\ rows' = [rows EXCEPT ![k] = @ + 1]
     /\ Done(h)
     /\ UNCHANGED <<default, seen, view, stale, over, started>>

\* removeFormStyle, unpinForm.
Unkeep(k) ==
  /\ rows[k] > (IF k = "pin" THEN stale ELSE 0) /\ Count
  /\ rows' = [rows EXCEPT ![k] = @ - 1]
  /\ UNCHANGED <<default, seen, view, stale, want, over>>

\* A pinned form goes to Trash, or its reader out of the workspace.
LosePinned ==
  /\ stale < rows["pin"] /\ Count
  /\ stale' = stale + 1
  /\ UNCHANGED <<default, seen, view, rows, want, over>>

Next ==
  \/ \E h \in Hands :
       \/ SaveDefault(h) \/ TouchView(h) \/ KeepWrite(h)
       \/ \E p \in People : Save(h, p) \/ Touch(h, p)
       \/ \E k \in Kinds : Keep(h, k)
  \/ \E p \in People : Load(p)
  \/ \E k \in Kinds : Unkeep(k)
  \/ LosePinned

Spec == Init /\ [][Next]_looksVars

------------------------------------------------------------------------------
\* responseView.service.ts: "a save based on an older version is refused with
\* 409 instead of overwriting a teammate's change".
NothingSavedOver == ~over

\* formStyle.controller.ts, pin.service.ts: as many requests as there are at
\* once, less one, may pass the limit together; never more, however many times
\* they do.
LimitsHold == \A k \in Kinds : rows[k] < Limit + Cardinality(Hands)

\* savedView.service.ts: an edit under way does not bring a removed view back.
ViewsStayGone == [][view = None => view' = None]_view
==============================================================================
