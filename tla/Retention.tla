------------------------------ MODULE Retention ------------------------------
(* Trash and the cascades that delete for good: services/trash.service.ts,    *)
(* services/cleanup.service.ts and the handlers that start them.              *)
(*                                                                            *)
(* A delete moves a form or a response to Trash; a restore takes it back; a   *)
(* purge removes it with everything that hangs off it, one collection at a    *)
(* time.  Purges are started by a member, by the timer and by the deletion of *)
(* a workspace or an account; they run beside each other, beside submissions  *)
(* and notes that passed their checks earlier, and may stop half way.         *)
EXTENDS FiniteSets, Integers

CONSTANTS
  Forms, Responses,
  Of,              \* the form of each response
  Actors,          \* requests and timer runs that may purge at the same time
  Timers,          \* those of them that are timer runs
  Batch,           \* trash.service.ts: batchSize
  MaxFaults        \* bound: purges that stop half way

ASSUME RetentionAssumption ==
  /\ Of \in [Responses -> Forms]
  /\ Timers \subseteq Actors
  /\ Batch \in Nat \ {0}
  /\ MaxFaults \in Nat

VARIABLES
  form,       \* Form.deletedAt: "live" | "trash", or "gone" without a row
  resp,       \* the same of a response; "none" before it is submitted
  expired,    \* what has been in Trash for TRASH_RETENTION_DAYS
  files,      \* responses with files on disk and Upload rows
  hanging,    \* responses with notes, scores, read state or respondent links
  setup,      \* forms with a counter, views, grants, charts, pins or stages
  space,      \* the workspace: "whole", "no_members", "gone"
  signIn,     \* its owner can sign in (the account at the sign-in provider)
  job,        \* per actor, the purge under way
  pending,    \* per response, a write that passed its checks and is not stored
  late,       \* history: responses written while a purge was at their parent, or
              \*   after it
  ripe,       \* history: what has ever expired
  faults

vars == <<form, resp, expired, files, hanging, setup, space, signIn, job, pending, late,
          ripe, faults>>
rows == <<form, resp, expired, files, hanging, setup, space, signIn>>
kept == <<late, ripe, faults>>

None == "none"
Idle == [kind |-> "idle", at |-> "idle", forms |-> {}, resps |-> {},
         target |-> None, ids |-> {}]
InForm(f) == {r \in Responses : Of[r] = f}
Stored(r) == resp[r] \in {"live", "trash"}
Busy(x) == \E a \in Actors : job[a].target = x
Endings == {"workspace", "account"}
Ending == \E a \in Actors : job[a].kind \in Endings

Init ==
  /\ form = [f \in Forms |-> "live"]
  /\ resp = [r \in Responses |-> "none"]
  /\ expired = {} /\ files = {} /\ hanging = {} /\ setup = Forms
  /\ space = "whole" /\ signIn = TRUE
  /\ job = [a \in Actors |-> Idle]
  /\ pending = [r \in Responses |-> None]
  /\ late = {} /\ ripe = {} /\ faults = 0

------------------------------------------------------------------------------
(* Writes that check first and store later.                                   *)

\* A submission, or a note, a score or a respondent link on a response that is
\* there: the checks.
CheckWrite(r) ==
  /\ pending[r] = None
  /\ form[Of[r]] = "live"
  /\ \/ resp[r] = "none" /\ pending' = [pending EXCEPT ![r] = "submission"]
     \/ resp[r] = "live" /\ pending' = [pending EXCEPT ![r] = "note"]
  /\ UNCHANGED <<rows, kept, job>>

\* Storing it.  A submission's number is taken from the form's counter, which
\* an upsert makes anew when it is gone.
StoreWrite(r) ==
  /\ pending[r] # None
  /\ IF pending[r] = "submission"
     THEN /\ resp' = [resp EXCEPT ![r] = "live"]
          /\ files' = files \cup {r}
          /\ setup' = setup \cup {Of[r]}
          /\ UNCHANGED hanging
     ELSE hanging' = hanging \cup {r} /\ UNCHANGED <<resp, files, setup>>
  /\ late' = IF form[Of[r]] = "gone" \/ resp[r] = "gone" \/ Busy(Of[r]) \/ Busy(r)
                \/ Ending
             THEN late \cup {r} ELSE late
  /\ pending' = [pending EXCEPT ![r] = None]
  /\ UNCHANGED <<form, expired, space, signIn, job, ripe, faults>>

------------------------------------------------------------------------------
(* Into Trash, out of it, and time.                                           *)

\* trashForm: DELETE /forms/:id.  Its responses are hidden with it, untouched.
TrashForm(f) ==
  /\ form[f] = "live"
  /\ form' = [form EXCEPT ![f] = "trash"]
  /\ UNCHANGED <<resp, expired, files, hanging, setup, space, signIn, job, pending, kept>>

\* deleteResponse, and the bulk delete: only in a form that is live.
TrashResponse(r) ==
  /\ resp[r] = "live" /\ form[Of[r]] = "live"
  /\ resp' = [resp EXCEPT ![r] = "trash"]
  /\ UNCHANGED <<form, expired, files, hanging, setup, space, signIn, job, pending, kept>>

\* Variant: the delete date stays on the row.
RestoreFormKeepsDate(f) ==
  /\ form[f] = "trash"
  /\ form' = [form EXCEPT ![f] = "live"]
  /\ UNCHANGED <<resp, expired, files, hanging, setup, space, signIn, job, pending, kept>>
\* restoreItem for a form.
RestoreForm(f) ==
  /\ form[f] = "trash"
  /\ form' = [form EXCEPT ![f] = "live"]
  /\ expired' = expired \ {f}
  /\ UNCHANGED <<resp, files, hanging, setup, space, signIn, job, pending, kept>>

\* restoreItem for a response: refused while its form is in Trash.
RestoreResponse(r) ==
  /\ resp[r] = "trash" /\ form[Of[r]] = "live"
  /\ resp' = [resp EXCEPT ![r] = "live"]
  /\ expired' = expired \ {r}
  /\ UNCHANGED <<form, files, hanging, setup, space, signIn, job, pending, kept>>

\* The retention window passes for something in Trash.
Expire(x) ==
  /\ x \notin expired
  /\ \/ x \in Forms /\ form[x] = "trash"
     \/ x \in Responses /\ resp[x] = "trash"
  /\ expired' = expired \cup {x}
  /\ ripe' = ripe \cup {x}
  /\ UNCHANGED <<form, resp, files, hanging, setup, space, signIn, job, pending, late, faults>>

------------------------------------------------------------------------------
(* Starting a purge.                                                          *)

Begin(a, j) ==
  /\ job[a] = Idle
  /\ job' = [job EXCEPT ![a] = j]
  /\ UNCHANGED <<rows, pending, kept>>

Purge(kind, fs, rs) ==
  [Idle EXCEPT !.kind = kind, !.at = "next", !.forms = fs, !.resps = rs]

\* purgeItem: a form or a response that is in Trash.
PurgeItem(a) ==
  /\ a \notin Timers
  /\ \/ \E f \in Forms : form[f] = "trash" /\ Begin(a, Purge("item", {f}, {}))
     \/ \E r \in Responses : resp[r] = "trash" /\ form[Of[r]] # "gone"
                             /\ Begin(a, Purge("item", {}, {r}))

\* emptyTrash: first every form of this context that is in Trash.
EmptyTrash(a) ==
  /\ a \notin Timers
  /\ Begin(a, Purge("empty", {f \in Forms : form[f] = "trash"}, {}))

\* What the timer's query for forms, then for responses, may return: at most
\* Batch of the matches, in no particular order.
Batches(S) == {B \in SUBSET S : Cardinality(B) = IF Cardinality(S) < Batch
                                                 THEN Cardinality(S) ELSE Batch}
\* Variant: the cutoff is dropped from the query.
ExpiredFormsAny == {f \in Forms : form[f] = "trash"}
ExpiredForms == {f \in Forms : form[f] = "trash" /\ f \in expired}
ExpiredResponses == {r \in Responses : resp[r] = "trash" /\ r \in expired}

\* purgeExpiredTrash: the batch of expired forms.
Sweep(a) ==
  /\ a \in Timers
  /\ ExpiredForms \cup ExpiredResponses # {}
  /\ \E B \in Batches(ExpiredForms) : Begin(a, Purge("sweep", B, {}))

\* deleteWorkspace, of its owner or of a platform administrator.  The workspace
\* row is the only thing it needs: it can be asked for again after a failure.
DeleteWorkspace(a) ==
  /\ a \notin Timers /\ space \in {"whole", "no_members"}
  /\ Begin(a, Purge("workspace", {f \in Forms : form[f] # "gone"}, {}))

\* deleteAccountFlow of an owner who shares the workspace with nobody.  The
\* sign-in account goes first, so that it cannot be asked for again.
CloseAccount(a) ==
  /\ a \notin Timers
  /\ signIn /\ signIn' = FALSE
  /\ job[a] = Idle
  /\ job' = [job EXCEPT ![a] = Purge("account", {f \in Forms : form[f] # "gone"}, {})]
  /\ UNCHANGED <<form, resp, expired, files, hanging, setup, space, pending, kept>>

------------------------------------------------------------------------------
(* deleteFormData, a round trip per step, then the form's row.                *)

Step(a, from, to) ==
  /\ job[a].at = from
  /\ job' = [job EXCEPT ![a].at = to]
  /\ UNCHANGED <<pending, kept>>

\* The next form of the purge; its files and their Upload rows go first.
TakeForm(a) ==
  /\ job[a].at = "next"
  /\ \E f \in job[a].forms :
       /\ job' = [job EXCEPT ![a].at = "ids", ![a].target = f, ![a].forms = @ \ {f}]
       /\ files' = files \ InForm(f)
  /\ UNCHANGED <<form, resp, expired, hanging, setup, space, signIn, pending, kept>>

\* Variant: the responses in Trash are hidden from the read.
ReadIdsLive(a) ==
  /\ job[a].at = "ids"
  /\ job' = [job EXCEPT ![a].at = "hanging",
                        ![a].ids = {r \in InForm(job[a].target) : resp[r] = "live"}]
  /\ UNCHANGED <<rows, pending, kept>>
\* The ids of the form's responses, test submissions and trashed ones included.
ReadIds(a) ==
  /\ job[a].at = "ids"
  /\ job' = [job EXCEPT ![a].at = "hanging",
                        ![a].ids = {r \in InForm(job[a].target) : Stored(r)}]
  /\ UNCHANGED <<rows, pending, kept>>

RemoveHanging(a) ==
  /\ Step(a, "hanging", "responses")
  /\ hanging' = hanging \ job[a].ids
  /\ UNCHANGED <<form, resp, expired, files, setup, space, signIn>>

Removed(S) == [r \in Responses |-> IF r \in S /\ Stored(r) THEN "gone" ELSE resp[r]]

RemoveResponses(a) ==
  /\ Step(a, "responses", "setup")
  /\ resp' = Removed(InForm(job[a].target))
  /\ expired' = expired \ InForm(job[a].target)
  /\ UNCHANGED <<form, files, hanging, setup, space, signIn>>

\* Variant: a failure leaves the purge where it was.
OnwardStuck(a) == job
\* The purge goes on with its next item.
Onward(a) == [job EXCEPT ![a].at = "next", ![a].target = None, ![a].ids = {}]

\* A workspace's form rows go together, after the last form's data.
RemoveSetup(a) ==
  /\ job[a].at = "setup"
  /\ setup' = setup \ {job[a].target}
  /\ job' = IF job[a].kind \in Endings THEN Onward(a) ELSE [job EXCEPT ![a].at = "row"]
  /\ UNCHANGED <<form, resp, expired, files, hanging, space, signIn, pending, kept>>

\* purgeForm's last step.
RemoveForm(a) ==
  /\ job[a].at = "row"
  /\ form' = [form EXCEPT ![job[a].target] = "gone"]
  /\ expired' = expired \ {job[a].target}
  /\ job' = Onward(a)
  /\ UNCHANGED <<resp, files, hanging, setup, space, signIn, pending, kept>>

\* After the forms: the timer reads expired responses, whatever their form;
\* emptyTrash those of the forms that are live.
TakeTrashedResponses(a) ==
  /\ job[a].at = "next" /\ job[a].forms = {}
  /\ job[a].kind \in {"sweep", "empty"}
  /\ \E B \in IF job[a].kind = "sweep" THEN Batches(ExpiredResponses)
              ELSE {{r \in Responses : resp[r] = "trash" /\ form[Of[r]] = "live"}} :
       job' = [job EXCEPT ![a].kind = "item", ![a].resps = B]
  /\ UNCHANGED <<rows, pending, kept>>

------------------------------------------------------------------------------
(* purgeResponse.                                                             *)

\* The next response of the purge: its files go first.
TakeResponse(a) ==
  /\ job[a].at = "next" /\ job[a].forms = {}
  /\ \E r \in job[a].resps :
       /\ job' = [job EXCEPT ![a].at = "rhanging", ![a].target = r, ![a].resps = @ \ {r}]
       /\ files' = files \ {r}
  /\ UNCHANGED <<form, resp, expired, hanging, setup, space, signIn, pending, kept>>
RemoveResponseHanging(a) ==
  /\ Step(a, "rhanging", "rrow")
  /\ hanging' = hanging \ {job[a].target}
  /\ UNCHANGED <<form, resp, expired, files, setup, space, signIn>>

RemoveResponse(a) ==
  /\ job[a].at = "rrow"
  /\ resp' = Removed({job[a].target})
  /\ expired' = expired \ {job[a].target}
  /\ job' = Onward(a)
  /\ UNCHANGED <<form, files, hanging, setup, space, signIn, pending, kept>>

------------------------------------------------------------------------------
(* The end of a purge.                                                        *)

Finish(a) ==
  /\ job[a] = Purge("item", {}, {})
  /\ job' = [job EXCEPT ![a] = Idle]
  /\ UNCHANGED <<rows, pending, kept>>

\* deleteWorkspaceData after the forms' data: the form rows, the workspace's
\* settings and memberships, and in the end the workspace.
RemoveWorkspaceForms(a) ==
  /\ job[a].kind \in Endings /\ job[a].forms = {} /\ job[a].at = "next"
  /\ form' = [f \in Forms |-> "gone"]
  /\ expired' = expired \ Forms
  /\ job' = [job EXCEPT ![a].at = "members"]
  /\ UNCHANGED <<resp, files, hanging, setup, space, signIn, pending, kept>>

RemoveMembers(a) ==
  /\ Step(a, "members", "space")
  /\ space' = IF space = "gone" THEN "gone" ELSE "no_members"
  /\ UNCHANGED <<form, resp, expired, files, hanging, setup, signIn>>

RemoveWorkspace(a) ==
  /\ job[a].at = "space"
  /\ space' = "gone"
  /\ job' = [job EXCEPT ![a] = Idle]
  /\ UNCHANGED <<form, resp, expired, files, hanging, setup, signIn, pending, kept>>

\* A round trip fails, or the process stops.  The timer catches a failure, goes
\* on with its batch and comes back to what is still in Trash; a request ends.
Fail(a) ==
  /\ job[a] # Idle /\ faults < MaxFaults
  /\ faults' = faults + 1
  /\ job' = IF a \in Timers THEN Onward(a) ELSE [job EXCEPT ![a] = Idle]
  /\ UNCHANGED <<rows, pending, late, ripe>>

PurgeStep(a) ==
  \/ TakeForm(a) \/ ReadIds(a) \/ RemoveHanging(a)
  \/ RemoveResponses(a) \/ RemoveSetup(a) \/ RemoveForm(a)
  \/ TakeTrashedResponses(a) \/ TakeResponse(a)
  \/ RemoveResponseHanging(a) \/ RemoveResponse(a) \/ Finish(a)
  \/ RemoveWorkspaceForms(a) \/ RemoveMembers(a) \/ RemoveWorkspace(a)

Next ==
  \/ \E r \in Responses : CheckWrite(r) \/ StoreWrite(r) \/ TrashResponse(r)
                          \/ RestoreResponse(r)
  \/ \E f \in Forms : TrashForm(f) \/ RestoreForm(f)
  \/ \E x \in Forms \cup Responses : Expire(x)
  \/ \E a \in Actors : PurgeItem(a) \/ EmptyTrash(a) \/ Sweep(a)
                       \/ DeleteWorkspace(a) \/ CloseAccount(a) \/ PurgeStep(a) \/ Fail(a)

\* The timers fire every five minutes and a purge that runs goes on.
Fairness == \A a \in Actors : WF_vars(PurgeStep(a)) /\ WF_vars(Sweep(a))

Spec == Init /\ [][Next]_vars /\ Fairness

------------------------------------------------------------------------------
Places == {"idle", "next", "ids", "hanging", "responses", "setup", "row",
           "rhanging", "rrow", "members", "space"}

\* The variables keep their types, and no row outlives its own expiry mark.
TypeOK ==
  /\ form \in [Forms -> {"live", "trash", "gone"}]
  /\ resp \in [Responses -> {"none", "live", "trash", "gone"}]
  /\ expired \subseteq {f \in Forms : form[f] = "trash"}
                       \cup {r \in Responses : resp[r] = "trash"}
  /\ files \cup hanging \cup late \subseteq Responses /\ setup \subseteq Forms
  /\ space \in {"whole", "no_members", "gone"}
  /\ \A a \in Actors : job[a].at \in Places

\* Wherever the purges stand or stopped, a row that is gone left nothing behind:
\* a form no response, file, note or setting, a response no file and no note,
\* but for what was written beside the purge (late).  A workspace's forms stay
\* open to submissions until the last of them has lost its data.
NoOrphans ==
  /\ \A f \in Forms : form[f] = "gone" /\ late \cap InForm(f) = {} =>
       /\ f \notin setup
       /\ \A r \in InForm(f) : ~Stored(r) /\ r \notin files \cup hanging
  /\ \A r \in Responses : resp[r] = "gone" /\ r \notin late => r \notin files \cup hanging

\* Every row has its type, and a row that is gone leaves nothing behind.
PurgesHold == TypeOK /\ NoOrphans

\* A form the timer removes sat in Trash for the whole retention window: nobody
\* loses a form that was never deleted, or that was deleted a day ago.
SweepKeepsRecent ==
  [][\A f \in Forms : \A a \in Timers :
       form[f] # "gone" /\ form'[f] = "gone" /\ job[a].target = f
         /\ (\A b \in Actors \ Timers : job[b] = Idle) => f \in ripe]_vars

\* services/trash.service.ts: "Responses deleted on their own and past the
\* window - only those whose form is live (the rest went with their form above,
\* or will on a later pass)": the timer takes no response out of a form that is
\* still in Trash and whose own window has not passed.
SweepSparesTrashedForms ==
  [][\A r \in Responses : \A a \in Timers :
       job'[a].target = r /\ job[a].target # r => form[Of[r]] = "live"]_vars

\* A trashed form whose window has passed is purged in the end, unless somebody
\* takes it back: over failed purges and restarts.  The same for a response.
ExpiredPurged ==
  /\ \A f \in Forms : f \in expired ~> (f \notin expired)
  /\ \A r \in Responses : r \in expired ~> (r \notin expired)
==============================================================================
