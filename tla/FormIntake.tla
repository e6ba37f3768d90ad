----------------------------- MODULE FormIntake -----------------------------
(***************************************************************************)
(* One form of the platform and everything that can happen to it while     *)
(* people answer it: the public submission pipeline, the builder's test    *)
(* submissions, the editors who publish, close, archive, trash or          *)
(* re-configure the form, and the sweep that closes a form on its date.    *)
(*                                                                         *)
(* Every await of the code is a point where the others may run, so a       *)
(* request is a process with a control state (pc) and one action stands    *)
(* for the code between two awaits.  A single database call is atomic.     *)
(***************************************************************************)
EXTENDS Naturals, FiniteSets

CONSTANTS
  Requests,     (* submissions that may arrive, public ones and tests       *)
  Tests,        (* those that are test submissions of a builder             *)
  Editors,      (* people with the form open in the builder                 *)
  Limits,       (* response limits an editor may choose                     *)
  Dates,        (* closing dates an editor may choose                       *)
  NoLimit,      (* responseLimitEnabled is false                            *)
  NoDate,       (* closeDate is unset                                       *)
  MaxTime,      (* bound: the last tick of the clock                        *)
  MaxEdits,     (* bound: how many edits are begun                          *)
  MaxFailures   (* bound: how many requests die half way                    *)

ASSUME IntakeAssumption ==
  /\ Tests \subseteq Requests
  /\ NoLimit \notin Nat /\ Limits \subseteq Nat \cup {NoLimit} /\ Limits # {}
  /\ NoDate \notin Nat /\ Dates \subseteq Nat \cup {NoDate} /\ Dates # {}
  /\ MaxTime \in Nat /\ MaxEdits \in Nat /\ MaxFailures \in Nat

Statuses == {"draft", "published", "closed"}
Fields == {"status", "archived", "trashed", "limit", "closeDate"}
FormDocs == [status: Statuses, archived: BOOLEAN, trashed: BOOLEAN,
             limit: Nat \cup {NoLimit}, closeDate: Nat \cup {NoDate}]
Reasons == {"closedByDate", "limitReached", "closed"}
Answers == Reasons \cup {"none", "accepted", "unheard", "notfound", "invalid",
                         "pretended", "late", "failed"}
Controls == {"idle", "look", "judge", "shut", "prepare", "validate", "allocate", "create",
             "recount", "undo", "undoclose", "fill", "reply", "done"}

VARIABLES
  form,        (* the stored form document                                  *)
  now,         (* the clock closing dates are compared with                 *)
  stored,      (* ids of the stored responses; a request creates at most one *)
  counter,     (* the form's FormReferenceCounter.seq                       *)
  number,      (* the number a request was allocated, 0 before              *)
  pc,          (* control state of each request                             *)
  gate,        (* which of the three availability checks it is at           *)
  seen,        (* the form document it read last                            *)
  answer,      (* the HTTP answer it settled on                             *)
  edits,       (* the update each editor is about to write                  *)
  sweep,       (* the closing-date sweep found the form and will close it   *)
  editsUsed, failuresUsed,  (* counters of the bounds                       *)
  past         (* history: limits ever in force, statuses ever chosen by an *)
               (* editor, requests that overlapped an open form, requests   *)
               (* that saw nothing but an editor's draft                    *)

requestVars == <<pc, gate, seen, answer>>
editVars == <<edits, editsUsed>>
vars == <<form, now, stored, counter, number, requestVars, editVars, sweep,
          failuresUsed, past>>

-----------------------------------------------------------------------------
Blank == [status |-> "draft", archived |-> FALSE, trashed |-> FALSE,
          limit |-> NoLimit, closeDate |-> NoDate]
NoEdit == [fields |-> {}, want |-> Blank]

\* Response count as the model hook gives it: tests never count, trashed do.
Count == Cardinality(stored \ Tests)

DatePassed(doc) == doc.closeDate # NoDate /\ now > doc.closeDate
LimitFull(doc) == doc.limit # NoLimit /\ Count >= doc.limit
Open(doc) == doc.status = "published" /\ ~doc.archived /\ ~doc.trashed /\ ~DatePassed(doc)

\* Why a form takes no responses, in the order a respondent would care about.
Closed(doc, why) ==
  \/ why = "closedByDate" /\ DatePassed(doc)
  \/ why = "limitReached" /\ ~DatePassed(doc) /\ LimitFull(doc)
  \/ why = "closed" /\ ~DatePassed(doc) /\ ~LimitFull(doc) /\ doc.status = "closed"

Accepted == {r \in Requests : pc[r] \in {"fill", "reply"} \/ answer[r] \in {"accepted", "unheard"}}
InFlight == {r \in Requests : pc[r] \notin {"idle", "done"}}

Init ==
  /\ form \in [status: {"draft", "published"}, archived: {FALSE}, trashed: {FALSE},
               limit: Limits, closeDate: Dates]
  /\ now = 0 /\ stored = {} /\ counter = 0
  /\ number = [r \in Requests |-> 0]
  /\ pc = [r \in Requests |-> "idle"]
  /\ gate = [r \in Requests |-> 0]
  /\ seen = [r \in Requests |-> Blank]
  /\ answer = [r \in Requests |-> "none"]
  /\ edits = [e \in Editors |-> NoEdit]
  /\ sweep = FALSE /\ editsUsed = 0 /\ failuresUsed = 0
  /\ past = [limits |-> {form.limit}, chosen |-> {form.status}, last |-> form.status,
             overlap |-> {}, hidden |-> {}]
-----------------------------------------------------------------------------
(* Control of a request. *)

Goto(r, label) ==
  /\ pc' = [pc EXCEPT ![r] = label]
  /\ UNCHANGED <<gate, seen, answer>>

Finish(r, result) ==
  /\ pc' = [pc EXCEPT ![r] = "done"]
  /\ answer' = [answer EXCEPT ![r] = result]
  /\ seen' = [seen EXCEPT ![r] = Blank]
  /\ gate' = [gate EXCEPT ![r] = 0]

EnterGate(r, g) ==
  /\ pc' = [pc EXCEPT ![r] = "look"]
  /\ gate' = [gate EXCEPT ![r] = g]
  /\ UNCHANGED <<seen, answer>>

DataUnchanged == UNCHANGED <<form, stored, counter, number>>
OthersUnchanged == UNCHANGED <<now, editVars, sweep, failuresUsed>>

\* A submission arrives.  A public one meets three checks: before any upload
\* is read (1), in the public handler (2) and in the service (3).
Arrive(r) ==
  /\ pc[r] = "idle"
  /\ EnterGate(r, IF r \in Tests THEN 3 ELSE 1)
  /\ DataUnchanged /\ OthersUnchanged

\* Form.findOne: a trashed form is hidden by the query hook.
Look(r) ==
  /\ pc[r] = "look"
  /\ \/ form.trashed /\ Finish(r, "notfound")
     \/ /\ ~form.trashed
        /\ pc' = [pc EXCEPT ![r] = IF r \in Tests THEN "validate" ELSE "judge"]
        /\ seen' = [seen EXCEPT ![r] = form]
        /\ UNCHANGED <<gate, answer>>
  /\ DataUnchanged /\ OthersUnchanged

\* Variant: only archived forms are concealed.
ConcealedArchivedOnly(r) == gate[r] < 3 /\ seen[r].archived

\* The public checks answer an archived form and a draft as if they did not exist.
Concealed(r) == gate[r] < 3 /\ (seen[r].archived \/ seen[r].status = "draft")

\* Variant: one check too many after the last.
JudgeOnceMore(r) ==
  /\ pc[r] = "judge"
  /\ \/ Concealed(r) /\ Finish(r, "notfound")
     \/ ~Concealed(r) /\ EnterGate(r, gate[r] + 1)
  /\ DataUnchanged /\ OthersUnchanged

\* checkFormAvailability, up to the status write.
Judge(r) ==
  /\ pc[r] = "judge"
  /\ \/ Concealed(r) /\ Finish(r, "notfound")
     \/ \E why \in Reasons :
          /\ ~Concealed(r) /\ Closed(seen[r], why)
          /\ \/ seen[r].status = "closed" /\ Finish(r, why)
             \/ /\ seen[r].status # "closed"
                /\ pc' = [pc EXCEPT ![r] = "shut"]
                /\ answer' = [answer EXCEPT ![r] = why]
                /\ UNCHANGED <<gate, seen>>
     \/ /\ ~Concealed(r) /\ \A why \in Reasons : ~Closed(seen[r], why)
        /\ \/ gate[r] = 1 /\ EnterGate(r, 2)
           \/ gate[r] = 2 /\ Goto(r, "prepare")
           \/ gate[r] = 3 /\ Goto(r, "validate")
  /\ DataUnchanged /\ OthersUnchanged

\* The owner is past the storage ceiling: the check starts by answering 404.
OverCeiling(r) ==
  /\ pc[r] = "judge"
  /\ Finish(r, "notfound")
  /\ DataUnchanged /\ OthersUnchanged

\* Form.updateOne({_id}, {status: "closed"}): by id only, whatever is stored now.
Shut(r) ==
  /\ pc[r] = "shut"
  /\ form' = [form EXCEPT !.status = "closed"]
  /\ Finish(r, answer[r])
  /\ UNCHANGED <<stored, counter, number>> /\ OthersUnchanged

\* A filled honeypot field is answered like a success and stores nothing.
Honeypot(r) ==
  /\ pc[r] = "prepare"
  /\ Finish(r, "pretended")
  /\ DataUnchanged /\ OthersUnchanged

\* Proof of identity, file rules, size: 401, 413 or 422 before the service is called.
Prepare(r) ==
  /\ pc[r] = "prepare"
  /\ Finish(r, "invalid") \/ EnterGate(r, 3)
  /\ DataUnchanged /\ OthersUnchanged

\* Variant: the public skips the number too.
ValidateUnnumbered(r) ==
  /\ pc[r] = "validate"
  /\ Finish(r, "invalid") \/ Goto(r, "create")
  /\ DataUnchanged /\ OthersUnchanged

\* validateAnswers: 422, or go on.  A test skips the number.
Validate(r) ==
  /\ pc[r] = "validate"
  /\ \/ Finish(r, "invalid")
     \/ Goto(r, IF r \in Tests THEN "create" ELSE "allocate")
  /\ DataUnchanged /\ OthersUnchanged

\* Variant: the number is the count of responses plus one.
AllocateByCount(r) ==
  /\ pc[r] = "allocate"
  /\ counter' = Count + 1
  /\ number' = [number EXCEPT ![r] = Count + 1]
  /\ Goto(r, "create")
  /\ UNCHANGED <<form, stored>> /\ OthersUnchanged

Allocate(r) ==
  /\ pc[r] = "allocate"
  /\ counter' = counter + 1
  /\ number' = [number EXCEPT ![r] = counter + 1]
  /\ Goto(r, "create")
  /\ UNCHANGED <<form, stored>> /\ OthersUnchanged

Create(r) ==
  /\ pc[r] = "create"
  /\ stored' = stored \cup {r}
  /\ Goto(r, IF r \in Tests \/ seen[r].limit = NoLimit THEN "reply" ELSE "recount")
  /\ UNCHANGED <<form, counter, number>> /\ OthersUnchanged

\* Variant: one response too many is let through.
RecountOffByOne(r) ==
  /\ pc[r] = "recount"
  /\ Goto(r, IF Count > seen[r].limit + 1 THEN "undo"
             ELSE IF Count >= seen[r].limit THEN "fill" ELSE "reply")
  /\ DataUnchanged /\ OthersUnchanged

\* Variant: the last place taken is not noticed.
RecountNeverFills(r) ==
  /\ pc[r] = "recount"
  /\ Goto(r, IF Count > seen[r].limit THEN "undo" ELSE "reply")
  /\ DataUnchanged /\ OthersUnchanged

\* The count after the insert, against the limit read before it.
Recount(r) ==
  /\ pc[r] = "recount"
  /\ Goto(r, IF Count > seen[r].limit THEN "undo"
             ELSE IF Count >= seen[r].limit THEN "fill" ELSE "reply")
  /\ DataUnchanged /\ OthersUnchanged

\* Variant: the surplus response is refused but left in place.
UndoLeavesIt(r) ==
  /\ pc[r] = "undo"
  /\ Goto(r, "undoclose")
  /\ DataUnchanged /\ OthersUnchanged

\* Variant: the deletion is repeated for ever.
UndoAgain(r) ==
  /\ pc[r] = "undo"
  /\ stored' = stored \ {r}
  /\ Goto(r, "undo")
  /\ UNCHANGED <<form, counter, number>> /\ OthersUnchanged

Undo(r) ==
  /\ pc[r] = "undo"
  /\ stored' = stored \ {r}
  /\ Goto(r, "undoclose")
  /\ UNCHANGED <<form, counter, number>> /\ OthersUnchanged

UndoClose(r) ==
  /\ pc[r] = "undoclose"
  /\ form' = [form EXCEPT !.status = "closed"]
  /\ Finish(r, "late")
  /\ UNCHANGED <<stored, counter, number>> /\ OthersUnchanged

\* Variant: the response that takes the last place is itself refused.
FillRefuses(r) ==
  /\ pc[r] = "fill"
  /\ form' = [form EXCEPT !.status = "closed"]
  /\ Finish(r, "late")
  /\ UNCHANGED <<stored, counter, number>> /\ OthersUnchanged

\* The last place is taken: the form is stored as closed.
Fill(r) ==
  /\ pc[r] = "fill"
  /\ form' = [form EXCEPT !.status = "closed"]
  /\ Goto(r, "reply")
  /\ UNCHANGED <<stored, counter, number>> /\ OthersUnchanged

Reply(r) ==
  /\ pc[r] = "reply"
  /\ Finish(r, "accepted")
  /\ DataUnchanged /\ OthersUnchanged

\* A database call throws or the process dies: nothing is rolled back, and
\* once the response has its place it stays although nobody is told.
Fail(r) ==
  /\ r \in InFlight /\ failuresUsed < MaxFailures
  /\ Finish(r, IF r \in Accepted THEN "unheard" ELSE "failed")
  /\ failuresUsed' = failuresUsed + 1
  /\ DataUnchanged /\ UNCHANGED <<now, editVars, sweep>>

Step(r) ==
  \/ Look(r) \/ Judge(r) \/ OverCeiling(r) \/ Shut(r) \/ Honeypot(r)
  \/ Prepare(r) \/ Validate(r) \/ Allocate(r) \/ Create(r) \/ Recount(r) \/ Undo(r)
  \/ UndoClose(r) \/ Fill(r) \/ Reply(r)
-----------------------------------------------------------------------------
(* Editors: every operation reads the form, checks it, and writes by id. *)

\* The update an operation decides on, from the document it read.
SetStatus(doc, status) == [fields |-> {"status"}, want |-> [doc EXCEPT !.status = status]]
\* The pre-flight commit chooses a date and writes back all the settings it read.
GoLive(doc, date) ==
  [fields |-> {"status", "limit", "closeDate"},
   want |-> [doc EXCEPT !.status = "published", !.closeDate = date]]
Settings(doc, limit, date) ==
  [fields |-> {"limit", "closeDate"}, want |-> [doc EXCEPT !.limit = limit, !.closeDate = date]]
SetArchived(doc, flag) == [fields |-> {"archived"}, want |-> [doc EXCEPT !.archived = flag]]
Trash(doc) == [fields |-> {"trashed"}, want |-> [doc EXCEPT !.trashed = TRUE]]

Decide(e, edit) ==
  /\ edits' = [edits EXCEPT ![e] = edit]
  /\ editsUsed' = editsUsed + 1

BeginEdit(e) ==
  /\ edits[e] = NoEdit /\ editsUsed < MaxEdits /\ ~form.trashed
  /\ \/ ~form.archived /\ Decide(e, SetStatus(form, "published"))
     \/ ~form.archived /\ \E d \in Dates : Decide(e, GoLive(form, d))
     \/ \E l \in Limits, d \in Dates : Decide(e, Settings(form, l, d))
     \/ form.status # "draft" /\ Decide(e, SetStatus(form, "draft"))
     \/ Decide(e, SetStatus(form, "closed"))
     \/ Decide(e, SetArchived(form, ~form.archived))
     \/ Decide(e, Trash(form))
  /\ DataUnchanged /\ UNCHANGED <<requestVars, now, sweep, failuresUsed>>

Merge(doc, edit) ==
  LET Pick(f) == IF f \in edit.fields THEN edit.want[f] ELSE doc[f]
  IN [status |-> Pick("status"), archived |-> Pick("archived"), trashed |-> Pick("trashed"),
      limit |-> Pick("limit"), closeDate |-> Pick("closeDate")]

\* findOneAndUpdate: no match, hence a 404, when the form is in Trash by now.
CommitEdit(e) ==
  /\ edits[e] # NoEdit
  /\ form' = IF form.trashed THEN form ELSE Merge(form, edits[e])
  /\ edits' = [edits EXCEPT ![e] = NoEdit]
  /\ UNCHANGED <<stored, counter, number, requestVars, now, sweep, editsUsed, failuresUsed>>

RestoreForm ==
  /\ form.trashed /\ editsUsed < MaxEdits
  /\ form' = [form EXCEPT !.trashed = FALSE]
  /\ editsUsed' = editsUsed + 1
  /\ UNCHANGED <<stored, counter, number, requestVars, now, edits, sweep, failuresUsed>>

\* A response is deleted for good; its number and its place are not given back.
PurgeResponse(r) ==
  /\ r \in stored /\ editsUsed < MaxEdits
  /\ stored' = stored \ {r}
  /\ editsUsed' = editsUsed + 1
  /\ UNCHANGED <<form, counter, number, requestVars, now, edits, sweep, failuresUsed>>
-----------------------------------------------------------------------------
(* Time, and closeExpiredForms on its timer. *)

Tick ==
  /\ now < MaxTime
  /\ now' = now + 1
  /\ DataUnchanged /\ UNCHANGED <<requestVars, editVars, sweep, failuresUsed>>

SweepFinds ==
  /\ ~sweep /\ ~form.trashed /\ form.status = "published" /\ DatePassed(form)
  /\ sweep' = TRUE
  /\ DataUnchanged /\ UNCHANGED <<requestVars, editVars, now, failuresUsed>>

SweepCloses ==
  /\ sweep
  /\ form' = IF form.status = "published" THEN [form EXCEPT !.status = "closed"] ELSE form
  /\ sweep' = FALSE
  /\ UNCHANGED <<stored, counter, number, requestVars, editVars, now, failuresUsed>>
-----------------------------------------------------------------------------
\* History only: what was true of the form while each request was under way.
Chooses(e) == CommitEdit(e) /\ ~form.trashed /\ "status" \in edits[e].fields

Remember ==
  LET lastNow == IF \E e \in Editors : Chooses(e) THEN form'.status ELSE past.last
  IN past' = [limits  |-> past.limits \cup {form'.limit},
              chosen  |-> past.chosen \cup {lastNow},
              last    |-> lastNow,
              overlap |-> past.overlap \cup (IF Open(form)' THEN InFlight' ELSE {}),
              hidden  |-> IF lastNow = "draft"
                          THEN past.hidden \cup {r \in Requests : pc[r] = "idle" /\ pc'[r] # "idle"}
                          ELSE past.hidden \ InFlight]

Next ==
  /\ \/ \E r \in Requests : Arrive(r) \/ Step(r) \/ Fail(r) \/ PurgeResponse(r)
     \/ \E e \in Editors : BeginEdit(e) \/ CommitEdit(e)
     \/ RestoreForm \/ Tick \/ SweepFinds \/ SweepCloses
  /\ Remember

Spec == Init /\ [][Next]_vars

\* The server runs what it has begun; nobody is obliged to come, edit or wait.
Fairness == \A r \in Requests : WF_vars(Step(r) /\ Remember)
FairSpec == Spec /\ Fairness
-----------------------------------------------------------------------------
(* Properties. *)

TypeOK ==
  /\ form \in FormDocs /\ now \in Nat /\ counter \in Nat
  /\ stored \subseteq Requests
  /\ number \in [Requests -> Nat]
  /\ pc \in [Requests -> Controls] /\ gate \in [Requests -> 0..3]
  /\ seen \in [Requests -> FormDocs] /\ answer \in [Requests -> Answers]
  /\ edits \in [Editors -> [fields: SUBSET Fields, want: FormDocs]]
  /\ sweep \in BOOLEAN /\ editsUsed \in Nat /\ failuresUsed \in Nat
  /\ past \in [limits: SUBSET (Nat \cup {NoLimit}), chosen: SUBSET Statuses, last: Statuses,
               overlap: SUBSET Requests, hidden: SUBSET Requests]

\* Submissions that raced past the check never overshoot: the accepted responses
\* still stored fit some limit the form has carried (submitForm's second count).
AcceptedWithinLimit ==
  NoLimit \notin past.limits =>
    \E l \in past.limits : Cardinality((Accepted \cap stored) \ Tests) <= l

\* When nothing is under way and no request died, what is stored was accepted:
\* an undone response leaves no trace and no refused one stays behind.
OnlyAcceptedRemain ==
  InFlight = {} /\ failuresUsed = 0 => stored \subseteq Accepted

\* No two submissions ever hold the same number, purged ones included, and an
\* accepted response of the public has one (allocateReference).
NumbersUnique ==
  /\ \A r, s \in Requests : r # s /\ number[r] # 0 => number[r] # number[s]
  /\ \A r \in Accepted \ Tests : number[r] # 0

\* A public response is only taken if the form was open to the public at some
\* moment of the request: not a draft, not archived, not in Trash, not expired.
AcceptedOnlyIfOpen == Accepted \ Tests \subseteq past.overlap

\* The pipeline, races, undos, failures and editors included, implements the
\* contract of IntakeContract.
Visitors == Requests \ Tests
Verdict == [v \in Visitors |-> IF v \in Accepted THEN "accepted"
                               ELSE IF pc[v] = "done" THEN "refused" ELSE "none"]
Contract == INSTANCE IntakeContract WITH
  verdict  <- Verdict,
  kept     <- Accepted \cap stored \cap Visitors,
  numberOf <- [v \in Visitors |-> IF v \in Accepted THEN number[v] ELSE 0],
  limits   <- past.limits
ImplementsContract == Contract!Spec

\* Every submission that arrives is answered.
EveryRequestAnswered == \A r \in Requests : pc[r] # "idle" ~> pc[r] = "done"

\* A form that reached its limit is stored as closed in the end, without a visitor
\* or a timer to notice it, unless a request died or an editor steps in.
Quiet == editsUsed = 0 /\ failuresUsed = 0
FullFormCloses == Quiet /\ LimitFull(form) ~> form.status = "closed" \/ ~Quiet

\* formUnavailable.ts: the answer FORM_CLOSED is for a form its owner closed.
ClosedIsOwnersChoice ==
  \A r \in Requests : pc[r] = "done" /\ answer[r] = "closed" => "closed" \in past.chosen

\* formUnavailable.ts: a visitor who meets nothing but a draft learns nothing about it.
DraftStaysHidden ==
  \A r \in past.hidden \ Tests : pc[r] = "done" => answer[r] \in {"notfound", "failed"}

\* publishForm: the pre-flight's choices are applied on top of what is stored, so
\* going live never changes the response limit.
GoingLiveKeepsLimit ==
  [][\A e \in Editors :
       CommitEdit(e) /\ edits[e].fields = {"status", "limit", "closeDate"} => form'.limit = form.limit]_vars

=============================================================================
