----------------------------- MODULE FormDeskProofs -----------------------------
(***************************************************************************)
(* Proofs about FormDesk, for every set of requests, editors, limits,      *)
(* dates, stages, categories and responses and every bound.  Of FormIntake:*)
(* types, the response limit, the reference numbers, the moment of         *)
(* openness, that nothing refused stays behind, and that the pipeline      *)
(* implements IntakeContract.  Of Stages: that responses stay in place and *)
(* a default stage remains.                                                *)
(***************************************************************************)
EXTENDS FormDesk, FiniteSetTheorems, TLAPS

USE IntakeAssumption

\* The control operators keep the types of the variables they write.
LEMMA ControlTypes ==
  ASSUME TypeOK, NEW r \in Requests
  PROVE  /\ \A label \in Controls : Goto(r, label) =>
              pc' \in [Requests -> Controls] /\ UNCHANGED <<gate, seen, answer>>
         /\ \A result \in Answers : Finish(r, result) =>
              /\ pc' \in [Requests -> Controls] /\ gate' \in [Requests -> 0..3]
              /\ seen' \in [Requests -> FormDocs] /\ answer' \in [Requests -> Answers]
         /\ \A g \in 0..3 : EnterGate(r, g) =>
              pc' \in [Requests -> Controls] /\ gate' \in [Requests -> 0..3] /\ UNCHANGED <<seen, answer>>
<1>1. "done" \in Controls /\ "look" \in Controls /\ Blank \in FormDocs
  BY DEF Controls, FormDocs, Blank, Statuses
<1>2. \A label \in Controls : Goto(r, label) =>
        pc' \in [Requests -> Controls] /\ UNCHANGED <<gate, seen, answer>>
  BY DEF TypeOK, Goto
<1>3. \A result \in Answers : Finish(r, result) =>
        /\ pc' \in [Requests -> Controls] /\ gate' \in [Requests -> 0..3]
        /\ seen' \in [Requests -> FormDocs] /\ answer' \in [Requests -> Answers]
  BY <1>1 DEF TypeOK, Finish
<1>4. \A g \in 0..3 : EnterGate(r, g) =>
        pc' \in [Requests -> Controls] /\ gate' \in [Requests -> 0..3] /\ UNCHANGED <<seen, answer>>
  BY <1>1 DEF TypeOK, EnterGate
<1> QED  BY <1>2, <1>3, <1>4

\* An edit merged into a document is a document.
LEMMA MergeType ==
  ASSUME NEW doc \in FormDocs, NEW edit \in [fields: SUBSET Fields, want: FormDocs]
  PROVE  Merge(doc, edit) \in FormDocs
BY DEF Merge, FormDocs, Fields

DataTypes ==
  /\ form \in FormDocs /\ counter \in Nat /\ stored \subseteq Requests
  /\ number \in [Requests -> Nat]
RequestTypes ==
  /\ pc \in [Requests -> Controls] /\ gate \in [Requests -> 0..3]
  /\ seen \in [Requests -> FormDocs] /\ answer \in [Requests -> Answers]
RestTypes ==
  /\ now \in Nat /\ sweep \in BOOLEAN /\ editsUsed \in Nat /\ failuresUsed \in Nat
  /\ edits \in [Editors -> [fields: SUBSET Fields, want: FormDocs]]
PastTypes ==
  past \in [limits: SUBSET (Nat \cup {NoLimit}), chosen: SUBSET Statuses, last: Statuses,
            overlap: SUBSET Requests, hidden: SUBSET Requests]

\* A step of a request keeps the types of the data and of the requests.
LEMMA RequestStepTypes ==
  ASSUME TypeOK, NEW r \in Requests, Arrive(r) \/ Step(r) \/ Fail(r)
  PROVE  DataTypes' /\ RequestTypes' /\ RestTypes'
<1> USE ControlTypes DEF TypeOK, DataTypes, RequestTypes, RestTypes, DataUnchanged, OthersUnchanged, editVars
<1>1. CASE Arrive(r)
  BY <1>1 DEF Arrive, Controls
<1>2. CASE Look(r)
  BY <1>2 DEF Look, Answers, Controls
<1>3. CASE Judge(r)
  <2>1. /\ "notfound" \in Answers /\ Reasons \subseteq Answers
        /\ "shut" \in Controls /\ "prepare" \in Controls /\ "validate" \in Controls
    BY DEF Answers, Controls
  <2>2. RestTypes' /\ DataTypes'
    BY <1>3 DEF Judge
  <2>3. CASE Concealed(r) /\ Finish(r, "notfound")
    BY <2>1, <2>2, <2>3
  <2>4. CASE \E why \in Reasons : Finish(r, why)
    BY <2>1, <2>2, <2>4
  <2>5. ASSUME NEW why \in Reasons,
               pc' = [pc EXCEPT ![r] = "shut"], answer' = [answer EXCEPT ![r] = why],
               UNCHANGED <<gate, seen>>
        PROVE  RequestTypes'
    BY <2>1, <2>5
  <2>6. CASE EnterGate(r, 2)
    BY <2>2, <2>6
  <2>7. CASE Goto(r, "prepare") \/ Goto(r, "validate")
    BY <2>1, <2>2, <2>7
  <2> QED  BY <1>3, <2>2, <2>3, <2>4, <2>5, <2>6, <2>7 DEF Judge
<1>4. CASE OverCeiling(r) \/ Honeypot(r)
  BY <1>4 DEF OverCeiling, Honeypot, Answers
<1>5. CASE Shut(r) \/ UndoClose(r) \/ Fill(r)
  <2>1. [form EXCEPT !.status = "closed"] \in FormDocs
    BY DEF FormDocs, Statuses
  <2>2. answer[r] \in Answers /\ "late" \in Answers /\ "reply" \in Controls
    BY DEF Answers, Controls
  <2> QED  BY <1>5, <2>1, <2>2 DEF Shut, UndoClose, Fill
<1>6. CASE Validate(r) \/ Allocate(r)
  BY <1>6 DEF Validate, Allocate, Answers, Controls
<1>9. CASE Prepare(r)
  BY <1>9 DEF Prepare, Answers
<1>7. CASE Create(r) \/ Undo(r) \/ Recount(r) \/ Reply(r)
  BY <1>7 DEF Create, Undo, Recount, Reply, Answers, Controls
<1>8. CASE Fail(r)
  BY <1>8 DEF Fail, Answers
<1> QED  BY <1>1, <1>2, <1>3, <1>4, <1>5, <1>6, <1>7, <1>8, <1>9 DEF Step

\* So does a step of a builder.
LEMMA EditStepTypes ==
  ASSUME TypeOK, NEW e \in Editors, BeginEdit(e) \/ CommitEdit(e)
  PROVE  DataTypes' /\ RequestTypes' /\ RestTypes'
<1> USE DEF TypeOK, DataTypes, RequestTypes, RestTypes, DataUnchanged, requestVars
<1>1. CASE BeginEdit(e)
  <2>1. \A edit \in [fields: SUBSET Fields, want: FormDocs] : Decide(e, edit) =>
          edits' \in [Editors -> [fields: SUBSET Fields, want: FormDocs]] /\ editsUsed' \in Nat
    BY DEF Decide
  <2>2. /\ \A s \in Statuses : SetStatus(form, s) \in [fields: SUBSET Fields, want: FormDocs]
        /\ \A d \in Dates : GoLive(form, d) \in [fields: SUBSET Fields, want: FormDocs]
        /\ \A l \in Limits, d \in Dates : Settings(form, l, d) \in [fields: SUBSET Fields, want: FormDocs]
        /\ \A b \in BOOLEAN : SetArchived(form, b) \in [fields: SUBSET Fields, want: FormDocs]
        /\ Trash(form) \in [fields: SUBSET Fields, want: FormDocs]
    BY DEF SetStatus, GoLive, Settings, SetArchived, Trash, FormDocs, Fields, Statuses
  <2>3. (~form.archived) \in BOOLEAN /\ {"draft", "published", "closed"} = Statuses
    BY DEF FormDocs, Statuses
  <2> QED  BY <1>1, <2>1, <2>2, <2>3 DEF BeginEdit
<1>2. CASE CommitEdit(e)
  <2>1. NoEdit \in [fields: SUBSET Fields, want: FormDocs]
    BY DEF NoEdit, Blank, FormDocs, Fields, Statuses
  <2> QED  BY <1>2, <2>1, MergeType DEF CommitEdit
<1> QED  BY <1>1, <1>2

\* What is remembered of the past is of its type.
LEMMA RememberType ==
  ASSUME TypeOK, DataTypes', Remember
  PROVE  PastTypes'
<1> DEFINE lastNow == IF \E e \in Editors : Chooses(e) THEN form'.status ELSE past.last
<1>1. lastNow \in Statuses /\ form'.limit \in Nat \cup {NoLimit}
  BY DEF TypeOK, DataTypes, FormDocs
<1>2. /\ past.limits \cup {form'.limit} \subseteq Nat \cup {NoLimit}
      /\ past.chosen \cup {lastNow} \subseteq Statuses
      /\ past.overlap \cup (IF Open(form)' THEN InFlight' ELSE {}) \subseteq Requests
      /\ (IF lastNow = "draft"
           THEN past.hidden \cup {r \in Requests : pc[r] = "idle" /\ pc'[r] # "idle"}
           ELSE past.hidden \ InFlight) \subseteq Requests
  BY <1>1 DEF TypeOK, InFlight
<1> HIDE DEF lastNow
<1> QED  BY <1>1, <1>2 DEF Remember, PastTypes, lastNow

\* FormIntake keeps its types: the builder, the public pipeline and the sweep
\* write only documents of the schema, and counters stay numbers.
THEOREM TypeCorrect == Spec => []TypeOK
<1>1. Init => TypeOK
  <2> SUFFICES ASSUME Init PROVE TypeOK
    OBVIOUS
  <2>1. Blank \in FormDocs /\ NoEdit \in [fields: SUBSET Fields, want: FormDocs]
    BY DEF FormDocs, Blank, NoEdit, Statuses
  <2>2. form \in FormDocs /\ {form.limit} \subseteq Nat \cup {NoLimit} /\ form.status \in Statuses
    BY DEF Init, FormDocs, Statuses
  <2>3. "idle" \in Controls /\ "none" \in Answers
    BY DEF Controls, Answers
  <2>4. past \in [limits: SUBSET (Nat \cup {NoLimit}), chosen: SUBSET Statuses, last: Statuses,
                  overlap: SUBSET Requests, hidden: SUBSET Requests]
    BY <2>2 DEF Init
  <2>5. /\ pc \in [Requests -> Controls] /\ gate \in [Requests -> 0..3]
        /\ seen \in [Requests -> FormDocs] /\ answer \in [Requests -> Answers]
    BY <2>1, <2>3 DEF Init
  <2>6. /\ now \in Nat /\ counter \in Nat /\ stored \subseteq Requests /\ number \in [Requests -> Nat]
        /\ edits \in [Editors -> [fields: SUBSET Fields, want: FormDocs]]
        /\ sweep \in BOOLEAN /\ editsUsed \in Nat /\ failuresUsed \in Nat
    BY <2>1 DEF Init
  <2> QED  BY <2>2, <2>4, <2>5, <2>6 DEF TypeOK
<1>2. TypeOK /\ [Next]_vars => TypeOK'
  <2> SUFFICES ASSUME TypeOK, [Next]_vars PROVE TypeOK'
    OBVIOUS
  <2> USE DEF DataTypes, RequestTypes, RestTypes, PastTypes
  <2>1. CASE Next
    <3>1. DataTypes' /\ RequestTypes' /\ RestTypes'
      <4>1. ASSUME NEW r \in Requests, Arrive(r) \/ Step(r) \/ Fail(r)
            PROVE  DataTypes' /\ RequestTypes' /\ RestTypes'
        BY <4>1, RequestStepTypes
      <4>2. ASSUME NEW r \in Requests, PurgeResponse(r)
            PROVE  DataTypes' /\ RequestTypes' /\ RestTypes'
        BY <4>2 DEF PurgeResponse, TypeOK, requestVars
      <4>3. ASSUME NEW e \in Editors, BeginEdit(e) \/ CommitEdit(e)
            PROVE  DataTypes' /\ RequestTypes' /\ RestTypes'
        BY <4>3, EditStepTypes
      <4>4. CASE RestoreForm \/ Tick \/ SweepFinds \/ SweepCloses
        <5>1. /\ [form EXCEPT !.trashed = FALSE] \in FormDocs
              /\ [form EXCEPT !.status = "closed"] \in FormDocs
          BY DEF TypeOK, FormDocs, Statuses
        <5>2. CASE RestoreForm
          BY <5>1, <5>2 DEF RestoreForm, TypeOK, requestVars
        <5>3. CASE Tick
          BY <5>3 DEF Tick, TypeOK, DataUnchanged, requestVars, editVars
        <5>4. CASE SweepFinds
          BY <5>4 DEF SweepFinds, TypeOK, DataUnchanged, requestVars, editVars
        <5>5. CASE SweepCloses
          BY <5>1, <5>5 DEF SweepCloses, TypeOK, requestVars, editVars
        <5> QED  BY <4>4, <5>2, <5>3, <5>4, <5>5
      <4> QED  BY <2>1, <4>1, <4>2, <4>3, <4>4 DEF Next
    <3>2. PastTypes'
      BY <2>1, <3>1, RememberType DEF Next
    <3> QED  BY <3>1, <3>2 DEF TypeOK
  <2>2. CASE UNCHANGED vars
    BY <2>2 DEF vars, requestVars, editVars, TypeOK
  <2> QED  BY <2>1, <2>2
<1> QED  BY <1>1, <1>2, PTL DEF Spec
-----------------------------------------------------------------------------
(* The response limit. *)

\* A document read by a request carries a limit the form really had, a second
\* count is only made under a limit, nobody is told before the request is done,
\* and the stored responses are finitely many.
LimitInv ==
  /\ IsFiniteSet(stored)
  /\ form.limit \in past.limits
  /\ \A r \in Requests : pc[r] \in {"judge", "validate", "allocate", "create", "recount"} =>
       seen[r].limit \in past.limits
  /\ \A r \in Requests : pc[r] = "recount" => seen[r].limit \in Nat
  /\ \A r \in Requests : pc[r] # "done" => answer[r] \notin {"accepted", "unheard"}
  /\ AcceptedWithinLimit

\* The limits on record only grow, and hold the present one.
LEMMA LimitsRemembered ==
  ASSUME Remember
  PROVE  past.limits \subseteq past'.limits /\ form'.limit \in past'.limits
BY DEF Remember

\* What an earlier state bounds stays bounded while nothing is accepted.
LEMMA StillWithin ==
  ASSUME AcceptedWithinLimit, IsFiniteSet(stored), past.limits \subseteq past'.limits,
         past.limits \subseteq Nat \cup {NoLimit},
         ((Accepted \cap stored) \ Tests)' \subseteq (Accepted \cap stored) \ Tests
  PROVE  AcceptedWithinLimit'
<1> SUFFICES ASSUME NoLimit \notin past'.limits
             PROVE  \E l \in past'.limits : Cardinality(((Accepted \cap stored) \ Tests)') <= l
  BY DEF AcceptedWithinLimit
<1>1. PICK l \in past.limits : Cardinality((Accepted \cap stored) \ Tests) <= l
  BY DEF AcceptedWithinLimit
<1>2. IsFiniteSet((Accepted \cap stored) \ Tests)
  BY FS_Subset
<1>3. /\ Cardinality(((Accepted \cap stored) \ Tests)') <= Cardinality((Accepted \cap stored) \ Tests)
      /\ Cardinality(((Accepted \cap stored) \ Tests)') \in Nat
      /\ Cardinality((Accepted \cap stored) \ Tests) \in Nat
  BY <1>2, FS_Subset, FS_CardinalityType
<1>4. l \in Nat
  BY <1>1
<1>5. Cardinality(((Accepted \cap stored) \ Tests)') <= l
  BY <1>1, <1>3, <1>4
<1> QED  BY <1>1, <1>5

\* The invariant of the limit is kept by every step.
LEMMA LimitKept == Spec => []LimitInv
<1>1. Init => LimitInv
  <2> SUFFICES ASSUME Init PROVE LimitInv
    OBVIOUS
  <2>1. IsFiniteSet(stored) /\ Cardinality((Accepted \cap stored) \ Tests) = 0
    BY FS_EmptySet DEF Init
  <2>2. form.limit \in past.limits /\ form.limit \in Nat \cup {NoLimit}
    BY DEF Init
  <2>3. AcceptedWithinLimit
    BY <2>1, <2>2 DEF AcceptedWithinLimit
  <2>4. \A r \in Requests : pc[r] = "idle" /\ answer[r] = "none"
    BY DEF Init
  <2> QED  BY <2>1, <2>2, <2>3, <2>4 DEF LimitInv
<1>2. TypeOK /\ TypeOK' /\ LimitInv /\ [Next]_vars => LimitInv'
  <2> SUFFICES ASSUME TypeOK, TypeOK', LimitInv, [Next]_vars PROVE LimitInv'
    OBVIOUS
  <2>1. CASE UNCHANGED vars
    BY <2>1 DEF vars, requestVars, LimitInv, AcceptedWithinLimit, Accepted
  <2>2. CASE Next
    <3> USE DEF LimitInv
    <3>1. past.limits \subseteq past'.limits /\ form'.limit \in past'.limits
      BY <2>2, LimitsRemembered DEF Next
    <3>2. past.limits \subseteq Nat \cup {NoLimit}
      BY DEF TypeOK
    <3>3. ASSUME UNCHANGED <<pc, seen, answer>>, stored' \subseteq stored
          PROVE  LimitInv'
      <4>1. IsFiniteSet(stored')
        BY <3>3, FS_Subset
      <4>2. AcceptedWithinLimit'
        BY <3>1, <3>2, <3>3, StillWithin DEF Accepted
      <4> QED  BY <3>1, <3>3, <4>1, <4>2
    <3>4. ASSUME NEW r \in Requests, Arrive(r) \/ Step(r) \/ Fail(r)
          PROVE  LimitInv'
      <4>0. IsFiniteSet(stored')
        BY <3>4, FS_AddElement, FS_Subset DEF Arrive, Step, Fail, DataUnchanged, Look, Judge, OverCeiling, Shut,
              Honeypot, Prepare, Validate, Allocate, Create, Recount, Undo, UndoClose, Fill, Reply
      <4>1. \A q \in Requests : q # r => pc'[q] = pc[q] /\ seen'[q] = seen[q] /\ answer'[q] = answer[q]
        BY <3>4 DEF TypeOK, Arrive, Step, Fail, Goto, Finish, EnterGate, Look, Judge, OverCeiling, Shut,
              Honeypot, Prepare, Validate, Allocate, Create, Recount, Undo, UndoClose, Fill, Reply
      <4>2. /\ pc'[r] \in {"judge", "validate", "allocate", "create", "recount"} =>
                 seen'[r].limit \in past'.limits
            /\ pc'[r] = "recount" => seen'[r].limit \in Nat
        BY <3>1, <3>2, <3>4 DEF TypeOK, Arrive, Step, Fail, Goto, Finish, EnterGate, Look, Judge, OverCeiling, Shut,
              Honeypot, Prepare, Validate, Allocate, Create, Recount, Undo, UndoClose, Fill, Reply, Reasons
      <4>4. pc'[r] # "done" => answer'[r] \notin {"accepted", "unheard"}
        BY <3>4 DEF TypeOK, Arrive, Step, Fail, Goto, Finish, EnterGate, Look, Judge, OverCeiling, Shut,
              Honeypot, Prepare, Validate, Allocate, Create, Recount, Undo, UndoClose, Fill, Reply, Reasons
      <4>3. AcceptedWithinLimit'
        <5>1. CASE Create(r)
          <6>1. CASE r \in Tests \/ seen[r].limit # NoLimit
            <7>1. ((Accepted \cap stored) \ Tests)' \subseteq (Accepted \cap stored) \ Tests
              BY <4>1, <5>1, <6>1 DEF Create, Goto, Accepted, TypeOK
            <7> QED  BY <3>1, <3>2, <7>1, StillWithin
          <6>2. CASE seen[r].limit = NoLimit
            BY <3>1, <5>1, <6>2 DEF Create, AcceptedWithinLimit
          <6> QED  BY <6>1, <6>2
        <5>2. CASE Recount(r) /\ Count <= seen[r].limit
          <6>1. seen[r].limit \in past'.limits /\ seen[r].limit \in Nat
            BY <3>1, <5>2 DEF Recount
          <6>2. ((Accepted \cap stored) \ Tests)' \subseteq stored \ Tests
            BY <5>2 DEF Recount, DataUnchanged
          <6>3. IsFiniteSet(stored \ Tests)
            BY FS_Subset
          <6>4. /\ Cardinality(((Accepted \cap stored) \ Tests)') <= Count
                /\ Cardinality(((Accepted \cap stored) \ Tests)') \in Nat /\ Count \in Nat
            BY <6>2, <6>3, FS_Subset, FS_CardinalityType DEF Count
          <6>5. Cardinality(((Accepted \cap stored) \ Tests)') <= seen[r].limit
            BY <5>2, <6>1, <6>4
          <6> QED  BY <6>1, <6>5 DEF AcceptedWithinLimit
        <5>3. CASE ~Create(r) /\ ~(Recount(r) /\ Count <= seen[r].limit)
          <6>1. Recount(r) => pc'[r] = "undo" /\ UNCHANGED <<answer, stored>>
            <7>1. Count \in Nat
              BY FS_Subset, FS_CardinalityType DEF Count
            <7> QED  BY <5>3, <7>1 DEF Recount, Goto, TypeOK, DataUnchanged
          <6>2. ((Accepted \cap stored) \ Tests)' \subseteq (Accepted \cap stored) \ Tests
            <7>1. stored' \subseteq stored
              BY <3>4, <5>3, <6>1 DEF Arrive, Step, Fail, DataUnchanged, Look, Judge, OverCeiling,
                 Shut, Honeypot, Prepare, Validate, Allocate, Undo, UndoClose, Fill, Reply
            <7>2. pc'[r] \in {"fill", "reply"} \/ answer'[r] \in {"accepted", "unheard"} => r \in Accepted
              <8>1. CASE Recount(r)
                BY <6>1, <8>1 DEF Accepted
              <8>2. CASE Arrive(r) \/ Look(r) \/ OverCeiling(r) \/ Honeypot(r) \/ Prepare(r) \/ Validate(r)
                BY <8>2 DEF Arrive, Look, OverCeiling, Honeypot, Prepare, Validate, Goto, Finish, EnterGate, Accepted,
                   TypeOK
              <8>3. CASE Judge(r)
                BY <8>3 DEF Judge, Goto, Finish, EnterGate, Accepted, TypeOK, Reasons
              <8>4. CASE Shut(r) \/ Fill(r) \/ UndoClose(r) \/ Reply(r)
                BY <8>4 DEF Shut, Fill, UndoClose, Reply, Goto, Finish, Accepted, TypeOK
              <8>5. CASE Allocate(r) \/ Undo(r) \/ Fail(r)
                BY <8>5 DEF Allocate, Undo, Fail, Goto, Finish, Accepted, TypeOK
              <8> QED  BY <3>4, <5>3, <8>1, <8>2, <8>3, <8>4, <8>5 DEF Step
            <7> QED  BY <4>1, <7>1, <7>2 DEF Accepted
          <6> QED  BY <3>1, <3>2, <6>2, StillWithin
        <5> QED  BY <5>1, <5>2, <5>3
      <4> QED  BY <3>1, <4>0, <4>1, <4>2, <4>3, <4>4
    <3>5. ASSUME NEW e \in Editors, BeginEdit(e) \/ CommitEdit(e)
          PROVE  UNCHANGED <<pc, seen, answer, stored>>
      BY <3>5 DEF BeginEdit, CommitEdit, DataUnchanged, requestVars
    <3>6. ASSUME RestoreForm \/ Tick \/ SweepFinds \/ SweepCloses
          PROVE  UNCHANGED <<pc, seen, answer, stored>>
      BY <3>6 DEF RestoreForm, Tick, SweepFinds, SweepCloses, DataUnchanged, requestVars
    <3>7. ASSUME NEW r \in Requests, PurgeResponse(r)
          PROVE  UNCHANGED <<pc, seen, answer>> /\ stored' \subseteq stored
      BY <3>7 DEF PurgeResponse, requestVars
    <3> QED  BY <2>2, <3>3, <3>4, <3>5, <3>6, <3>7 DEF Next
  <2> QED  BY <2>1, <2>2
<1> QED  BY <1>1, <1>2, TypeCorrect, PTL DEF Spec

\* submitForm's second count: the submissions that raced past the availability
\* check are undone, so accepted responses fit a limit the form has carried.
THEOREM LimitHolds == Spec => []AcceptedWithinLimit
<1>1. LimitInv => AcceptedWithinLimit
  BY DEF LimitInv
<1> QED  BY <1>1, LimitKept, PTL
-----------------------------------------------------------------------------
(* Reference numbers and the moment of openness. *)

\* A number in use was counted, and a public submission past allocateReference has one.
NumberInv ==
  /\ \A r \in Requests : number[r] <= counter
  /\ \A r \in Requests \ Tests :
       pc[r] \in {"create", "recount", "fill", "reply"} \/ answer[r] \in {"accepted", "unheard"} =>
         number[r] # 0
  /\ \A r \in Requests : pc[r] # "done" => answer[r] \notin {"accepted", "unheard"}
  /\ NumbersUnique

\* A document read while the form was open, and a submission past the first check,
\* were both under way at a moment the form was open.
OpenInv ==
  /\ \A r \in Requests : pc[r] # "done" => answer[r] \notin {"accepted", "unheard"}
  /\ \A r \in Requests \ Tests :
       /\ pc[r] \in {"look", "judge"} => gate[r] \in 1..3
       /\ pc[r] = "judge" /\ Open(seen[r]) => r \in past.overlap
       /\ pc[r] = "judge" => ~seen[r].trashed
       /\ pc[r] \in {"look", "judge"} /\ gate[r] > 1 => r \in past.overlap
       /\ pc[r] \in {"prepare", "validate", "allocate", "create", "recount", "fill", "reply"} =>
            r \in past.overlap
  /\ AcceptedOnlyIfOpen

\* Everything but a request's own steps leaves the requests alone.
LEMMA OthersLeaveRequests ==
  ASSUME (\E e \in Editors : BeginEdit(e) \/ CommitEdit(e)) \/ (\E r \in Requests : PurgeResponse(r))
           \/ RestoreForm \/ Tick \/ SweepFinds \/ SweepCloses
  PROVE  UNCHANGED <<pc, gate, seen, answer, number, counter>>
BY DEF BeginEdit, CommitEdit, PurgeResponse, RestoreForm, Tick, SweepFinds, SweepCloses,
       DataUnchanged, requestVars

\* A request's step moves no other request.
LEMMA OneRequestMoves ==
  ASSUME TypeOK, NEW r \in Requests, Arrive(r) \/ Step(r) \/ Fail(r), NEW q \in Requests, q # r
  PROVE  /\ pc'[q] = pc[q] /\ gate'[q] = gate[q] /\ seen'[q] = seen[q]
         /\ answer'[q] = answer[q] /\ number'[q] = number[q]
BY DEF TypeOK, DataUnchanged, Arrive, Step, Fail, Goto, Finish, EnterGate, Look, Judge, OverCeiling, Shut,
              Honeypot, Prepare, Validate, Allocate, Create, Recount, Undo, UndoClose, Fill, Reply

\* The invariant of the numbers is kept by every step.
LEMMA NumbersKept == Spec => []NumberInv
<1>1. Init => NumberInv
  BY DEF Init, NumberInv, NumbersUnique, Accepted
<1>2. TypeOK /\ TypeOK' /\ NumberInv /\ [Next]_vars => NumberInv'
  <2> SUFFICES ASSUME TypeOK, TypeOK', NumberInv, [Next]_vars PROVE NumberInv'
    OBVIOUS
  <2>1. ASSUME UNCHANGED <<pc, gate, seen, answer, number, counter>> PROVE NumberInv'
    BY <2>1 DEF NumberInv, NumbersUnique, Accepted
  <2>2. ASSUME NEW r \in Requests, Arrive(r) \/ Step(r) \/ Fail(r) PROVE NumberInv'
    <3> USE DEF NumberInv
    <3>1. \A q \in Requests : q # r => pc'[q] = pc[q] /\ answer'[q] = answer[q] /\ number'[q] = number[q]
      BY <2>2, OneRequestMoves
    <3>2. \/ number' = number /\ counter' = counter
          \/ pc[r] = "allocate" /\ counter' = counter + 1 /\ number'[r] = counter'
      BY <2>2 DEF TypeOK, DataUnchanged, Arrive, Step, Fail, Goto, Finish, EnterGate, Look, Judge, OverCeiling, Shut,
              Honeypot, Prepare, Validate, Allocate, Create, Recount, Undo, UndoClose, Fill, Reply
    <3>3. counter \in Nat /\ number \in [Requests -> Nat] /\ number' \in [Requests -> Nat]
      BY DEF TypeOK
    <3>4. \A q \in Requests : number'[q] <= counter'
      BY <3>1, <3>2, <3>3
    <3>5. \A p, q \in Requests : p # q /\ number'[p] # 0 => number'[p] # number'[q]
      BY <3>1, <3>2, <3>3 DEF NumbersUnique
    <3>6. r \notin Tests /\ (pc'[r] \in {"create", "recount", "fill", "reply"}
                               \/ answer'[r] \in {"accepted", "unheard"}) => number'[r] # 0
      BY <2>2, <3>2, <3>3 DEF TypeOK, Accepted, Reasons, Arrive, Step, Fail, Goto, Finish, EnterGate, Look, Judge, OverCeiling, Shut,
              Honeypot, Prepare, Validate, Allocate, Create, Recount, Undo, UndoClose, Fill, Reply
    <3>7. pc'[r] # "done" => answer'[r] \notin {"accepted", "unheard"}
      BY <2>2 DEF TypeOK, Reasons, Arrive, Step, Fail, Goto, Finish, EnterGate, Look, Judge, OverCeiling, Shut,
              Honeypot, Prepare, Validate, Allocate, Create, Recount, Undo, UndoClose, Fill, Reply
    <3>8. NumbersUnique'
      BY <3>1, <3>5, <3>6 DEF NumbersUnique, Accepted
    <3> QED  BY <3>1, <3>4, <3>6, <3>7, <3>8
  <2>3. CASE UNCHANGED vars
    BY <2>1, <2>3 DEF vars, requestVars
  <2> QED  BY <2>1, <2>2, <2>3, OthersLeaveRequests DEF Next
<1> QED  BY <1>1, <1>2, TypeCorrect, PTL DEF Spec

\* allocateReference: no two submissions of a form ever hold the same number,
\* and every accepted public response has one.
THEOREM NumbersHold == Spec => []NumbersUnique
<1>1. NumberInv => NumbersUnique
  BY DEF NumberInv
<1> QED  BY <1>1, NumbersKept, PTL

\* The public checks: a response is only accepted if the form was published, not
\* archived, not in Trash and not past its date at some moment of the request.
THEOREM OpennessHolds == Spec => []AcceptedOnlyIfOpen
<1>1. Init => OpenInv
  BY DEF Init, OpenInv, AcceptedOnlyIfOpen, Accepted
<1>2. TypeOK /\ TypeOK' /\ OpenInv /\ [Next]_vars => OpenInv'
  <2> SUFFICES ASSUME TypeOK, TypeOK', OpenInv, [Next]_vars PROVE OpenInv'
    OBVIOUS
  <2>1. ASSUME UNCHANGED <<pc, gate, seen, answer>>, now' >= now, past.overlap \subseteq past'.overlap
        PROVE  OpenInv'
    <3>1. \A r \in Requests : Open(seen[r])' => Open(seen[r])
      BY <2>1 DEF Open, DatePassed, TypeOK, FormDocs
    <3> QED  BY <2>1, <3>1 DEF OpenInv, AcceptedOnlyIfOpen, Accepted
  <2>2. ASSUME Remember
        PROVE  /\ past.overlap \subseteq past'.overlap
               /\ Open(form)' => InFlight' \subseteq past'.overlap
    BY <2>2 DEF Remember
  <2>3. ASSUME NEW r \in Requests, Arrive(r) \/ Step(r) \/ Fail(r), Remember PROVE OpenInv'
    <3> USE DEF OpenInv
    <3>1. now' = now /\ \A d : Open(d)' <=> Open(d)
      BY <2>3 DEF OthersUnchanged, Open, DatePassed, Arrive, Step, Fail, Goto, Finish, EnterGate, Look, Judge, OverCeiling, Shut,
              Honeypot, Prepare, Validate, Allocate, Create, Recount, Undo, UndoClose, Fill, Reply
    <3>8. past.overlap \subseteq past'.overlap
      BY <2>2, <2>3
    <3>2. /\ pc'[r] # "done" => answer'[r] \notin {"accepted", "unheard"}
          /\ r \notin Tests /\ pc'[r] \in {"look", "judge"} => gate'[r] \in 1..3
      BY <2>3 DEF TypeOK, Reasons, Concealed, Arrive, Step, Fail, Goto, Finish, EnterGate, Look, Judge, OverCeiling, Shut,
              Honeypot, Prepare, Validate, Allocate, Create, Recount, Undo, UndoClose, Fill, Reply
    <3>3. r \notin Tests /\ pc'[r] = "judge" =>
            ~seen'[r].trashed /\ (Open(seen'[r]) => r \in past'.overlap)
      <4> SUFFICES ASSUME r \notin Tests, pc'[r] = "judge"
                   PROVE  ~seen'[r].trashed /\ (Open(seen'[r]) => r \in past'.overlap)
        OBVIOUS
      <4>1. ~form.trashed /\ seen'[r] = form /\ form' = form
        BY <2>3 DEF TypeOK, DataUnchanged, Arrive, Step, Fail, Goto, Finish, EnterGate, Look, Judge, OverCeiling, Shut,
              Honeypot, Prepare, Validate, Allocate, Create, Recount, Undo, UndoClose, Fill, Reply
      <4>2. r \in InFlight'
        BY DEF InFlight
      <4> QED  BY <2>2, <2>3, <3>1, <4>1, <4>2
    <3>0. r \notin Tests /\ Judge(r) /\ pc'[r] \in {"look", "judge", "prepare", "validate"} => r \in past.overlap
      <4> SUFFICES ASSUME r \notin Tests, Judge(r), pc'[r] \in {"look", "judge", "prepare", "validate"}
                   PROVE  r \in past.overlap
        OBVIOUS
      <4>1. ~Concealed(r) /\ \A why \in Reasons : ~Closed(seen[r], why)
        BY DEF TypeOK, Judge, Finish, Reasons
      <4>2. ~DatePassed(seen[r]) /\ seen[r].status # "closed"
        BY <4>1 DEF Closed, Reasons
      <4>3. CASE gate[r] < 3
        <5>1. seen[r].status = "published" /\ ~seen[r].archived
          BY <4>1, <4>2, <4>3 DEF Concealed, TypeOK, FormDocs, Statuses
        <5> QED  BY <4>2, <5>1 DEF Open, Judge
      <4>4. CASE gate[r] >= 3
        BY <4>4 DEF Judge, TypeOK
      <4> QED  BY <4>3, <4>4 DEF TypeOK
    <3>4. r \notin Tests /\ pc'[r] \in {"look", "judge"} /\ gate'[r] > 1 => r \in past'.overlap
      BY <2>3, <3>0, <3>8 DEF TypeOK, Arrive, Step, Fail, Goto, Finish, EnterGate, Look, Judge, OverCeiling, Shut,
              Honeypot, Prepare, Validate, Allocate, Create, Recount, Undo, UndoClose, Fill, Reply
    <3>5. r \notin Tests /\ pc'[r] \in {"prepare", "validate", "allocate", "create", "recount", "fill", "reply"} =>
            r \in past'.overlap
      BY <2>3, <3>0, <3>8 DEF TypeOK, Arrive, Step, Fail, Goto, Finish, EnterGate, Look, Judge, OverCeiling, Shut,
              Honeypot, Prepare, Validate, Allocate, Create, Recount, Undo, UndoClose, Fill, Reply
    <3>6. r \notin Tests /\ answer'[r] \in {"accepted", "unheard"} => r \in past'.overlap
      BY <2>3, <3>8 DEF TypeOK, AcceptedOnlyIfOpen, Accepted, Reasons, Arrive, Step, Fail, Goto, Finish, EnterGate, Look, Judge, OverCeiling, Shut,
              Honeypot, Prepare, Validate, Allocate, Create, Recount, Undo, UndoClose, Fill, Reply
    <3>7. \A q \in Requests : q # r => pc'[q] = pc[q] /\ gate'[q] = gate[q] /\ seen'[q] = seen[q]
                                       /\ answer'[q] = answer[q]
      BY <2>3, OneRequestMoves
    <3> QED  BY <3>1, <3>2, <3>3, <3>4, <3>5, <3>6, <3>7, <3>8 DEF AcceptedOnlyIfOpen, Accepted
  <2>4. ASSUME Next, \A r \in Requests : ~(Arrive(r) \/ Step(r) \/ Fail(r)) PROVE now' >= now
    BY <2>4 DEF Next, BeginEdit, CommitEdit, PurgeResponse, RestoreForm, Tick, SweepFinds, SweepCloses, TypeOK
  <2>5. CASE UNCHANGED vars
    BY <2>1, <2>5 DEF vars, requestVars, TypeOK
  <2>6. CASE Next
    BY <2>1, <2>2, <2>3, <2>4, <2>6, OthersLeaveRequests DEF Next
  <2> QED  BY <2>5, <2>6
<1> QED  BY <1>1, <1>2, TypeCorrect, PTL DEF Spec, OpenInv
-----------------------------------------------------------------------------
(* What stays behind. *)

\* While nothing has died, what is stored was accepted or its submission is still
\* on the way to a verdict.
RemainInv ==
  /\ \A r \in Requests : pc[r] # "done" => answer[r] \notin {"accepted", "unheard"}
  /\ failuresUsed = 0 => \A r \in stored : r \in Accepted \/ pc[r] \in {"recount", "undo"}

\* submitForm's undo: when nothing is under way and nothing died, every stored response
\* was accepted; the refused surplus left no trace.
THEOREM RemainHolds == Spec => []OnlyAcceptedRemain
<1>1. Init => RemainInv
  BY DEF Init, RemainInv
<1>2. TypeOK /\ TypeOK' /\ RemainInv /\ [Next]_vars => RemainInv'
  <2> SUFFICES ASSUME TypeOK, TypeOK', RemainInv, [Next]_vars PROVE RemainInv'
    OBVIOUS
  <2>1. ASSUME UNCHANGED <<pc, answer, failuresUsed>>, stored' \subseteq stored PROVE RemainInv'
    BY <2>1 DEF RemainInv, Accepted, TypeOK
  <2>2. ASSUME NEW r \in Requests, Arrive(r) \/ Step(r) PROVE RemainInv'
    <3> USE DEF RemainInv
    <3>1. \A q \in Requests : q # r => pc'[q] = pc[q] /\ answer'[q] = answer[q]
      BY <2>2, OneRequestMoves
    <3>2. /\ failuresUsed' = failuresUsed /\ stored' \subseteq stored \cup {r}
          /\ pc'[r] # "done" => answer'[r] \notin {"accepted", "unheard"}
      BY <2>2 DEF TypeOK, Reasons, Arrive, Step, OthersUnchanged, DataUnchanged, Goto, Finish, EnterGate, Look, Judge,
              OverCeiling, Shut, Honeypot, Prepare, Validate, Allocate, Create, Recount, Undo, UndoClose, Fill, Reply
    <3>3. r \in stored' => \/ r \in Accepted' \/ pc'[r] \in {"recount", "undo"}
                           \/ r \in stored /\ r \notin Accepted /\ pc[r] \notin {"recount", "undo"}
      <4>1. CASE Arrive(r) \/ Look(r) \/ Judge(r) \/ OverCeiling(r) \/ Shut(r) \/ Honeypot(r) \/ Prepare(r)
                 \/ Validate(r) \/ Allocate(r)
        BY <4>1 DEF TypeOK, Accepted, Arrive, DataUnchanged, Look, Judge, OverCeiling, Shut, Honeypot, Prepare,
                    Validate, Allocate
      <4>2. CASE Create(r) \/ Recount(r) \/ Undo(r) \/ UndoClose(r)
        BY <4>2 DEF TypeOK, Accepted, DataUnchanged, Create, Recount, Undo, UndoClose, Goto
      <4>3. CASE Fill(r) \/ Reply(r)
        BY <4>3 DEF TypeOK, Accepted, Goto, Finish, Fill, Reply
      <4> QED  BY <2>2, <4>1, <4>2, <4>3 DEF Step
    <3> QED  BY <3>1, <3>2, <3>3 DEF Accepted, TypeOK
  <2>3. ASSUME NEW r \in Requests, Fail(r) PROVE RemainInv'
    <3>1. failuresUsed' # 0
      BY <2>3 DEF Fail, TypeOK
    <3> QED  BY <2>3, <3>1 DEF RemainInv, Fail, Finish, TypeOK
  <2>4. CASE UNCHANGED vars
    BY <2>1, <2>4 DEF vars, requestVars
  <2>5. ASSUME (\E e \in Editors : BeginEdit(e) \/ CommitEdit(e)) \/ (\E r \in Requests : PurgeResponse(r))
                 \/ RestoreForm \/ Tick \/ SweepFinds \/ SweepCloses
        PROVE  RemainInv'
    BY <2>1, <2>5 DEF BeginEdit, CommitEdit, PurgeResponse, RestoreForm, Tick, SweepFinds, SweepCloses,
                      DataUnchanged, requestVars
  <2> QED  BY <2>2, <2>3, <2>4, <2>5 DEF Next
<1>3. TypeOK /\ RemainInv => OnlyAcceptedRemain
  BY DEF RemainInv, OnlyAcceptedRemain, InFlight, TypeOK
<1> QED  BY <1>1, <1>2, <1>3, TypeCorrect, PTL DEF Spec
-----------------------------------------------------------------------------
(* The contract. *)

Kept == Accepted \cap stored \cap Visitors
NumberOf == [v \in Visitors |-> IF v \in Accepted THEN number[v] ELSE 0]

\* The contract counts as the pipeline does.
LEMMA OneCardinality ==
  ASSUME NEW set
  PROVE  Contract!Cardinality(set) = Cardinality(set)
BY DEF Contract!Cardinality, Cardinality

\* Nothing is accepted before anything was asked.
LEMMA ContractBegins == Init => Contract!Init
<1> SUFFICES ASSUME Init PROVE Contract!Init
  OBVIOUS
<1>1. Accepted = {} /\ \A v \in Visitors : pc[v] # "done"
  BY DEF Init, Accepted, Visitors
<1>2. past.limits = {form.limit} /\ form.limit \in Nat \cup {NoLimit}
  BY DEF Init
<1>3. past.limits \subseteq Nat \cup {NoLimit} /\ Cardinality(past.limits) = 1
  BY <1>2, FS_Singleton
<1>4. Verdict = [v \in Visitors |-> "none"]
  BY <1>1 DEF Verdict
<1>5. NumberOf = [v \in Visitors |-> 0]
  BY <1>1 DEF NumberOf
<1>6. Accepted \cap stored \cap Visitors = {}
  BY <1>1
<1> HIDE DEF Accepted, Verdict
<1>7. Contract!Cardinality(past.limits) = 1
  BY <1>3, OneCardinality
<1> QED  BY <1>3, <1>4, <1>5, <1>6, <1>7 DEF Contract!Init, NumberOf

\* A step that decides nothing is a step of the limit, or none.
LEMMA ContractRests ==
  ASSUME TypeOK', Remember, Verdict' = Verdict, Kept' = Kept, NumberOf' = NumberOf
  PROVE  Contract!Next
<1>1. past.limits \subseteq past'.limits /\ past'.limits \subseteq Nat \cup {NoLimit}
  BY LimitsRemembered DEF TypeOK
<1> QED  BY <1>1 DEF Contract!Next, Contract!SetLimit, Kept, NumberOf

\* The limit on record changes only with the form's.
LEMMA SameLimit ==
  ASSUME TypeOK, LimitInv, Remember, form'.limit = form.limit
  PROVE  past'.limits = past.limits
BY DEF Remember, LimitInv

\* What a request's own step does to its standing, whoever it is.
LEMMA OwnVerdict ==
  ASSUME TypeOK, LimitInv, NEW r \in Requests, Arrive(r) \/ Step(r) \/ Fail(r)
  PROVE  /\ pc[r] # "done" /\ pc'[r] # "idle"
         /\ r \in Accepted => r \in Accepted' /\ UNCHANGED stored
         /\ r \notin Accepted /\ r \in Accepted' =>
              (Create(r) /\ (r \in Tests \/ seen[r].limit = NoLimit)) \/ (Recount(r) /\ Count <= seen[r].limit)
         /\ pc'[r] = "done" => form'.limit = form.limit /\ UNCHANGED <<stored, number>>
         /\ stored' \subseteq stored \cup {r} /\ stored \subseteq stored' \cup {r}
<1>1. CASE Arrive(r) \/ Look(r) \/ OverCeiling(r) \/ Honeypot(r) \/ Prepare(r) \/ Validate(r)
  BY <1>1 DEF Arrive, Look, OverCeiling, Honeypot, Prepare, Validate, Goto, Finish, EnterGate, Accepted,
     TypeOK, DataUnchanged, LimitInv
<1>2. CASE Judge(r)
  BY <1>2 DEF Judge, Goto, Finish, EnterGate, Accepted, TypeOK, Reasons, DataUnchanged, LimitInv
<1>3. CASE Shut(r) \/ Fill(r) \/ UndoClose(r) \/ Reply(r)
  BY <1>3 DEF Shut, Fill, UndoClose, Reply, Goto, Finish, Accepted, TypeOK, DataUnchanged, LimitInv, FormDocs
<1>4. CASE Allocate(r) \/ Undo(r) \/ Fail(r)
  BY <1>4 DEF Allocate, Undo, Fail, InFlight, Goto, Finish, Accepted, TypeOK, DataUnchanged, LimitInv
<1>5. CASE Create(r)
  <2>1. pc[r] = "create" /\ answer' = answer /\ answer[r] \notin {"accepted", "unheard"}
    BY <1>5 DEF Create, Goto, LimitInv
  <2>2. r \notin Accepted /\ pc'[r] \in {"reply", "recount"}
    BY <1>5, <2>1 DEF Create, Goto, Accepted, TypeOK
  <2>3. r \in Accepted' => r \in Tests \/ seen[r].limit = NoLimit
    BY <1>5, <2>1 DEF Create, Goto, Accepted, TypeOK
  <2>4. stored' = stored \cup {r}
    BY <1>5 DEF Create
  <2> QED  BY <1>5, <2>1, <2>2, <2>3, <2>4
<1>6. CASE Recount(r)
  <2>1. Count \in Nat /\ seen[r].limit \in Nat
    BY <1>6, FS_Subset, FS_CardinalityType DEF Count, Recount, LimitInv
  <2> QED  BY <1>6, <2>1 DEF Recount, Goto, Accepted, TypeOK, DataUnchanged, LimitInv
<1> QED  BY <1>1, <1>2, <1>3, <1>4, <1>5, <1>6 DEF Step

\* The moment of acceptance: the number is fresh and the kept ones fit a limit.
LEMMA ContractAccepts ==
  ASSUME TypeOK, TypeOK', LimitInv, NumberInv, NumberInv', Remember,
         NEW r \in Visitors, Arrive(r) \/ Step(r) \/ Fail(r), r \notin Accepted, r \in Accepted'
  PROVE  Contract!Accept(r)
<1> USE DEF Visitors
<1>1. \A q \in Requests : q # r => (q \in Accepted' <=> q \in Accepted) /\ (pc'[q] = pc[q])
                                  /\ number'[q] = number[q]
  BY OneRequestMoves DEF Accepted
<1>2. /\ (Create(r) /\ seen[r].limit = NoLimit) \/ (Recount(r) /\ Count <= seen[r].limit)
      /\ pc[r] # "done"
  BY OwnVerdict
<1>3. UNCHANGED <<form, number>> /\ (Recount(r) => stored' = stored)
  BY <1>2 DEF Create, Recount, DataUnchanged
<1>4. past'.limits = past.limits
  BY <1>3, SameLimit
<1>5. Verdict[r] = "none" /\ Verdict' = [Verdict EXCEPT ![r] = "accepted"]
  BY <1>1, <1>2 DEF Verdict
<1>6. Kept' \in {Kept, Kept \cup {r}}
  <2>1. stored' \subseteq stored \cup {r} /\ stored \subseteq stored'
    BY <1>2 DEF Create, Recount, DataUnchanged
  <2> QED  BY <1>1, <2>1 DEF Kept, Accepted
<1>7. r \in Kept' => \E l \in past.limits : l = NoLimit \/ Cardinality(Kept') <= l
  <2>1. CASE Create(r) /\ seen[r].limit = NoLimit
    BY <2>1 DEF LimitInv, Create
  <2>2. CASE Recount(r) /\ Count <= seen[r].limit
    <3>1. seen[r].limit \in past.limits /\ seen[r].limit \in Nat
      BY <2>2 DEF LimitInv, Recount
    <3>2. Kept' \subseteq stored \ Tests /\ IsFiniteSet(stored \ Tests)
      BY <1>3, <2>2, FS_Subset DEF Kept, LimitInv
    <3>3. Cardinality(Kept') <= Count /\ Cardinality(Kept') \in Nat /\ Count \in Nat
      BY <3>2, FS_Subset, FS_CardinalityType DEF Count
    <3>4. Cardinality(Kept') <= seen[r].limit
      BY <2>2, <3>1, <3>3
    <3> QED  BY <3>1, <3>4
  <2> QED  BY <1>2, <2>1, <2>2
<1>8. number[r] \in Nat \ {0} /\ \A w \in Visitors : NumberOf[w] # number[r]
  <2>1. number[r] \in Nat \ {0}
    BY <1>3 DEF NumberInv, NumbersUnique, TypeOK
  <2> QED  BY <2>1 DEF NumberInv, NumbersUnique, NumberOf
<1>9. NumberOf'[r] = number[r] /\ NumberOf' = [NumberOf EXCEPT ![r] = NumberOf'[r]]
  BY <1>1, <1>3 DEF NumberOf
<1>10. r \in Kept' => Contract!Fits(Kept')
  BY <1>7, OneCardinality DEF Contract!Fits
<1> QED  BY <1>4, <1>5, <1>6, <1>8, <1>9, <1>10 DEF Contract!Accept, Kept, NumberOf

\* A step of a request is a verdict on it, or none.
LEMMA ContractOfRequest ==
  ASSUME TypeOK, TypeOK', LimitInv, NumberInv, NumberInv', Remember,
         NEW r \in Requests, Arrive(r) \/ Step(r) \/ Fail(r)
  PROVE  Contract!Next
<1>1. \A q \in Requests : q # r => (q \in Accepted' <=> q \in Accepted) /\ (pc'[q] = pc[q])
                                  /\ number'[q] = number[q]
  BY OneRequestMoves DEF Accepted
<1>2. r \notin Accepted' \/ r \in Tests \/ r \in Accepted => Kept' = Kept
  <2>1. r \in Tests \/ r \notin Accepted' \/ (r \in Accepted' /\ stored' = stored)
          \/ (r \notin Accepted /\ r \in Accepted')
    BY OwnVerdict
  <2>2. r \in Accepted => r \in Accepted' /\ stored' = stored
    BY OwnVerdict
  <2>3. stored' \subseteq stored \cup {r} /\ stored \subseteq stored' \cup {r}
    BY OwnVerdict
  <2> QED  BY <1>1, <2>1, <2>2, <2>3 DEF Kept, Visitors, Accepted
<1>3. CASE r \in Tests
  <2>1. Verdict' = Verdict /\ NumberOf' = NumberOf
    BY <1>1, <1>3 DEF Verdict, NumberOf, Visitors
  <2> QED  BY <1>2, <1>3, <2>1, ContractRests
<1>4. CASE r \in Visitors /\ r \notin Accepted /\ r \in Accepted'
  BY <1>4, ContractAccepts DEF Contract!Next
<1>5. CASE r \in Visitors /\ r \notin Accepted' /\ pc'[r] = "done"
  <2>1. pc[r] # "done" /\ form'.limit = form.limit /\ UNCHANGED <<stored, number>> /\ r \notin Accepted
    BY <1>5, OwnVerdict
  <2>2. past'.limits = past.limits
    BY <2>1, SameLimit
  <2>3. Verdict[r] = "none" /\ Verdict' = [Verdict EXCEPT ![r] = "refused"]
    BY <1>1, <1>5, <2>1 DEF Verdict, Visitors
  <2>4. NumberOf' = NumberOf
    BY <1>1, <1>5, <2>1 DEF NumberOf, Visitors
  <2> QED  BY <1>2, <1>5, <2>2, <2>3, <2>4 DEF Contract!Next, Contract!Refuse, Kept, NumberOf
<1>6. CASE r \in Visitors /\ r \notin Accepted' /\ pc'[r] # "done"
  <2>1. pc[r] # "done" /\ r \notin Accepted
    BY <1>6, OwnVerdict
  <2>2. Verdict' = Verdict /\ NumberOf' = NumberOf
    BY <1>1, <1>6, <2>1 DEF Verdict, NumberOf, Visitors
  <2> QED  BY <1>2, <1>6, <2>2, ContractRests
<1>7. CASE r \in Visitors /\ r \in Accepted
  <2>1. r \in Accepted' /\ Verdict' = Verdict
    BY <1>1, <1>7, OwnVerdict DEF Verdict, Visitors
  <2>2. number'[r] = number[r]
    BY <1>7 DEF Accepted, LimitInv, DataUnchanged, Arrive, Step, Fail, Look, Judge, OverCeiling, Shut,
              Honeypot, Prepare, Validate, Allocate, Create, Recount, Undo, UndoClose, Fill, Reply
  <2>3. NumberOf' = NumberOf
    BY <1>1, <1>7, <2>1, <2>2 DEF NumberOf, Visitors
  <2> QED  BY <1>2, <1>7, <2>1, <2>3, ContractRests
<1> QED  BY <1>3, <1>4, <1>5, <1>6, <1>7 DEF Visitors

\* The pipeline implements the contract: whoever races, fails, edits or removes, each
\* step accepts one submission, refuses one, removes one, sets the limit, or nothing.
THEOREM ContractHolds == Spec => ImplementsContract
<1>1. Init => Contract!Init
  BY ContractBegins
<1>2. TypeOK /\ TypeOK' /\ LimitInv /\ NumberInv /\ NumberInv' /\ [Next]_vars => [Contract!Next]_(Contract!vars)
  <2> SUFFICES ASSUME TypeOK, TypeOK', LimitInv, NumberInv, NumberInv', [Next]_vars
               PROVE  Contract!Next \/ UNCHANGED Contract!vars
    OBVIOUS
  <2>1. CASE UNCHANGED vars
    BY <2>1 DEF vars, requestVars, Contract!vars, Verdict, Accepted
  <2>2. CASE Next
    <3>1. Remember
      BY <2>2 DEF Next
    <3>2. ASSUME NEW r \in Requests, Arrive(r) \/ Step(r) \/ Fail(r) PROVE Contract!Next
      BY <3>1, <3>2, ContractOfRequest
    <3>3. ASSUME NEW r \in Requests, PurgeResponse(r) PROVE Contract!Next
      <4>1. stored' = stored \ {r} /\ UNCHANGED <<form, pc, answer, number>>
        BY <3>3 DEF PurgeResponse, requestVars
      <4>2. Verdict' = Verdict /\ NumberOf' = NumberOf /\ Accepted' = Accepted
        BY <4>1 DEF Verdict, NumberOf, Accepted
      <4>3. past'.limits = past.limits
        BY <3>1, <4>1, SameLimit
      <4>4. CASE r \in Kept
        <5>1. Kept' = Kept \ {r} /\ r \in Visitors
          BY <4>1, <4>2, <4>4 DEF Kept
        <5> QED  BY <4>2, <4>3, <4>4, <5>1 DEF Contract!Next, Contract!Remove, Kept, NumberOf
      <4>5. CASE r \notin Kept
        BY <3>1, <4>1, <4>2, <4>5, ContractRests DEF Kept
      <4> QED  BY <4>4, <4>5
    <3>4. ASSUME (\E e \in Editors : BeginEdit(e) \/ CommitEdit(e)) \/ RestoreForm \/ Tick \/ SweepFinds \/ SweepCloses
          PROVE  Contract!Next
      <4>1. UNCHANGED <<pc, answer, number, stored>>
        BY <3>4 DEF BeginEdit, CommitEdit, RestoreForm, Tick, SweepFinds, SweepCloses, DataUnchanged, requestVars
      <4> QED  BY <3>1, <4>1, ContractRests DEF Verdict, NumberOf, Kept, Accepted
    <3> QED  BY <2>2, <3>2, <3>3, <3>4 DEF Next
  <2> QED  BY <2>1, <2>2
<1> QED  BY <1>1, <1>2, TypeCorrect, LimitKept, NumbersKept, PTL DEF Spec, ImplementsContract, Contract!Spec

\* What holds of the form's intake holds where editors and stages are followed with it.
THEOREM DeskIntake == DeskSpec => [](TypeOK /\ AcceptedWithinLimit /\ NumbersUnique /\ AcceptedOnlyIfOpen)
<1>1. DeskInit => Init
  BY DEF DeskInit
<1>2. [DeskNext]_deskVars => [Next]_vars
  BY DEF DeskNext, deskVars
<1>3. DeskSpec => Spec
  BY <1>1, <1>2, PTL DEF DeskSpec, Spec
<1> QED  BY <1>3, TypeCorrect, LimitHolds, NumbersHold, OpennessHolds, PTL

-----------------------------------------------------------------------------
(* Stages: what each request about stages, and each submission or move, has    *)
(* read and relies on.                                                         *)

Placing == {"submit", "status", "move"}

\* The steps of each kind of request.
StepsOf(kind) ==
  CASE kind = "none" -> {"done"}
    [] kind = "list" -> {"ensure", "seed"}
    [] kind = "create" -> {"ensure", "seed", "create"}
    [] kind = "recategorise" -> {"find", "save", "sync"}
    [] kind = "delete" -> {"find", "siblings", "count", "target", "commit"}
    [] kind = "submit" -> {"own", "ensure", "seed", "put"}
    [] kind = "status" -> {"own", "ensure", "seed", "put"}
    [] kind = "move" -> {"stage", "exists", "put"}
    [] kind = "own" -> {"setup", "existing", "save", "sync", "add", "shift", "drop", "start", "version"}
    [] kind = "workspace" -> {"setup", "existing", "ensure", "seed", "shift", "drop", "version"}

Entries == [id : StageIds, is : {"workspace", "form"}, cat : Categories, start : BOOLEAN]
Asked(x) ==
  /\ DOMAIN x = {"kind", "pc", "r", "s", "t", "cat", "list", "kept", "version"}
  /\ x.kind \in {"none"} \cup Placing \cup Sorting!Configuring
  /\ x.pc \in StepsOf(x.kind)
  /\ x.list \subseteq Entries
  /\ x.kind \in Placing => x.r \in Responses
  /\ x.kind \in {"create", "recategorise", "status", "own"} => x.cat \in Categories
  /\ x.kind \in {"recategorise", "delete", "move"} => x.s \in StageIds
  /\ x.kind = "own" => /\ x.s \in StageIds \cup {Nothing} /\ x.t \in Categories \cup {Nothing}
                       /\ x.s # Nothing \/ x.t # Nothing
                       /\ x.pc \in {"save", "sync"} => x.s # Nothing
AskedInv == DOMAIN req = Handlers /\ \A q \in Handlers : Asked(req[q])

\* Whatever meets: a stage found is not unused again, one that is to be deleted is no
\* default, and those a setup found were the form's.
Found(x) ==
  /\ x.pc \in {"save", "sync"} => stage[x.s].is # "unused"
  /\ x.pc \in {"siblings", "count", "target", "commit"} =>
       stage[x.s].is \in {"workspace", "deleted"} /\ ~stage[x.s].start
  /\ x.kept \subseteq {s \in StageIds : stage[s].is \in {"form", "deleted"}}

(* Where nothing met.  A request that changes stages is alone. *)

\* What was read of a stage is so.
Told(e) == stage[e.id].is = e.is /\ stage[e.id].cat = e.cat

AloneInv ==
  \A p, q \in Sorting!Active : p # q => req[p].kind \in Placing /\ req[q].kind \in Placing

\* What a request has read is so, step by step.
KeptBy(x) == IF x.kind = "own" THEN {e.id : e \in x.list} ELSE {}
Relies(x) ==
  /\ x.pc \in {"save", "sync"} => x.list # {} /\ \A e \in x.list : e.id = x.s
  /\ x.pc = "save" => \A e \in x.list : Told(e)
  /\ x.pc = "sync" => stage[x.s].cat = x.cat
  /\ x.kind = "recategorise" /\ x.pc \in {"save", "sync"} => x.s \in Sorting!Workspace
  /\ x.pc \in {"siblings", "count", "target", "commit"} => x.s \in Sorting!Workspace
  /\ x.pc = "commit" => /\ x.list = {} => Sorting!On(x.s) = {}
                        /\ \A e \in x.list : Told(e) /\ e.is = "workspace" /\ e.id # x.s
  /\ x.kind \in {"submit", "status"} /\ x.pc \in {"ensure", "seed"} => Sorting!Own = {}
  /\ x.pc = "exists" => \A e \in x.list : Told(e) /\ e.is = "workspace"
  /\ x.pc = "put" => \A e \in x.list : Told(e) /\ e.id \in Sorting!Effective
  /\ x.kind = "own" /\ x.pc \in {"save", "sync", "add"} => x.kept = Sorting!Own
  /\ x.kind = "own" /\ x.pc \in {"save", "sync"} => x.s \in Sorting!Own
  /\ x.pc = "add" => IF x.s = Nothing THEN x.list = {}
                     ELSE x.list # {} /\ stage[x.s].cat = x.cat /\ x.s \in Sorting!Own /\ \A e \in x.list : e.id = x.s
  /\ x.kind = "own" /\ x.pc \in {"shift", "drop"} =>
       /\ x.list # {} /\ \A e \in x.list : Told(e) /\ e.is = "form"
       /\ Sorting!Own = x.kept \cup KeptBy(x)
  /\ x.kind = "workspace" /\ x.pc \in {"ensure", "seed", "shift"} => x.kept = Sorting!Own
  /\ x.kind = "workspace" /\ x.pc = "shift" => \A e \in x.list : Told(e) /\ e.is = "workspace"

\* Each response sits on a stage its form shows, in its category; while a setup or a change
\* of category is between the stages and the responses, on one of those it will keep.
Sits(r, S) == resp[r] # Sorting!NoResponse => resp[r].on \in S /\ resp[r].status = stage[resp[r].on].cat
AllSit == \A r \in Responses : Sits(r, Sorting!Effective)
Seats(x) ==
  CASE x.pc = "sync" -> \A r \in Responses : resp[r] # Sorting!NoResponse =>
                          resp[r].on \in Sorting!Effective /\ (resp[r].on # x.s => Sits(r, Sorting!Effective))
    [] x.pc = "shift" -> \A r \in Responses : Sits(r, Sorting!Workspace \cup Sorting!Own)
    [] x.pc = "drop" -> \A r \in Responses : Sits(r, IF x.kind = "own" THEN KeptBy(x) ELSE Sorting!Workspace)
    [] OTHER -> AllSit

QuietInv ==
  ~raced => /\ AloneInv
            /\ \A q \in Sorting!Active : Relies(req[q]) /\ Seats(req[q])
            /\ Sorting!Active = {} => AllSit

StageInv ==
  /\ Sorting!TypeOK /\ AskedInv /\ QuietInv
  /\ \A q \in Handlers : Found(req[q])

\* The parameters of Stages.
LEMMA StagesParameters ==
  /\ First \in Categories /\ Nothing \notin StageIds /\ Nothing \notin Responses /\ Nothing \notin Categories
  /\ Kinds \subseteq Sorting!Configuring \cup Placing
  /\ Sorting!IsFiniteSet(StageIds) /\ Sorting!IsFiniteSet(Categories)
BY FormDeskAssumption DEF Sorting!StagesAssumption, Placing

StageTypes == [is : {"workspace", "form"}, cat : Categories, start : BOOLEAN] \cup {Sorting!Unused, Sorting!Gone}
ResponseTypes == [on : StageIds, status : Categories] \cup {Sorting!NoResponse}

\* What a stage and a response may be.
LEMMA StageKinds ==
  ASSUME Sorting!TypeOK
  PROVE  /\ stage \in [StageIds -> StageTypes] /\ resp \in [Responses -> ResponseTypes]
         /\ \A s \in StageIds :
              /\ stage[s].is \in {"unused", "workspace", "form", "deleted"} /\ stage[s].start \in BOOLEAN
              /\ stage[s].is \in {"workspace", "form"} =>
                   stage[s] \in [is : {"workspace", "form"}, cat : Categories, start : BOOLEAN]
              /\ stage[s].is = "deleted" => ~stage[s].start
         /\ \A r \in Responses : resp[r] # Sorting!NoResponse =>
              resp[r] \in [on : StageIds, status : Categories]
<1>1. stage \in [StageIds -> StageTypes] /\ resp \in [Responses -> ResponseTypes]
  BY DEF Sorting!TypeOK, StageTypes, ResponseTypes
<1>2. ASSUME NEW s \in StageIds
      PROVE  /\ stage[s].is \in {"unused", "workspace", "form", "deleted"} /\ stage[s].start \in BOOLEAN
             /\ stage[s].is \in {"workspace", "form"} =>
                  stage[s] \in [is : {"workspace", "form"}, cat : Categories, start : BOOLEAN]
             /\ stage[s].is = "deleted" => ~stage[s].start
  <2>1. PICK x : x = stage[s]
    OBVIOUS
  <2>2. x \in StageTypes
    BY <1>1, <2>1
  <2>3. CASE x = Sorting!Unused
    BY <2>1, <2>3 DEF Sorting!Unused
  <2>4. CASE x = Sorting!Gone
    BY <2>1, <2>4 DEF Sorting!Gone
  <2>5. CASE x \in [is : {"workspace", "form"}, cat : Categories, start : BOOLEAN]
    BY <2>1, <2>5
  <2> QED  BY <2>2, <2>3, <2>4, <2>5 DEF StageTypes
<1>3. \A r \in Responses : resp[r] # Sorting!NoResponse => resp[r] \in [on : StageIds, status : Categories]
  BY <1>1 DEF ResponseTypes
<1> QED  BY <1>1, <1>2, <1>3

\* Among enough unused ids there is a different one for every category (ensureDefaultStages).
LEMMA SeedsDiffer ==
  ASSUME NEW free \in SUBSET StageIds, Sorting!Cardinality(free) >= Sorting!Cardinality(Categories)
  PROVE  /\ Sorting!SeedIds(free) \in [Categories -> free]
         /\ \A c, d \in Categories : c # d => Sorting!SeedIds(free)[c] # Sorting!SeedIds(free)[d]
<1>1. /\ \A S : Sorting!IsFiniteSet(S) <=> IsFiniteSet(S)
      /\ \A S : Sorting!Cardinality(S) = Cardinality(S)
  BY DEF Sorting!IsFiniteSet, IsFiniteSet, Sorting!Cardinality, Cardinality
<1>2. IsFiniteSet(Categories) /\ IsFiniteSet(free)
  BY <1>1, StagesParameters, FS_Subset
<1>3. /\ Cardinality(Categories) \in Nat /\ Cardinality(free) \in Nat
      /\ ExistsBijection(1..Cardinality(Categories), Categories)
      /\ ExistsBijection(1..Cardinality(free), free)
  BY <1>2, FS_CardinalityType
<1>4. PICK f : f \in Bijection(1..Cardinality(Categories), Categories)
  BY <1>3 DEF ExistsBijection
<1>5. PICK g : g \in Bijection(1..Cardinality(free), free)
  BY <1>3 DEF ExistsBijection
<1>6. \A c \in Categories : \E i \in 1..Cardinality(Categories) : f[i] = c
  BY <1>4 DEF Bijection, Surjection
<1>7. PICK i : i = [c \in Categories |-> CHOOSE k \in 1..Cardinality(Categories) : f[k] = c]
  OBVIOUS
<1>8. \A c \in Categories : i[c] \in 1..Cardinality(Categories) /\ f[i[c]] = c
  BY <1>6, <1>7
<1>9. 1..Cardinality(Categories) \subseteq 1..Cardinality(free)
  BY <1>1, <1>3
<1>10. PICK n : n = [c \in Categories |-> g[i[c]]]
  OBVIOUS
<1>11. n \in [Categories -> free]
  BY <1>5, <1>8, <1>9, <1>10 DEF Bijection, Injection, Surjection
<1>12. ASSUME NEW c \in Categories, NEW d \in Categories, c # d
       PROVE  n[c] # n[d]
  <2>1. \A k, l \in 1..Cardinality(free) : g[k] = g[l] => k = l
    BY <1>5 DEF Bijection, Injection, IsInjective
  <2>2. i[c] # i[d] /\ i[c] \in 1..Cardinality(free) /\ i[d] \in 1..Cardinality(free)
    BY <1>8, <1>9, <1>12
  <2> QED  BY <1>10, <2>1, <2>2
<1> QED  BY <1>11, <1>12 DEF Sorting!SeedIds

\* The stages there were are not touched by seeding and by adding one.
Grown(is) ==
  \A s \in StageIds : \/ stage'[s] = stage[s]
                      \/ s \in Sorting!Fresh /\ stage'[s].is = is

\* Seeding adds one stage of the workspace for each category.
LEMMA SeedingGrows ==
  ASSUME Sorting!TypeOK, Sorting!Cardinality(Sorting!Fresh) >= Sorting!Cardinality(Categories),
         NEW ids, ids = Sorting!SeedIds(Sorting!Fresh), stage' = Sorting!Seeded(stage, ids)
  PROVE  /\ stage' \in [StageIds -> StageTypes] /\ Grown("workspace")
         /\ \A c \in Categories : ids[c] \in StageIds /\ stage'[ids[c]] = Sorting!SeedStage(c)
<1>1. Sorting!Fresh \in SUBSET StageIds
  BY DEF Sorting!Fresh
<1>2. /\ ids \in [Categories -> Sorting!Fresh]
      /\ \A c, d \in Categories : c # d => ids[c] # ids[d]
  BY <1>1, SeedsDiffer
<1>3. \A c \in Categories : Sorting!SeedStage(c) \in StageTypes /\ Sorting!SeedStage(c).is = "workspace"
  BY DEF Sorting!SeedStage, StageTypes
<1>4. ASSUME NEW s \in StageIds
      PROVE  IF \E c \in Categories : ids[c] = s
             THEN \E c \in Categories : ids[c] = s /\ stage'[s] = Sorting!SeedStage(c)
             ELSE stage'[s] = stage[s]
  BY <1>4 DEF Sorting!Seeded
<1>5. DOMAIN stage' = StageIds /\ stage' = [s \in StageIds |-> stage'[s]]
  BY DEF Sorting!Seeded
<1>6. stage' \in [StageIds -> StageTypes]
  BY <1>3, <1>4, <1>5, StageKinds
<1>7. Grown("workspace")
  BY <1>2, <1>3, <1>4 DEF Grown
<1>8. \A c \in Categories : ids[c] \in StageIds /\ stage'[ids[c]] = Sorting!SeedStage(c)
  BY <1>1, <1>2, <1>4
<1> QED  BY <1>6, <1>7, <1>8

\* So does a stage created, of the workspace or of the form.
LEMMA AddingGrows ==
  ASSUME Sorting!TypeOK, Sorting!Fresh # {}, NEW is \in {"workspace", "form"}, NEW c \in Categories,
         stage' = [stage EXCEPT ![Sorting!New] = [is |-> is, cat |-> c, start |-> FALSE]]
  PROVE  /\ Sorting!New \in Sorting!Fresh /\ Sorting!New \in StageIds
         /\ stage' \in [StageIds -> StageTypes] /\ Grown(is)
         /\ stage'[Sorting!New] = [is |-> is, cat |-> c, start |-> FALSE]
<1>1. PICK n : n = Sorting!New
  OBVIOUS
<1>2. n \in Sorting!Fresh /\ n \in StageIds
  BY <1>1 DEF Sorting!New, Sorting!Fresh
<1>3. stage \in [StageIds -> StageTypes]
  BY StageKinds
<1>4. [is |-> is, cat |-> c, start |-> FALSE] \in StageTypes
  BY DEF StageTypes
<1> QED  BY <1>1, <1>2, <1>3, <1>4 DEF Grown

(* What a step does to the request it is a step of. *)
RequestFields == {"kind", "pc", "r", "s", "t", "cat", "list", "kept", "version"}

\* The other requests stay as they are, and this one becomes y.
Becomes(q, y) == DOMAIN req' = Handlers /\ req'[q] = y /\ \A p \in Handlers \ {q} : req'[p] = req[p]

\* What was asked for stays.
SameQuestion(x, y) ==
  /\ DOMAIN y = RequestFields
  /\ y.kind = x.kind /\ y.r = x.r /\ y.s = x.s /\ y.t = x.t /\ y.cat = x.cat /\ y.version = x.version

\* Go, GoWith and End.
LEMMA Going ==
  ASSUME AskedInv, NEW q \in Handlers, NEW label, Sorting!Go(q, label)
  PROVE  \E y : /\ Becomes(q, y) /\ SameQuestion(req[q], y)
                /\ y.pc = label /\ y.list = req[q].list /\ y.kept = req[q].kept
<1>1. PICK x : x = req[q]
  OBVIOUS
<1>2. PICK y : y = [x EXCEPT !.pc = label]
  OBVIOUS
<1>3. DOMAIN req = Handlers /\ DOMAIN x = RequestFields
  BY <1>1 DEF AskedInv, Asked, RequestFields
<1>4. req' = [req EXCEPT ![q] = y]
  BY <1>1, <1>2 DEF Sorting!Go
<1>5. Becomes(q, y)
  BY <1>3, <1>4 DEF Becomes
<1>6. SameQuestion(x, y) /\ y.pc = label /\ y.list = x.list /\ y.kept = x.kept
  BY <1>2, <1>3 DEF SameQuestion, RequestFields
<1> QED  BY <1>1, <1>5, <1>6

LEMMA GoingWith ==
  ASSUME AskedInv, NEW q \in Handlers, NEW label, NEW list, Sorting!GoWith(q, label, list)
  PROVE  \E y : /\ Becomes(q, y) /\ SameQuestion(req[q], y)
                /\ y.pc = label /\ y.list = list /\ y.kept = req[q].kept
<1>1. PICK x : x = req[q]
  OBVIOUS
<1>2. PICK y : y = [x EXCEPT !.pc = label, !.list = list]
  OBVIOUS
<1>3. DOMAIN req = Handlers /\ DOMAIN x = RequestFields
  BY <1>1 DEF AskedInv, Asked, RequestFields
<1>4. req' = [req EXCEPT ![q] = y]
  BY <1>1, <1>2, <1>3 DEF Sorting!GoWith, RequestFields
<1>5. Becomes(q, y)
  BY <1>3, <1>4 DEF Becomes
<1>6. SameQuestion(x, y) /\ y.pc = label /\ y.list = list /\ y.kept = x.kept
  BY <1>2, <1>3 DEF SameQuestion, RequestFields
<1> QED  BY <1>1, <1>5, <1>6

LEMMA Ending ==
  ASSUME AskedInv, NEW q \in Handlers, Sorting!End(q)
  PROVE  Becomes(q, Sorting!NoRequest)
BY DEF AskedInv, Sorting!End, Becomes

\* NoRequest is a request, and relies on nothing.
LEMMA NothingAsked ==
  /\ Asked(Sorting!NoRequest) /\ Sorting!NoRequest.pc = "done" /\ Sorting!NoRequest.kind = "none"
  /\ Found(Sorting!NoRequest) /\ Sorting!NoRequest.list = {} /\ Sorting!NoRequest.kept = {}
<1>1. PICK x : x = Sorting!NoRequest
  OBVIOUS
<1>2. /\ DOMAIN x = RequestFields /\ x.kind = "none" /\ x.pc = "done" /\ x.list = {} /\ x.kept = {}
  BY <1>1 DEF Sorting!NoRequest, RequestFields
<1>3. x.pc \in StepsOf(x.kind)
  BY <1>2 DEF StepsOf
<1>4. Asked(x)
  BY <1>2, <1>3 DEF Asked, RequestFields, Placing, Entries
<1>5. Found(x)
  BY <1>2 DEF Found
<1> QED  BY <1>1, <1>2, <1>4, <1>5

\* What a query returns.
LEMMA ReadTells ==
  ASSUME Sorting!TypeOK, NEW S \in SUBSET (Sorting!Workspace \cup Sorting!Own)
  PROVE  /\ Sorting!Read(S) \subseteq Entries
         /\ \A e \in Sorting!Read(S) : Told(e) /\ e.id \in S /\ e.is = stage[e.id].is /\ e.start = stage[e.id].start
         /\ S # {} => Sorting!Read(S) # {}
<1>1. \A s \in S : s \in StageIds /\ stage[s].is \in {"workspace", "form"}
  BY DEF Sorting!Workspace, Sorting!Own
<1>2. ASSUME NEW e \in Sorting!Read(S)
      PROVE  Told(e) /\ e.id \in S /\ e \in Entries /\ e.is = stage[e.id].is /\ e.start = stage[e.id].start
  <2>1. PICK s \in S : e = [id |-> s, is |-> stage[s].is, cat |-> stage[s].cat, start |-> stage[s].start]
    BY <1>2 DEF Sorting!Read
  <2>2. /\ s \in StageIds /\ stage[s].is \in {"workspace", "form"} /\ stage[s].cat \in Categories
        /\ stage[s].start \in BOOLEAN
    BY <1>1, StageKinds
  <2> QED  BY <2>1, <2>2 DEF Told, Entries
<1>3. S # {} => Sorting!Read(S) # {}
  BY DEF Sorting!Read
<1> QED  BY <1>2, <1>3

(* A step of one request: it leaves the stages steady for the others, and what it *)
(* becomes is asked, found, and, where nothing met, relied on.                    *)
Steady ==
  \A s \in StageIds :
    /\ stage[s].is # "unused" => stage'[s].is # "unused"
    /\ stage[s].is \in {"workspace", "deleted"} /\ ~stage[s].start =>
         stage'[s].is \in {"workspace", "deleted"} /\ ~stage'[s].start
    /\ stage[s].is \in {"form", "deleted"} => stage'[s].is \in {"form", "deleted"}
    /\ stage[s].is = "workspace" /\ stage[s].start => stage'[s].is = "workspace" /\ stage'[s].start

\* What other submissions and moves rely on stays.
OthersMayRely ==
  AllSit' /\ \A z : z.kind \in Placing /\ Asked(z) /\ Relies(z) => Relies(z)'

Served(q) ==
  /\ Sorting!TypeOK' /\ Steady /\ UNCHANGED raced
  /\ \E y : /\ Becomes(q, y) /\ Asked(y) /\ Found(y)' /\ y.kind \in {req[q].kind, "none"}
            /\ ~raced => /\ y.pc = "done" => AllSit'
                         /\ y.pc # "done" => Relies(y)' /\ Seats(y)'
                         /\ req[q].kind \in Placing => OthersMayRely

LEMMA FoundStays ==
  ASSUME Steady, NEW z, Asked(z), Found(z)
  PROVE  Found(z)'
<1>1. /\ z.pc \in {"save", "sync"} => z.s \in StageIds
      /\ z.pc \in {"siblings", "count", "target", "commit"} => z.s \in StageIds
  BY DEF Asked, StepsOf, Placing, Sorting!Configuring
<1>2. z.pc \in {"save", "sync"} => stage'[z.s].is # "unused"
  BY <1>1 DEF Found, Steady
<1>3. z.pc \in {"siblings", "count", "target", "commit"} =>
        stage'[z.s].is \in {"workspace", "deleted"} /\ ~stage'[z.s].start
  BY <1>1 DEF Found, Steady
<1>4. z.kept \subseteq {s \in StageIds : stage'[s].is \in {"form", "deleted"}}
  BY DEF Found, Steady
<1> QED  BY <1>2, <1>3, <1>4 DEF Found

\* Where the documents stay, all that is said of them does.
LEMMA SameDocuments ==
  ASSUME UNCHANGED <<stage, resp>>
  PROVE  /\ Steady /\ (AllSit => AllSit')
         /\ \A z : /\ Found(z) => Found(z)'
                   /\ Relies(z) => Relies(z)'
                   /\ Seats(z) => Seats(z)'
<1>1. /\ Sorting!Workspace' = Sorting!Workspace /\ Sorting!Own' = Sorting!Own
      /\ Sorting!Effective' = Sorting!Effective
  BY DEF Sorting!Workspace, Sorting!Own, Sorting!Effective
<1>2. \A s : Sorting!On(s)' = Sorting!On(s)
  BY DEF Sorting!On
<1>3. \A e : Told(e)' <=> Told(e)
  BY DEF Told
<1>4. \A r, S : Sits(r, S)' <=> Sits(r, S)
  BY DEF Sits, Sorting!NoResponse
<1>5. Steady
  BY DEF Steady
<1>6. AllSit => AllSit'
  BY <1>1, <1>4 DEF AllSit
<1>7. ASSUME NEW z, Found(z) PROVE Found(z)'
  BY <1>7 DEF Found
<1>8. ASSUME NEW z, Relies(z) PROVE Relies(z)'
  BY <1>1, <1>2, <1>3, <1>8 DEF Relies, KeptBy
<1>9. ASSUME NEW z, Seats(z) PROVE Seats(z)'
  BY <1>1, <1>4, <1>6, <1>9 DEF Seats, KeptBy
<1> QED  BY <1>5, <1>6, <1>7, <1>8, <1>9

\* What a request that acts may use.
LEMMA Acting ==
  ASSUME StageInv, NEW q \in Handlers, req[q].pc # "done"
  PROVE  /\ Sorting!TypeOK /\ AskedInv /\ Asked(req[q]) /\ Found(req[q])
         /\ ~raced => Relies(req[q]) /\ Seats(req[q])
BY DEF StageInv, AskedInv, QuietInv, Sorting!Active

\* Between the stages and the responses only a setup and a change of category are.
LEMMA SeatedElsewhere ==
  ASSUME NEW x, Seats(x), x.pc \notin {"sync", "shift", "drop"}
  PROVE  AllSit
BY DEF Seats

\* A step that reads.
LEMMA ReadingServes ==
  ASSUME StageInv, NEW q \in Handlers, req[q].pc # "done", UNCHANGED <<stage, resp, version, raced, refused>>,
         NEW y, Becomes(q, y), Asked(y), Found(y), y.kind \in {req[q].kind, "none"},
         ~raced => IF y.pc = "done" THEN AllSit ELSE Relies(y) /\ Seats(y),
         req[q].kind \in Placing => req[q].pc \notin {"sync", "shift", "drop"}
  PROVE  Served(q)
<1>1. Sorting!TypeOK'
  BY DEF StageInv, Sorting!TypeOK
<1>2. ~raced => (y.pc = "done" => AllSit') /\ (y.pc # "done" => Relies(y)' /\ Seats(y)')
  BY SameDocuments
<1>3. ~raced /\ req[q].kind \in Placing => OthersMayRely
  BY Acting, SeatedElsewhere, SameDocuments DEF OthersMayRely
<1> QED  BY <1>1, <1>2, <1>3, SameDocuments DEF Served

\* A step that ends there.
LEMMA GivingUpServes ==
  ASSUME StageInv, NEW q \in Handlers, req[q].pc \notin {"done", "sync", "shift", "drop"},
         UNCHANGED <<stage, resp, version, raced, refused>>, Sorting!End(q)
  PROVE  Served(q)
<1>1. Becomes(q, Sorting!NoRequest)
  BY Ending DEF StageInv
<1>2. ~raced => AllSit
  BY Acting, SeatedElsewhere
<1> QED  BY <1>1, <1>2, NothingAsked, ReadingServes

\* What is said of a request, said of the record it is.
LEMMA SameRequest ==
  ASSUME NEW p, NEW z, req'[p] = z
  PROVE  /\ Asked(z) => Asked(req[p])'
         /\ Found(z)' => Found(req[p])'
         /\ Relies(z)' => Relies(req[p])'
         /\ Seats(z)' => Seats(req[p])'
<1>1. Asked(z) => Asked(req[p])'
  BY DEF Asked
<1>2. Found(z)' => Found(req[p])'
  BY DEF Found
<1>3. Relies(z)' => Relies(req[p])'
  BY DEF Relies, KeptBy
<1>4. Seats(z)' => Seats(req[p])'
  BY DEF Seats, KeptBy
<1> QED  BY <1>1, <1>2, <1>3, <1>4

\* A step of one request keeps what is said of all.
LEMMA ServingKeeps ==
  ASSUME StageInv, NEW q \in Handlers, req[q].pc # "done", Served(q)
  PROVE  StageInv'
<1>1. PICK y : /\ Becomes(q, y) /\ Asked(y) /\ Found(y)' /\ y.kind \in {req[q].kind, "none"}
               /\ ~raced => /\ y.pc = "done" => AllSit'
                            /\ y.pc # "done" => Relies(y)' /\ Seats(y)'
                            /\ req[q].kind \in Placing => OthersMayRely
  BY DEF Served
<1>2. Sorting!TypeOK' /\ Steady /\ raced' = raced
  BY DEF Served
<1>3. \A p \in Handlers : Asked(req[p]) /\ Found(req[p])
  BY DEF StageInv, AskedInv
<1>4. /\ DOMAIN req' = Handlers /\ req'[q] = y
      /\ \A p \in Handlers \ {q} : req'[p] = req[p]
  BY <1>1 DEF Becomes
<1>5. ASSUME NEW p \in Handlers
      PROVE  Asked(req[p])' /\ Found(req[p])'
  <2>1. PICK z : z = req'[p]
    OBVIOUS
  <2>2. Asked(z) /\ Found(z)'
    BY <1>1, <1>2, <1>3, <1>4, <2>1, FoundStays
  <2> QED  BY <2>1, <2>2, SameRequest
<1>6. AskedInv'
  BY <1>4, <1>5 DEF AskedInv
<1>7. ASSUME ~raced'
      PROVE  /\ AloneInv'
             /\ \A p \in Sorting!Active' : Relies(req[p])' /\ Seats(req[p])'
             /\ Sorting!Active' = {} => AllSit'
  <2>1. ~raced
    BY <1>2, <1>7
  <2>2. /\ AloneInv /\ \A p \in Sorting!Active : Relies(req[p]) /\ Seats(req[p])
        /\ q \in Sorting!Active
    BY <2>1 DEF StageInv, QuietInv, Sorting!Active
  <2>3. /\ Sorting!Active' = {p \in Handlers : req'[p].pc # "done"}
        /\ Sorting!Active = {p \in Handlers : req[p].pc # "done"}
    BY DEF Sorting!Active
  <2>4. Sorting!Active' \subseteq Sorting!Active
    BY <1>4, <2>2, <2>3
  <2>5. \A p \in Sorting!Active' : req'[p].kind = req[p].kind \/ req'[p].kind = "none"
    BY <1>1, <1>4, <2>3
  <2>6. \A p \in Handlers : req'[p].kind = "none" => req'[p].pc = "done"
    BY <1>6 DEF AskedInv, Asked, StepsOf
  <2>7. \A p \in Sorting!Active' : req'[p].kind = req[p].kind
    BY <2>3, <2>5, <2>6
  <2>8. AloneInv'
    BY <2>2, <2>4, <2>7 DEF AloneInv
  <2>9. ASSUME NEW p \in Sorting!Active'
        PROVE  Relies(req[p])' /\ Seats(req[p])'
    <3>1. p \in Handlers /\ req'[p].pc # "done"
      BY <2>3
    <3>2. CASE p = q
      BY <1>1, <1>4, <2>1, <3>1, <3>2, SameRequest
    <3>3. CASE p # q
      <4>1. PICK z : z = req[p]
        OBVIOUS
      <4>2. req'[p] = z /\ Asked(z) /\ Relies(z) /\ Found(z)
        BY <1>3, <1>4, <2>2, <2>4, <3>1, <3>3, <4>1
      <4>3. z.kind \in Placing /\ req[q].kind \in Placing
        BY <2>2, <2>4, <3>3, <4>1 DEF AloneInv
      <4>4. OthersMayRely
        BY <1>1, <2>1, <4>3
      <4>5. Relies(z)' /\ AllSit'
        BY <4>2, <4>3, <4>4 DEF OthersMayRely
      <4>6. z.pc \notin {"sync", "shift", "drop"}
        BY <4>2, <4>3 DEF Asked, StepsOf, Placing
      <4>7. Seats(z)'
        BY <4>5, <4>6 DEF Seats
      <4> QED  BY <4>2, <4>5, <4>7, SameRequest
    <3> QED  BY <3>2, <3>3
  <2>10. ASSUME Sorting!Active' = {} PROVE AllSit'
    BY <1>1, <1>4, <2>1, <2>3, <2>10
  <2> QED  BY <2>8, <2>9, <2>10
<1>8. QuietInv'
  BY <1>7 DEF QuietInv
<1> QED  BY <1>2, <1>5, <1>6, <1>8 DEF StageInv

\* The steps of each kind, the other way round.
LEMMA KindsAt ==
  ASSUME NEW x, Asked(x)
  PROVE  /\ x.pc = "ensure" => x.kind \in {"list", "create", "submit", "status", "workspace"}
         /\ x.pc = "seed" => x.kind \in {"list", "create", "submit", "status", "workspace"}
         /\ x.pc = "create" => x.kind = "create"
         /\ x.pc \in {"find", "save", "sync"} => x.kind \in {"recategorise", "delete", "own"}
         /\ x.pc = "find" => x.kind \in {"recategorise", "delete"}
         /\ x.pc \in {"save", "sync"} => x.kind \in {"recategorise", "own"}
         /\ x.pc \in {"siblings", "count", "target", "commit"} => x.kind = "delete"
         /\ x.pc = "own" => x.kind \in {"submit", "status"}
         /\ x.pc \in {"stage", "exists"} => x.kind = "move"
         /\ x.pc = "put" => x.kind \in Placing
         /\ x.pc \in {"setup", "existing", "shift", "drop", "version"} => x.kind \in {"own", "workspace"}
         /\ x.pc \in {"add", "start"} => x.kind = "own"
BY DEF Asked, StepsOf, Placing, Sorting!Configuring

\* A request that goes on is asked and found as before.
LEMMA GoesOn ==
  ASSUME NEW x, NEW y, Asked(x), SameQuestion(x, y), y.pc \in StepsOf(x.kind), y.list \subseteq Entries,
         y.kind = "own" /\ y.pc \in {"save", "sync"} => y.s # Nothing
  PROVE  /\ Asked(y)
         /\ Found(x) /\ y.kept = x.kept /\ y.pc \notin {"save", "sync", "siblings", "count", "target", "commit"} =>
              Found(y)
<1>1. Asked(y)
  BY DEF Asked, SameQuestion, RequestFields
<1>2. Found(x) /\ y.kept = x.kept /\ y.pc \notin {"save", "sync", "siblings", "count", "target", "commit"} =>
        Found(y)
  BY DEF Found
<1> QED  BY <1>1, <1>2

\* What a request relies on once it has listed the stages of the workspace.
LEMMA ListedRelies ==
  ASSUME NEW x, NEW y, Asked(x), Relies(x), x.pc \in {"ensure", "seed"}, x.kind # "list", AllSit,
         SameQuestion(x, y), y.kept = x.kept,
         y.pc = (CASE x.kind = "create" -> "create" [] x.kind = "workspace" -> "shift" [] OTHER -> "put"),
         \A e \in y.list : Told(e) /\ e.is = "workspace" /\ e.id \in Sorting!Workspace
  PROVE  Relies(y) /\ Seats(y)
<1>1. x.kind \in {"create", "submit", "status", "workspace"}
  BY KindsAt
<1>2. CASE x.kind = "create"
  <2>1. y.pc = "create" /\ y.kind = "create"
    BY <1>2 DEF SameQuestion
  <2> QED  BY <2>1 DEF Relies, Seats
<1>3. CASE x.kind \in {"submit", "status"}
  <2>1. y.pc = "put" /\ y.kind \in {"submit", "status"}
    BY <1>3 DEF SameQuestion
  <2>2. Sorting!Own = {}
    BY <1>3 DEF Relies
  <2>3. Sorting!Effective = Sorting!Workspace
    BY <2>2 DEF Sorting!Effective
  <2> QED  BY <2>1, <2>3 DEF Relies, Seats
<1>4. CASE x.kind = "workspace"
  <2>1. y.pc = "shift" /\ y.kind = "workspace"
    BY <1>4 DEF SameQuestion
  <2>2. y.kept = Sorting!Own
    BY <1>4 DEF Relies
  <2>3. Relies(y)
    BY <2>1, <2>2 DEF Relies
  <2>4. Sorting!Effective \subseteq Sorting!Workspace \cup Sorting!Own
    BY DEF Sorting!Effective
  <2>5. Seats(y)
    BY <2>1, <2>4 DEF Seats, AllSit, Sits
  <2> QED  BY <2>3, <2>5
<1> QED  BY <1>1, <1>2, <1>3, <1>4

\* ensureDefaultStages finds stages, or none.
LEMMA EnsureServes ==
  ASSUME StageInv, NEW q \in Handlers, Sorting!Ensure(q)
  PROVE  Served(q)
<1>1. PICK x : x = req[q]
  OBVIOUS
<1>2. /\ x.pc = "ensure" /\ UNCHANGED <<stage, resp, version, raced, refused>>
      /\ req[q].pc \notin {"done", "sync", "shift", "drop"} /\ req[q].pc # "done"
  BY <1>1 DEF Sorting!Ensure, Sorting!At, Sorting!ghosts
<1>3. /\ Sorting!TypeOK /\ AskedInv /\ Asked(x) /\ Found(x) /\ (~raced => Relies(x) /\ Seats(x))
  BY <1>1, <1>2, Acting
<1>4. /\ x.kind \in {"list", "create", "submit", "status", "workspace"} /\ (~raced => AllSit)
      /\ (req[q].kind \in Placing => req[q].pc \notin {"sync", "shift", "drop"})
  BY <1>2, <1>3, KindsAt, SeatedElsewhere
<1>5. CASE Sorting!Workspace # {} /\ x.kind = "list"
  BY <1>1, <1>2, <1>5, GivingUpServes DEF Sorting!Ensure, Sorting!Answered
<1>6. CASE Sorting!Workspace # {} /\ x.kind # "list"
  <2>1. PICK list : list = Sorting!Read(Sorting!Workspace)
    OBVIOUS
  <2>2. Sorting!GoWith(q, Sorting!AfterEnsure(q), list)
    BY <1>1, <1>6, <2>1 DEF Sorting!Ensure, Sorting!Answered
  <2>3. PICK y : /\ Becomes(q, y) /\ SameQuestion(x, y)
                 /\ y.pc = Sorting!AfterEnsure(q) /\ y.list = list /\ y.kept = x.kept
    BY <1>1, <1>3, <2>2, GoingWith
  <2>4. y.pc = (CASE x.kind = "create" -> "create" [] x.kind = "workspace" -> "shift" [] OTHER -> "put")
    BY <1>1, <1>6, <2>3 DEF Sorting!AfterEnsure
  <2>5. /\ list \subseteq Entries
        /\ \A e \in list : Told(e) /\ e.is = "workspace" /\ e.id \in Sorting!Workspace
    BY <1>3, <2>1, ReadTells DEF Sorting!Workspace
  <2>6. y.pc \in StepsOf(x.kind) /\ y.pc \in {"create", "shift", "put"}
    BY <1>4, <1>6, <2>4 DEF StepsOf
  <2>7. Asked(y) /\ Found(y) /\ y.kind = x.kind
    BY <1>3, <2>3, <2>5, <2>6, GoesOn DEF SameQuestion
  <2>8. ~raced => Relies(y) /\ Seats(y)
    BY <1>2, <1>3, <1>4, <1>6, <2>3, <2>4, <2>5, ListedRelies
  <2> QED  BY <1>1, <1>2, <1>4, <2>3, <2>6, <2>7, <2>8, ReadingServes
<1>7. CASE Sorting!Workspace = {}
  <2>1. PICK y : /\ Becomes(q, y) /\ SameQuestion(x, y) /\ y.pc = "seed" /\ y.list = x.list /\ y.kept = x.kept
    BY <1>1, <1>3, <1>7, Going DEF Sorting!Ensure
  <2>2. y.pc \in StepsOf(x.kind) /\ y.list \subseteq Entries
    BY <1>3, <1>4, <2>1 DEF StepsOf, Asked
  <2>3. Asked(y) /\ Found(y) /\ y.kind = x.kind
    BY <1>3, <2>1, <2>2, GoesOn DEF SameQuestion
  <2>4. Relies(x) => Relies(y)
    BY <1>2, <2>1 DEF Relies, SameQuestion
  <2>5. AllSit => Seats(y)
    BY <2>1 DEF Seats
  <2> QED  BY <1>1, <1>2, <1>3, <1>4, <2>1, <2>3, <2>4, <2>5, ReadingServes
<1> QED  BY <1>5, <1>6, <1>7

\* Where stages are only added, those there were are what they were.
LEMMA GrownStays ==
  ASSUME Sorting!TypeOK, stage' \in [StageIds -> StageTypes], NEW is \in {"workspace", "form"}, Grown(is),
         UNCHANGED <<resp, version, raced, refused>>
  PROVE  /\ Sorting!TypeOK' /\ Steady
         /\ Sorting!Workspace \subseteq Sorting!Workspace' /\ Sorting!Own \subseteq Sorting!Own'
         /\ is = "workspace" => Sorting!Own' = Sorting!Own
         /\ is = "form" => Sorting!Workspace' = Sorting!Workspace
         /\ \A s \in Sorting!Workspace \cup Sorting!Own : stage'[s] = stage[s]
         /\ \A e \in Entries : Told(e) => Told(e)'
<1>1. Sorting!TypeOK'
  BY StageKinds DEF Sorting!TypeOK, StageTypes
<1>2. \A s \in StageIds : stage'[s] = stage[s] \/ (stage[s].is = "unused" /\ stage'[s].is = is)
  BY DEF Grown, Sorting!Fresh
<1>3. Steady
  BY <1>2 DEF Steady
<1>4. /\ Sorting!Workspace' = {s \in StageIds : stage'[s].is = "workspace"}
      /\ Sorting!Own' = {s \in StageIds : stage'[s].is = "form"}
  BY DEF Sorting!Workspace, Sorting!Own
<1>5. \A s \in Sorting!Workspace \cup Sorting!Own : stage'[s] = stage[s]
  BY <1>2 DEF Sorting!Workspace, Sorting!Own
<1>6. /\ Sorting!Workspace \subseteq Sorting!Workspace' /\ Sorting!Own \subseteq Sorting!Own'
      /\ is = "workspace" => Sorting!Own' = Sorting!Own
      /\ is = "form" => Sorting!Workspace' = Sorting!Workspace
  BY <1>2, <1>4 DEF Sorting!Workspace, Sorting!Own
<1>7. ASSUME NEW e \in Entries, Told(e)
      PROVE  Told(e)'
  <2>1. e.id \in StageIds /\ e.is # "unused" /\ stage[e.id].is = e.is
    BY <1>7 DEF Entries, Told
  <2>2. stage'[e.id] = stage[e.id]
    BY <1>2, <2>1
  <2> QED  BY <1>7, <2>2 DEF Told
<1> QED  BY <1>1, <1>3, <1>5, <1>6, <1>7

\* A stage more in the workspace is of no matter to submissions, moves and responses.
LEMMA WorkspaceGrows ==
  ASSUME Sorting!TypeOK, stage' \in [StageIds -> StageTypes], Grown("workspace"),
         UNCHANGED <<resp, version, raced, refused>>, AllSit
  PROVE  OthersMayRely
<1>1. /\ Sorting!Workspace \subseteq Sorting!Workspace' /\ Sorting!Own' = Sorting!Own
      /\ \A s \in Sorting!Workspace \cup Sorting!Own : stage'[s] = stage[s]
      /\ \A e \in Entries : Told(e) => Told(e)'
  BY GrownStays
<1>2. Sorting!Effective \subseteq Sorting!Effective' /\ Sorting!Effective \subseteq Sorting!Workspace \cup Sorting!Own
  BY <1>1 DEF Sorting!Effective
<1>3. \A r \in Responses : Sits(r, Sorting!Effective)' <=>
        (resp'[r] # Sorting!NoResponse => resp'[r].on \in Sorting!Effective' /\ resp'[r].status = stage'[resp'[r].on].cat)
  BY DEF Sits, Sorting!NoResponse
<1>4. AllSit'
  BY <1>1, <1>2, <1>3 DEF AllSit, Sits
<1>5. ASSUME NEW z, z.kind \in Placing, Asked(z), Relies(z)
      PROVE  Relies(z)'
  <2>1. z.pc \in {"own", "ensure", "seed", "put", "stage", "exists"} /\ z.list \subseteq Entries
    BY <1>5 DEF Asked, StepsOf, Placing
  <2>2. z.kind \notin {"own", "workspace", "recategorise"}
    BY <1>5 DEF Placing
  <2>3. z.kind \in {"submit", "status"} /\ z.pc \in {"ensure", "seed"} => Sorting!Own' = {}
    BY <1>1, <1>5 DEF Relies
  <2>4. z.pc = "exists" => \A e \in z.list : Told(e)' /\ e.is = "workspace"
    BY <1>1, <1>5, <2>1 DEF Relies
  <2>5. z.pc = "put" => \A e \in z.list : Told(e)' /\ e.id \in Sorting!Effective'
    BY <1>1, <1>2, <1>5, <2>1 DEF Relies
  <2> QED  BY <2>1, <2>2, <2>3, <2>4, <2>5 DEF Relies
<1> QED  BY <1>4, <1>5 DEF OthersMayRely

\* Seeding: the stages that come back are those that are there now.
LEMMA SeedServes ==
  ASSUME StageInv, NEW q \in Handlers, Sorting!Seed(q)
  PROVE  Served(q)
<1>1. PICK x : x = req[q]
  OBVIOUS
<1>2. PICK ids : ids = Sorting!SeedIds(Sorting!Fresh)
  OBVIOUS
<1>3. PICK list : list = {[id |-> ids[c], is |-> "workspace", cat |-> c, start |-> c = First] : c \in Categories}
  OBVIOUS
<1>4. /\ x.pc = "seed" /\ UNCHANGED <<resp, version, raced, refused>> /\ req[q].pc # "done"
      /\ Sorting!Cardinality(Sorting!Fresh) >= Sorting!Cardinality(Categories)
      /\ stage' = Sorting!Seeded(stage, ids) /\ Sorting!Answered(q, list)
  BY <1>1, <1>2, <1>3 DEF Sorting!Seed, Sorting!At, Sorting!ghosts
<1>5. /\ Sorting!TypeOK /\ AskedInv /\ Asked(x) /\ Found(x) /\ (~raced => Relies(x) /\ AllSit)
  BY <1>1, <1>4, Acting, SeatedElsewhere
<1>6. x.kind \in {"list", "create", "submit", "status", "workspace"}
  BY <1>4, <1>5, KindsAt
<1>7. /\ stage' \in [StageIds -> StageTypes] /\ Grown("workspace")
      /\ \A c \in Categories : ids[c] \in StageIds /\ stage'[ids[c]] = Sorting!SeedStage(c)
  BY <1>2, <1>4, <1>5, SeedingGrows
<1>8. Sorting!TypeOK' /\ Steady /\ Sorting!Own' = Sorting!Own
  BY <1>4, <1>5, <1>7, GrownStays
<1>9. ~raced => OthersMayRely
  BY <1>4, <1>5, <1>7, WorkspaceGrows
<1>10. /\ list \subseteq Entries
       /\ \A e \in list : Told(e)' /\ e.is = "workspace" /\ e.id \in Sorting!Workspace'
  <2>1. ASSUME NEW e \in list
        PROVE  e \in Entries /\ Told(e)' /\ e.is = "workspace" /\ e.id \in Sorting!Workspace'
    <3>1. PICK c \in Categories : e = [id |-> ids[c], is |-> "workspace", cat |-> c, start |-> c = First]
      BY <1>3, <2>1
    <3>2. ids[c] \in StageIds /\ stage'[ids[c]] = [is |-> "workspace", cat |-> c, start |-> c = First]
      BY <1>7 DEF Sorting!SeedStage
    <3>3. (c = First) \in BOOLEAN
      OBVIOUS
    <3> QED  BY <3>1, <3>2, <3>3 DEF Entries, Told, Sorting!Workspace
  <2> QED  BY <2>1
<1>11. CASE x.kind = "list"
  <2>1. Becomes(q, Sorting!NoRequest)
    BY <1>1, <1>4, <1>5, <1>11, Ending DEF Sorting!Answered
  <2>2. Asked(Sorting!NoRequest) /\ Found(Sorting!NoRequest)'
    BY <1>8, NothingAsked, FoundStays
  <2> QED  BY <1>4, <1>8, <1>9, <2>1, <2>2, NothingAsked DEF Served, OthersMayRely
<1>12. CASE x.kind # "list"
  <2>1. PICK y : /\ Becomes(q, y) /\ SameQuestion(x, y)
                 /\ y.pc = Sorting!AfterEnsure(q) /\ y.list = list /\ y.kept = x.kept
    BY <1>1, <1>4, <1>5, <1>12, GoingWith DEF Sorting!Answered
  <2>2. y.pc = (CASE x.kind = "create" -> "create" [] x.kind = "workspace" -> "shift" [] OTHER -> "put")
    BY <1>1, <1>12, <2>1 DEF Sorting!AfterEnsure
  <2>3. y.pc \in StepsOf(x.kind) /\ y.pc \in {"create", "shift", "put"}
    BY <1>6, <1>12, <2>2 DEF StepsOf
  <2>4. Asked(y) /\ Found(y) /\ y.kind = x.kind
    BY <1>5, <1>10, <2>1, <2>3, GoesOn DEF SameQuestion
  <2>5. Found(y)'
    BY <1>8, <2>4, FoundStays
  <2>6. ASSUME ~raced
        PROVE  Relies(y)' /\ Seats(y)'
    <3>1. AllSit' /\ Relies(x)
      BY <1>5, <1>9, <2>6 DEF OthersMayRely
    <3>2. CASE x.kind = "create"
      <4>1. y.pc = "create" /\ y.kind = "create"
        BY <2>2, <2>4, <3>2
      <4> QED  BY <3>1, <4>1 DEF Relies, Seats
    <3>3. CASE x.kind \in {"submit", "status"}
      <4>1. y.pc = "put" /\ y.kind \in {"submit", "status"}
        BY <2>2, <2>4, <3>3
      <4>2. Sorting!Own' = {}
        BY <1>4, <1>8, <3>1, <3>3 DEF Relies
      <4>3. Sorting!Effective' = Sorting!Workspace'
        BY <4>2 DEF Sorting!Effective
      <4> QED  BY <1>10, <2>1, <3>1, <4>1, <4>3 DEF Relies, Seats
    <3>4. CASE x.kind = "workspace"
      <4>1. y.pc = "shift" /\ y.kind = "workspace"
        BY <2>2, <2>4, <3>4
      <4>2. y.kept = Sorting!Own'
        BY <1>4, <1>8, <2>1, <3>1, <3>4 DEF Relies
      <4>3. Relies(y)'
        BY <1>10, <2>1, <4>1, <4>2 DEF Relies
      <4>4. Sorting!Effective' \subseteq (Sorting!Workspace \cup Sorting!Own)'
        BY DEF Sorting!Effective
      <4>5. Seats(y)'
        BY <3>1, <4>1, <4>4 DEF Seats, AllSit, Sits, Sorting!NoResponse
      <4> QED  BY <4>3, <4>5
    <3> QED  BY <1>6, <1>12, <3>2, <3>3, <3>4
  <2>7. y.pc # "done" /\ y.kind = req[q].kind
    BY <1>1, <2>3, <2>4
  <2> QED  BY <1>4, <1>8, <1>9, <2>1, <2>4, <2>5, <2>6, <2>7 DEF Served
<1> QED  BY <1>11, <1>12

\* createStage
LEMMA CreateServes ==
  ASSUME StageInv, NEW q \in Handlers, Sorting!Create(q)
  PROVE  Served(q)
<1>1. PICK x : x = req[q]
  OBVIOUS
<1>2. /\ x.pc = "create" /\ UNCHANGED <<resp, version, raced, refused>> /\ req[q].pc # "done"
      /\ Sorting!Fresh # {} /\ Sorting!End(q)
      /\ stage' = [stage EXCEPT ![Sorting!New] = [is |-> "workspace", cat |-> x.cat, start |-> FALSE]]
  BY <1>1 DEF Sorting!Create, Sorting!At, Sorting!ghosts
<1>3. Sorting!TypeOK /\ AskedInv /\ Asked(x) /\ (~raced => AllSit)
  BY <1>1, <1>2, Acting, SeatedElsewhere
<1>4. x.kind = "create" /\ x.cat \in Categories
  BY <1>2, <1>3, KindsAt DEF Asked
<1>5. stage' \in [StageIds -> StageTypes] /\ Grown("workspace")
  BY <1>2, <1>3, <1>4, AddingGrows
<1>6. Sorting!TypeOK' /\ Steady
  BY <1>2, <1>3, <1>5, GrownStays
<1>7. ~raced => OthersMayRely
  BY <1>2, <1>3, <1>5, WorkspaceGrows
<1>8. Becomes(q, Sorting!NoRequest) /\ Found(Sorting!NoRequest)'
  BY <1>2, <1>3, <1>6, Ending, NothingAsked, FoundStays
<1> QED  BY <1>2, <1>6, <1>7, <1>8, NothingAsked DEF Served, OthersMayRely

\* resolveStageForForm and startStageForForm: the form's own stages come first.
LEMMA ReadOwnServes ==
  ASSUME StageInv, NEW q \in Handlers, Sorting!ReadOwn(q)
  PROVE  Served(q)
<1>1. PICK x : x = req[q]
  OBVIOUS
<1>2. /\ x.pc = "own" /\ UNCHANGED <<stage, resp, version, raced, refused>> /\ req[q].pc # "done"
      /\ req[q].pc \notin {"sync", "shift", "drop"}
  BY <1>1 DEF Sorting!ReadOwn, Sorting!At, Sorting!ghosts
<1>3. /\ Sorting!TypeOK /\ AskedInv /\ Asked(x) /\ Found(x) /\ (~raced => Relies(x) /\ AllSit)
  BY <1>1, <1>2, Acting, SeatedElsewhere
<1>4. x.kind \in {"submit", "status"}
  BY <1>2, <1>3, KindsAt
<1>5. CASE Sorting!Own # {}
  <2>1. PICK list : list = Sorting!Read(Sorting!Own)
    OBVIOUS
  <2>2. PICK y : /\ Becomes(q, y) /\ SameQuestion(x, y) /\ y.pc = "put" /\ y.list = list /\ y.kept = x.kept
    BY <1>1, <1>3, <1>5, <2>1, GoingWith DEF Sorting!ReadOwn
  <2>3. list \subseteq Entries /\ \A e \in list : Told(e) /\ e.id \in Sorting!Own
    BY <1>3, <2>1, ReadTells
  <2>4. Asked(y) /\ Found(y) /\ y.kind = x.kind
    BY <1>3, <1>4, <2>2, <2>3, GoesOn DEF SameQuestion, StepsOf
  <2>5. Sorting!Effective = Sorting!Own
    BY <1>5 DEF Sorting!Effective
  <2>6. Relies(y)
    BY <1>4, <2>2, <2>3, <2>4, <2>5 DEF Relies
  <2>7. ~raced => Seats(y)
    BY <1>3, <2>2 DEF Seats
  <2> QED  BY <1>1, <1>2, <2>2, <2>4, <2>6, <2>7, ReadingServes
<1>6. CASE Sorting!Own = {}
  <2>1. PICK y : /\ Becomes(q, y) /\ SameQuestion(x, y) /\ y.pc = "ensure" /\ y.list = x.list /\ y.kept = x.kept
    BY <1>1, <1>3, <1>6, Going DEF Sorting!ReadOwn
  <2>2. Asked(y) /\ Found(y) /\ y.kind = x.kind
    BY <1>3, <1>4, <2>1, GoesOn DEF SameQuestion, StepsOf, Asked
  <2>3. Relies(y)
    BY <1>4, <1>6, <2>1, <2>2 DEF Relies
  <2>4. ~raced => Seats(y)
    BY <1>3, <2>1 DEF Seats
  <2> QED  BY <1>1, <1>2, <2>1, <2>2, <2>3, <2>4, ReadingServes
<1> QED  BY <1>5, <1>6

\* getStageInWorkspace: the stage moved to, whichever list it is of.
LEMMA FindStageServes ==
  ASSUME StageInv, NEW q \in Handlers, Sorting!FindStage(q)
  PROVE  Served(q)
<1>1. PICK x : x = req[q]
  OBVIOUS
<1>2. /\ x.pc = "stage" /\ UNCHANGED <<stage, resp, version, raced, refused>> /\ req[q].pc # "done"
      /\ req[q].pc \notin {"done", "sync", "shift", "drop"}
  BY <1>1 DEF Sorting!FindStage, Sorting!At, Sorting!ghosts
<1>3. /\ Sorting!TypeOK /\ AskedInv /\ Asked(x) /\ Found(x) /\ (~raced => Relies(x) /\ AllSit)
  BY <1>1, <1>2, Acting, SeatedElsewhere
<1>4. x.kind = "move"
  BY <1>2, <1>3, KindsAt
<1>5. CASE x.s \in Sorting!Workspace \cup Sorting!Own
  <2>1. PICK list : list = Sorting!Read({x.s})
    OBVIOUS
  <2>2. PICK y : /\ Becomes(q, y) /\ SameQuestion(x, y) /\ y.list = list /\ y.kept = x.kept
                 /\ y.pc = IF x.s \in Sorting!Own THEN "put" ELSE "exists"
    BY <1>1, <1>3, <1>5, <2>1, GoingWith DEF Sorting!FindStage
  <2>3. list \subseteq Entries /\ \A e \in list : Told(e) /\ e.id = x.s /\ e.is = stage[x.s].is
    BY <1>3, <1>5, <2>1, ReadTells
  <2>4. Asked(y) /\ Found(y) /\ y.kind = x.kind
    BY <1>3, <1>4, <2>2, <2>3, GoesOn DEF SameQuestion, StepsOf
  <2>5. x.s \in Sorting!Own => x.s \in Sorting!Effective
    BY DEF Sorting!Effective
  <2>6. x.s \notin Sorting!Own => stage[x.s].is = "workspace"
    BY <1>5 DEF Sorting!Workspace
  <2>7. Relies(y)
    <3>1. CASE x.s \in Sorting!Own
      BY <1>4, <2>2, <2>3, <2>4, <2>5, <3>1 DEF Relies
    <3>2. CASE x.s \notin Sorting!Own
      BY <1>4, <2>2, <2>3, <2>4, <2>6, <3>2 DEF Relies
    <3> QED  BY <3>1, <3>2
  <2>8. ~raced => Seats(y)
    BY <1>3, <2>2 DEF Seats
  <2> QED  BY <1>1, <1>2, <2>2, <2>4, <2>7, <2>8, ReadingServes
<1>6. CASE x.s \notin Sorting!Workspace \cup Sorting!Own
  BY <1>1, <1>2, <1>6, GivingUpServes DEF Sorting!FindStage
<1> QED  BY <1>5, <1>6

\* getStageForForm: a workspace stage is refused once the form has its own.
LEMMA CheckOwnServes ==
  ASSUME StageInv, NEW q \in Handlers, Sorting!CheckOwn(q)
  PROVE  Served(q)
<1>1. PICK x : x = req[q]
  OBVIOUS
<1>2. /\ x.pc = "exists" /\ UNCHANGED <<stage, resp, version, raced, refused>> /\ req[q].pc # "done"
      /\ req[q].pc \notin {"done", "sync", "shift", "drop"}
  BY <1>1 DEF Sorting!CheckOwn, Sorting!At, Sorting!ghosts
<1>3. /\ Sorting!TypeOK /\ AskedInv /\ Asked(x) /\ Found(x) /\ (~raced => Relies(x) /\ AllSit)
  BY <1>1, <1>2, Acting, SeatedElsewhere
<1>4. x.kind = "move" /\ x.list \subseteq Entries
  BY <1>2, <1>3, KindsAt DEF Asked
<1>5. CASE Sorting!Own = {}
  <2>1. PICK y : /\ Becomes(q, y) /\ SameQuestion(x, y) /\ y.pc = "put" /\ y.list = x.list /\ y.kept = x.kept
    BY <1>1, <1>3, <1>5, Going DEF Sorting!CheckOwn, Sorting!MayUse
  <2>2. Asked(y) /\ Found(y) /\ y.kind = x.kind
    BY <1>3, <1>4, <2>1, GoesOn DEF SameQuestion, StepsOf
  <2>3. ASSUME ~raced, NEW e \in x.list
        PROVE  Told(e) /\ e.id \in Sorting!Effective
    <3>1. Told(e) /\ e.is = "workspace" /\ e.id \in StageIds
      BY <1>2, <1>3, <1>4, <2>3 DEF Relies, Entries
    <3> QED  BY <1>5, <3>1 DEF Told, Sorting!Effective, Sorting!Workspace
  <2>4. ~raced => Relies(y)
    BY <1>4, <2>1, <2>2, <2>3 DEF Relies
  <2>5. ~raced => Seats(y)
    BY <1>3, <2>1 DEF Seats
  <2> QED  BY <1>1, <1>2, <2>1, <2>2, <2>4, <2>5, ReadingServes
<1>6. CASE Sorting!Own # {}
  BY <1>1, <1>2, <1>6, GivingUpServes DEF Sorting!CheckOwn, Sorting!MayUse
<1> QED  BY <1>5, <1>6

\* The one write of a submission or a move.
LEMMA PutServes ==
  ASSUME StageInv, NEW q \in Handlers, Sorting!Put(q)
  PROVE  Served(q)
<1>1. PICK x : x = req[q]
  OBVIOUS
<1>2. /\ x.pc = "put" /\ UNCHANGED <<stage, version, raced, refused>> /\ req[q].pc # "done"
      /\ req[q].pc \notin {"done", "sync", "shift", "drop"} /\ Sorting!End(q)
  BY <1>1 DEF Sorting!Put, Sorting!At, Sorting!ghosts
<1>3. /\ Sorting!TypeOK /\ AskedInv /\ Asked(x) /\ Found(x) /\ (~raced => Relies(x) /\ AllSit)
  BY <1>1, <1>2, Acting, SeatedElsewhere
<1>4. x.kind \in Placing /\ x.list \subseteq Entries /\ x.r \in Responses
  BY <1>2, <1>3, KindsAt DEF Asked
<1>5. CASE Sorting!Chosen(q) = {}
  BY <1>1, <1>2, <1>5, GivingUpServes DEF Sorting!Put
<1>6. CASE Sorting!Chosen(q) # {}
  <2>1. PICK e \in Sorting!Chosen(q) : resp' = [resp EXCEPT ![x.r] = Sorting!Stored(e)]
    BY <1>1, <1>6 DEF Sorting!Put
  <2>2. e \in x.list
    BY <1>1, <2>1 DEF Sorting!Chosen, Sorting!OfCat
  <2>3. /\ e.id \in StageIds /\ e.cat \in Categories
        /\ Sorting!Stored(e) = [on |-> e.id, status |-> e.cat]
    BY <1>4, <2>2 DEF Entries, Sorting!Stored
  <2>4. resp \in [Responses -> ResponseTypes] /\ Sorting!Stored(e) \in ResponseTypes
    BY <1>3, <2>3, StageKinds DEF ResponseTypes
  <2>5. Sorting!TypeOK'
    BY <1>2, <1>3, <2>1, <2>4 DEF Sorting!TypeOK, ResponseTypes
  <2>6. Steady
    BY <1>2 DEF Steady
  <2>7. Sorting!Effective' = Sorting!Effective /\ Sorting!Own' = Sorting!Own
    BY <1>2 DEF Sorting!Effective, Sorting!Own, Sorting!Workspace
  <2>8. ASSUME ~raced
        PROVE  OthersMayRely
    <3>1. Told(e) /\ e.id \in Sorting!Effective
      BY <1>2, <1>3, <2>2, <2>8 DEF Relies
    <3>2. ASSUME NEW r \in Responses, resp'[r] # Sorting!NoResponse
          PROVE  resp'[r].on \in Sorting!Effective /\ resp'[r].status = stage[resp'[r].on].cat
      <4>1. CASE r = x.r
        BY <2>1, <2>3, <2>4, <3>1, <4>1 DEF Told
      <4>2. CASE r # x.r
        BY <1>3, <2>1, <2>4, <2>8, <3>2, <4>2 DEF AllSit, Sits
      <4> QED  BY <4>1, <4>2
    <3>3. AllSit'
      BY <1>2, <2>7, <3>2 DEF AllSit, Sits, Sorting!NoResponse
    <3>4. ASSUME NEW z, z.kind \in Placing, Asked(z), Relies(z)
          PROVE  Relies(z)'
      <4>1. z.pc \in {"own", "ensure", "seed", "put", "stage", "exists"}
        BY <3>4 DEF Asked, StepsOf, Placing
      <4>2. z.kind \notin {"own", "workspace", "recategorise"}
        BY <3>4 DEF Placing
      <4>3. \A f : Told(f)' <=> Told(f)
        BY <1>2 DEF Told
      <4> QED  BY <2>7, <3>4, <4>1, <4>2, <4>3 DEF Relies
    <3> QED  BY <3>3, <3>4 DEF OthersMayRely
  <2>9. Becomes(q, Sorting!NoRequest) /\ Found(Sorting!NoRequest)'
    BY <1>2, <1>3, <2>6, Ending, NothingAsked, FoundStays
  <2> QED  BY <1>2, <2>5, <2>6, <2>8, <2>9, NothingAsked DEF Served, OthersMayRely
<1> QED  BY <1>5, <1>6

\* deleteStage and updateStage look the stage up.
LEMMA FindServes ==
  ASSUME StageInv, NEW q \in Handlers, Sorting!Find(q)
  PROVE  Served(q)
<1>1. PICK x : x = req[q]
  OBVIOUS
<1>2. /\ x.pc = "find" /\ UNCHANGED <<stage, resp, version, raced, refused>> /\ req[q].pc # "done"
      /\ req[q].pc \notin {"done", "sync", "shift", "drop"}
  BY <1>1 DEF Sorting!Find, Sorting!At, Sorting!ghosts
<1>3. /\ Sorting!TypeOK /\ AskedInv /\ Asked(x) /\ Found(x) /\ (~raced => Relies(x) /\ AllSit)
  BY <1>1, <1>2, Acting, SeatedElsewhere
<1>4. x.kind \in {"recategorise", "delete"} /\ x.kind \notin Placing
  BY <1>2, <1>3, KindsAt DEF Placing
<1>5. CASE x.s \in Sorting!Workspace /\ (x.kind = "delete" => ~stage[x.s].start)
  <2>1. PICK list : list = Sorting!Read({x.s})
    OBVIOUS
  <2>2. PICK y : /\ Becomes(q, y) /\ SameQuestion(x, y) /\ y.list = list /\ y.kept = x.kept
                 /\ y.pc = IF x.kind = "delete" THEN "siblings" ELSE "save"
    BY <1>1, <1>3, <1>5, <2>1, GoingWith DEF Sorting!Find
  <2>3. list \subseteq Entries /\ list # {} /\ \A e \in list : Told(e) /\ e.id = x.s
    BY <1>3, <1>5, <2>1, ReadTells
  <2>4. Asked(y) /\ y.kind = x.kind /\ y.s = x.s
    BY <1>3, <1>4, <2>2, <2>3, GoesOn DEF SameQuestion, StepsOf
  <2>5. stage[x.s].is = "workspace"
    BY <1>5 DEF Sorting!Workspace
  <2>6. Found(y)
    <3>1. CASE x.kind = "delete"
      BY <1>3, <1>5, <2>2, <2>4, <2>5, <3>1 DEF Found
    <3>2. CASE x.kind = "recategorise"
      BY <1>3, <1>5, <2>2, <2>4, <2>5, <3>2 DEF Found
    <3> QED  BY <1>4, <3>1, <3>2
  <2>7. Relies(y)
    <3>1. CASE x.kind = "delete"
      BY <1>5, <2>2, <2>4, <3>1 DEF Relies
    <3>2. CASE x.kind = "recategorise"
      BY <1>5, <2>2, <2>3, <2>4, <3>2 DEF Relies
    <3> QED  BY <1>4, <3>1, <3>2
  <2>8. ~raced => Seats(y)
    BY <1>3, <2>2 DEF Seats
  <2> QED  BY <1>1, <1>2, <2>2, <2>4, <2>6, <2>7, <2>8, ReadingServes
<1>6. CASE ~(x.s \in Sorting!Workspace /\ (x.kind = "delete" => ~stage[x.s].start))
  BY <1>1, <1>2, <1>6, GivingUpServes DEF Sorting!Find
<1> QED  BY <1>5, <1>6

\* stage.save(): the category of a stage that is there.
LEMMA SaveServes ==
  ASSUME StageInv, NEW q \in Handlers, Sorting!Save(q)
  PROVE  Served(q)
<1>1. PICK x : x = req[q]
  OBVIOUS
<1>2. /\ x.pc = "save" /\ UNCHANGED <<resp, version, raced, refused>> /\ req[q].pc # "done"
      /\ req[q].pc \notin {"done", "sync", "shift", "drop"}
  BY <1>1 DEF Sorting!Save, Sorting!At, Sorting!ghosts
<1>3. /\ Sorting!TypeOK /\ AskedInv /\ Asked(x) /\ Found(x) /\ (~raced => Relies(x) /\ AllSit)
  BY <1>1, <1>2, Acting, SeatedElsewhere
<1>4. /\ x.kind \in {"recategorise", "own"} /\ x.kind \notin Placing /\ x.cat \in Categories /\ x.s \in StageIds
      /\ stage[x.s].is # "unused" /\ x.list \subseteq Entries
  BY <1>2, <1>3, KindsAt DEF Asked, Found, Placing
<1>5. CASE stage[x.s].is = "deleted"
  BY <1>1, <1>2, <1>5, GivingUpServes DEF Sorting!Save
<1>6. CASE stage[x.s].is # "deleted"
  <2>1. PICK old : old = stage[x.s]
    OBVIOUS
  <2>2. PICK new : new = [old EXCEPT !.cat = x.cat]
    OBVIOUS
  <2>3. old \in [is : {"workspace", "form"}, cat : Categories, start : BOOLEAN]
    BY <1>3, <1>4, <1>6, <2>1, StageKinds
  <2>4. /\ new \in [is : {"workspace", "form"}, cat : Categories, start : BOOLEAN] /\ new.is = old.is
        /\ new.cat = x.cat /\ new.start = old.start /\ (old.cat = x.cat => new = old)
    BY <1>4, <2>2, <2>3
  <2>5. stage' = [stage EXCEPT ![x.s] = new]
    BY <1>1, <1>6, <2>1, <2>2 DEF Sorting!Save
  <2>6. stage \in [StageIds -> StageTypes]
    BY <1>3, StageKinds
  <2>7. /\ stage' \in [StageIds -> StageTypes] /\ stage'[x.s] = new
        /\ \A s \in StageIds \ {x.s} : stage'[s] = stage[s]
    BY <1>4, <2>4, <2>5, <2>6 DEF StageTypes
  <2>8. Sorting!TypeOK'
    BY <1>2, <1>3, <2>7 DEF Sorting!TypeOK, StageTypes
  <2>9. Steady
    BY <2>1, <2>4, <2>7 DEF Steady
  <2>10. Sorting!Own' = Sorting!Own /\ Sorting!Workspace' = Sorting!Workspace
    BY <2>1, <2>4, <2>7 DEF Sorting!Own, Sorting!Workspace
  <2>11. Sorting!Effective' = Sorting!Effective
    BY <2>10 DEF Sorting!Effective
  <2>12. ~raced => /\ x.list # {} /\ \A e \in x.list : Told(e) /\ e.id = x.s
                   /\ x.kind = "recategorise" => x.s \in Sorting!Workspace
                   /\ x.kind = "own" => x.kept = Sorting!Own /\ x.s \in Sorting!Own
    BY <1>2, <1>3 DEF Relies
  <2>13. ~raced => \A r \in Responses : resp'[r] # Sorting!NoResponse =>
           /\ resp'[r].on \in Sorting!Effective'
           /\ resp'[r].on # x.s => resp'[r].status = stage'[resp'[r].on].cat
    <3>1. Sorting!Effective \subseteq StageIds
      BY DEF Sorting!Effective, Sorting!Own, Sorting!Workspace
    <3> QED  BY <1>2, <1>3, <2>7, <2>11, <3>1 DEF AllSit, Sits
  <2>14. CASE Sorting!Held(q).cat # x.cat
    <3>1. PICK y : /\ Becomes(q, y) /\ SameQuestion(x, y) /\ y.pc = "sync" /\ y.list = x.list /\ y.kept = x.kept
      BY <1>1, <1>3, <1>6, <2>14, Going DEF Sorting!Save
    <3>2. Asked(y) /\ y.kind = x.kind /\ y.s = x.s /\ y.cat = x.cat
      BY <1>2, <1>3, <1>4, <3>1, GoesOn DEF SameQuestion, StepsOf, Asked
    <3>3. Found(y)
      BY <1>2, <1>3, <3>1, <3>2 DEF Found
    <3>4. ~raced => Relies(y)'
      BY <1>4, <2>4, <2>7, <2>10, <2>12, <3>1, <3>2 DEF Relies
    <3>5. ~raced => Seats(y)'
      BY <2>13, <3>1, <3>2 DEF Seats, Sits, Sorting!NoResponse
    <3>6. Found(y)'
      BY <2>9, <3>2, <3>3, FoundStays
    <3> QED  BY <1>1, <1>2, <1>4, <2>8, <2>9, <3>1, <3>2, <3>4, <3>5, <3>6 DEF Served
  <2>15. CASE Sorting!Held(q).cat = x.cat
    <3>1. ~raced => stage' = stage
      <4>1. ASSUME ~raced
            PROVE  Sorting!Held(q) \in x.list
        BY <1>1, <2>12, <4>1 DEF Sorting!Held
      <4>2. ~raced => old.cat = x.cat
        BY <2>1, <2>12, <2>15, <4>1 DEF Told
      <4> QED  BY <2>1, <2>4, <2>5, <2>6, <4>2
    <3>2. ~raced => AllSit'
      BY <1>2, <1>3, <3>1, SameDocuments
    <3>3. CASE x.kind = "own"
      <4>1. PICK y : /\ Becomes(q, y) /\ SameQuestion(x, y) /\ y.pc = "add" /\ y.list = x.list /\ y.kept = x.kept
        BY <1>1, <1>3, <1>6, <2>15, <3>3, Going DEF Sorting!Save
      <4>2. Asked(y) /\ Found(y) /\ y.kind = x.kind /\ y.s = x.s /\ y.cat = x.cat
        BY <1>2, <1>3, <1>4, <3>3, <4>1, GoesOn DEF SameQuestion, StepsOf, Asked
      <4>3. y.s # Nothing
        BY <1>4, <4>2, StagesParameters
      <4>4. ~raced => Relies(y)'
        BY <1>4, <2>4, <2>7, <2>10, <2>12, <3>3, <4>1, <4>2, <4>3 DEF Relies
      <4>5. ~raced => Seats(y)'
        BY <3>2, <4>1 DEF Seats
      <4>6. Found(y)'
        BY <2>9, <4>2, FoundStays
      <4> QED  BY <1>1, <1>2, <1>4, <2>8, <2>9, <4>1, <4>2, <4>4, <4>5, <4>6 DEF Served
    <3>4. CASE x.kind = "recategorise"
      <4>1. Sorting!End(q)
        BY <1>1, <1>6, <2>15, <3>4 DEF Sorting!Save
      <4>2. Becomes(q, Sorting!NoRequest) /\ Found(Sorting!NoRequest)'
        BY <1>3, <2>9, <4>1, Ending, NothingAsked, FoundStays
      <4> QED  BY <1>1, <1>2, <1>4, <2>8, <2>9, <3>2, <4>2, NothingAsked DEF Served
    <3> QED  BY <1>4, <3>3, <3>4
  <2> QED  BY <2>14, <2>15
<1> QED  BY <1>5, <1>6

\* The responses on the stage take its category.
LEMMA SyncServes ==
  ASSUME StageInv, NEW q \in Handlers, Sorting!Sync(q)
  PROVE  Served(q)
<1>1. PICK x : x = req[q]
  OBVIOUS
<1>2. /\ x.pc = "sync" /\ UNCHANGED <<stage, version, raced, refused>> /\ req[q].pc # "done"
      /\ resp' = Sorting!Synced(x.s, x.cat)
  BY <1>1 DEF Sorting!Sync, Sorting!At, Sorting!ghosts
<1>3. /\ Sorting!TypeOK /\ AskedInv /\ Asked(x) /\ Found(x) /\ (~raced => Relies(x) /\ Seats(x))
  BY <1>1, <1>2, Acting
<1>4. /\ x.kind \in {"recategorise", "own"} /\ x.kind \notin Placing /\ x.cat \in Categories /\ x.s \in StageIds
      /\ x.list \subseteq Entries
  BY <1>2, <1>3, KindsAt DEF Asked, Placing
<1>5. ASSUME NEW r \in Responses
      PROVE  /\ resp'[r] = IF resp[r].on = x.s THEN [resp[r] EXCEPT !.status = x.cat] ELSE resp[r]
             /\ resp'[r] \in ResponseTypes
             /\ resp'[r] # Sorting!NoResponse =>
                  /\ resp[r] # Sorting!NoResponse /\ resp'[r].on = resp[r].on
                  /\ resp'[r].status = IF resp[r].on = x.s THEN x.cat ELSE resp[r].status
  <2>1. PICK old : old = resp[r]
    OBVIOUS
  <2>2. old \in ResponseTypes
    BY <1>3, <2>1, StageKinds
  <2>3. resp'[r] = IF old.on = x.s THEN [old EXCEPT !.status = x.cat] ELSE old
    BY <1>2, <2>1 DEF Sorting!Synced, Sorting!On
  <2>4. CASE old = Sorting!NoResponse
    <3>1. old.on # x.s
      BY <1>4, <2>4, StagesParameters DEF Sorting!NoResponse
    <3> QED  BY <2>1, <2>2, <2>3, <2>4, <3>1
  <2>5. CASE old \in [on : StageIds, status : Categories]
    <3>1. PICK new : new = [old EXCEPT !.status = x.cat]
      OBVIOUS
    <3>2. new \in [on : StageIds, status : Categories] /\ new.on = old.on /\ new.status = x.cat
      BY <1>4, <2>5, <3>1
    <3>3. old # Sorting!NoResponse
      BY <2>5, StagesParameters DEF Sorting!NoResponse
    <3> QED  BY <2>1, <2>2, <2>3, <3>1, <3>2, <3>3 DEF ResponseTypes
  <2> QED  BY <2>2, <2>4, <2>5 DEF ResponseTypes
<1>6. resp' \in [Responses -> ResponseTypes]
  BY <1>2, <1>5 DEF Sorting!Synced
<1>7. Sorting!TypeOK'
  BY <1>2, <1>3, <1>6 DEF Sorting!TypeOK, ResponseTypes
<1>8. Steady
  BY <1>2 DEF Steady
<1>9. /\ Sorting!Effective' = Sorting!Effective /\ Sorting!Own' = Sorting!Own
  BY <1>2 DEF Sorting!Effective, Sorting!Own, Sorting!Workspace
<1>10. ASSUME ~raced
       PROVE  AllSit'
  <2>1. stage[x.s].cat = x.cat
    BY <1>2, <1>3, <1>10 DEF Relies
  <2>2. \A r \in Responses : resp[r] # Sorting!NoResponse =>
          resp[r].on \in Sorting!Effective /\ (resp[r].on # x.s => resp[r].status = stage[resp[r].on].cat)
    BY <1>2, <1>3, <1>10 DEF Seats, Sits
  <2>3. \A r \in Responses : resp'[r] # Sorting!NoResponse =>
          resp'[r].on \in Sorting!Effective' /\ resp'[r].status = stage'[resp'[r].on].cat
    BY <1>2, <1>5, <1>9, <2>1, <2>2
  <2> QED  BY <2>3 DEF AllSit, Sits, Sorting!NoResponse
<1>11. CASE x.kind = "own"
  <2>1. PICK y : /\ Becomes(q, y) /\ SameQuestion(x, y) /\ y.pc = "add" /\ y.list = x.list /\ y.kept = x.kept
    BY <1>1, <1>3, <1>11, Going DEF Sorting!Sync
  <2>2. Asked(y) /\ Found(y) /\ y.kind = x.kind /\ y.s = x.s /\ y.cat = x.cat
    BY <1>2, <1>3, <1>4, <1>11, <2>1, GoesOn DEF SameQuestion, StepsOf, Asked
  <2>3. y.s # Nothing
    BY <1>4, <2>2, StagesParameters
  <2>4. ~raced => /\ x.list # {} /\ stage[x.s].cat = x.cat /\ x.s \in Sorting!Own /\ x.kept = Sorting!Own
                  /\ \A e \in x.list : e.id = x.s
    BY <1>2, <1>3, <1>11 DEF Relies
  <2>5. ~raced => Relies(y)'
    BY <1>2, <1>9, <1>11, <2>1, <2>2, <2>3, <2>4 DEF Relies
  <2>6. ~raced => Seats(y)'
    BY <1>10, <2>1 DEF Seats
  <2>7. Found(y)'
    BY <1>8, <2>2, FoundStays
  <2> QED  BY <1>1, <1>2, <1>4, <1>7, <1>8, <2>1, <2>2, <2>5, <2>6, <2>7 DEF Served
<1>12. CASE x.kind = "recategorise"
  <2>1. Sorting!End(q)
    BY <1>1, <1>12 DEF Sorting!Sync
  <2>2. Becomes(q, Sorting!NoRequest) /\ Found(Sorting!NoRequest)'
    BY <1>3, <1>8, <2>1, Ending, NothingAsked, FoundStays
  <2> QED  BY <1>1, <1>2, <1>4, <1>7, <1>8, <1>10, <2>2, NothingAsked DEF Served
<1> QED  BY <1>4, <1>11, <1>12

\* The checks of a delete: a sibling, the responses, the stage they go to.
LEMMA DeleteLooks ==
  ASSUME StageInv, NEW q \in Handlers, Sorting!Siblings(q) \/ Sorting!Count(q) \/ Sorting!Target(q)
  PROVE  Served(q)
<1>1. PICK x : x = req[q]
  OBVIOUS
<1>2. /\ x.pc \in {"siblings", "count", "target"} /\ UNCHANGED <<stage, resp, version, raced, refused>>
      /\ req[q].pc # "done" /\ req[q].pc \notin {"done", "sync", "shift", "drop"}
  BY <1>1 DEF Sorting!Siblings, Sorting!Count, Sorting!Target, Sorting!At, Sorting!ghosts
<1>3. /\ Sorting!TypeOK /\ AskedInv /\ Asked(x) /\ Found(x) /\ (~raced => Relies(x) /\ AllSit)
  BY <1>1, <1>2, Acting, SeatedElsewhere
<1>4. /\ x.kind = "delete" /\ x.kind \notin Placing /\ x.list \subseteq Entries
      /\ stage[x.s].is \in {"workspace", "deleted"} /\ ~stage[x.s].start
      /\ ~raced => x.s \in Sorting!Workspace
  BY <1>2, <1>3, KindsAt DEF Asked, Found, Relies, Placing
<1>5. ASSUME NEW y, Becomes(q, y), SameQuestion(x, y), y.pc \in {"count", "target", "commit"},
             y.kept = x.kept, y.list \subseteq Entries,
             ~raced /\ y.pc = "commit" => /\ y.list = {} => Sorting!On(x.s) = {}
                                          /\ \A e \in y.list : Told(e) /\ e.is = "workspace" /\ e.id # x.s
      PROVE  Served(q)
  <2>1. Asked(y) /\ y.kind = x.kind /\ y.s = x.s
    BY <1>3, <1>4, <1>5, GoesOn DEF SameQuestion, StepsOf
  <2>2. Found(y)
    BY <1>3, <1>4, <1>5, <2>1 DEF Found
  <2>3. ~raced => Relies(y)
    BY <1>4, <1>5, <2>1 DEF Relies
  <2>4. ~raced => Seats(y)
    BY <1>3, <1>5 DEF Seats
  <2> QED  BY <1>1, <1>2, <1>5, <2>1, <2>2, <2>3, <2>4, ReadingServes
<1>6. CASE Sorting!End(q)
  BY <1>2, <1>6, GivingUpServes
<1>7. CASE Sorting!Go(q, "count") \/ Sorting!Go(q, "target")
  <2>1. PICK y : /\ Becomes(q, y) /\ SameQuestion(x, y) /\ y.pc \in {"count", "target"}
                 /\ y.list = x.list /\ y.kept = x.kept
    BY <1>1, <1>3, <1>7, Going
  <2> QED  BY <1>4, <1>5, <2>1
<1>8. CASE Sorting!GoWith(q, "commit", {}) /\ Sorting!On(x.s) = {}
  <2>1. PICK y : Becomes(q, y) /\ SameQuestion(x, y) /\ y.pc = "commit" /\ y.list = {} /\ y.kept = x.kept
    BY <1>1, <1>3, <1>8, GoingWith
  <2> QED  BY <1>5, <1>8, <2>1
<1>9. CASE x.t \in Sorting!Workspace /\ x.t # x.s /\ Sorting!GoWith(q, "commit", Sorting!Read({x.t}))
  <2>1. PICK list : list = Sorting!Read({x.t})
    OBVIOUS
  <2>2. PICK y : Becomes(q, y) /\ SameQuestion(x, y) /\ y.pc = "commit" /\ y.list = list /\ y.kept = x.kept
    BY <1>1, <1>3, <1>9, <2>1, GoingWith
  <2>3. /\ list \subseteq Entries /\ list # {}
        /\ \A e \in list : Told(e) /\ e.id = x.t /\ e.is = stage[e.id].is
    BY <1>3, <1>9, <2>1, ReadTells
  <2>4. \A e \in list : Told(e) /\ e.is = "workspace" /\ e.id # x.s
    BY <1>9, <2>3 DEF Sorting!Workspace
  <2> QED  BY <1>5, <2>2, <2>3, <2>4
<1> QED  BY <1>1, <1>6, <1>7, <1>8, <1>9 DEF Sorting!Siblings, Sorting!Count, Sorting!Target

\* The transaction of a delete: never a default stage, and its responses go to one that stays.
LEMMA CommitServes ==
  ASSUME StageInv, NEW q \in Handlers, Sorting!Commit(q)
  PROVE  Served(q)
<1>1. PICK x : x = req[q]
  OBVIOUS
<1>2. PICK held : held = Sorting!Held(q)
  OBVIOUS
<1>3. /\ x.pc = "commit" /\ UNCHANGED <<version, raced, refused>> /\ req[q].pc # "done" /\ Sorting!End(q)
      /\ stage' = [stage EXCEPT ![x.s] = Sorting!Gone]
      /\ resp' = IF x.list = {} THEN resp
                 ELSE [r \in Responses |-> IF resp[r].on = x.s THEN Sorting!Stored(held) ELSE resp[r]]
  BY <1>1, <1>2 DEF Sorting!Commit, Sorting!At, Sorting!ghosts, Sorting!On
<1>4. /\ Sorting!TypeOK /\ AskedInv /\ Asked(x) /\ Found(x) /\ (~raced => Relies(x) /\ AllSit)
  BY <1>1, <1>3, Acting, SeatedElsewhere
<1>5. /\ x.kind = "delete" /\ x.kind \notin Placing /\ x.list \subseteq Entries /\ x.s \in StageIds
      /\ stage[x.s].is \in {"workspace", "deleted"} /\ ~stage[x.s].start
      /\ ~raced => x.s \in Sorting!Workspace
  BY <1>3, <1>4, KindsAt DEF Asked, Found, Relies, Placing
<1>6. x.list # {} => /\ held \in x.list /\ held.id \in StageIds /\ held.cat \in Categories
                     /\ Sorting!Stored(held) = [on |-> held.id, status |-> held.cat]
  <2>1. x.list # {} => held \in x.list
    BY <1>1, <1>2 DEF Sorting!Held
  <2> QED  BY <1>5, <2>1 DEF Entries, Sorting!Stored
<1>7. /\ stage \in [StageIds -> StageTypes] /\ resp \in [Responses -> ResponseTypes]
      /\ Sorting!Gone \in StageTypes /\ Sorting!Gone.is = "deleted" /\ ~Sorting!Gone.start
  BY <1>4, StageKinds DEF StageTypes, Sorting!Gone
<1>8. /\ stage' \in [StageIds -> StageTypes] /\ stage'[x.s] = Sorting!Gone
      /\ \A s \in StageIds \ {x.s} : stage'[s] = stage[s]
  BY <1>3, <1>5, <1>7
<1>9. resp' \in [Responses -> ResponseTypes]
  <2>1. x.list # {} => Sorting!Stored(held) \in ResponseTypes
    BY <1>6 DEF ResponseTypes
  <2> QED  BY <1>3, <1>7, <2>1
<1>10. Sorting!TypeOK'
  BY <1>3, <1>4, <1>8, <1>9 DEF Sorting!TypeOK, StageTypes, ResponseTypes
<1>11. Steady
  BY <1>5, <1>7, <1>8 DEF Steady
<1>12. ASSUME ~raced
       PROVE  AllSit'
  <2>1. /\ x.list = {} => Sorting!On(x.s) = {}
        /\ \A e \in x.list : Told(e) /\ e.is = "workspace" /\ e.id # x.s
    BY <1>3, <1>4, <1>12 DEF Relies
  <2>2. Sorting!Own' = Sorting!Own /\ Sorting!Workspace' = Sorting!Workspace \ {x.s}
    BY <1>5, <1>7, <1>8, <1>12 DEF Sorting!Own, Sorting!Workspace
  <2>3. Sorting!Effective' = IF Sorting!Own # {} THEN Sorting!Own ELSE Sorting!Workspace \ {x.s}
    BY <2>2 DEF Sorting!Effective
  <2>4. ASSUME NEW r \in Responses, resp'[r] # Sorting!NoResponse
        PROVE  resp'[r].on \in Sorting!Effective' /\ resp'[r].status = stage'[resp'[r].on].cat
    <3>1. CASE resp[r].on = x.s
      <4>1. x.list # {}
        BY <2>1, <3>1 DEF Sorting!On
      <4>2. resp[r] # Sorting!NoResponse
        BY <1>5, <3>1, StagesParameters DEF Sorting!NoResponse
      <4>3. x.s \in Sorting!Effective
        BY <1>4, <1>12, <3>1, <4>2 DEF AllSit, Sits
      <4>4. Sorting!Own = {}
        BY <1>5, <1>12, <4>3 DEF Sorting!Effective, Sorting!Own, Sorting!Workspace
      <4>5. resp'[r].on = held.id /\ resp'[r].status = held.cat
        BY <1>3, <1>6, <3>1, <4>1
      <4>6. held.id # x.s /\ held.id \in Sorting!Workspace /\ stage[held.id].cat = held.cat
        BY <1>6, <2>1, <4>1 DEF Told, Sorting!Workspace
      <4> QED  BY <1>6, <1>8, <2>3, <4>1, <4>4, <4>5, <4>6
    <3>2. CASE resp[r].on # x.s
      <4>1. resp'[r] = resp[r]
        BY <1>3, <3>2
      <4>2. resp[r].on \in Sorting!Effective /\ resp[r].status = stage[resp[r].on].cat
        BY <1>4, <1>12, <2>4, <4>1 DEF AllSit, Sits
      <4>3. resp[r].on \in StageIds \ {x.s} /\ resp[r].on \in Sorting!Effective'
        BY <2>3, <3>2, <4>2 DEF Sorting!Effective, Sorting!Own, Sorting!Workspace
      <4> QED  BY <1>8, <4>1, <4>2, <4>3
    <3> QED  BY <3>1, <3>2
  <2> QED  BY <2>4 DEF AllSit, Sits, Sorting!NoResponse
<1>13. Becomes(q, Sorting!NoRequest) /\ Found(Sorting!NoRequest)'
  BY <1>3, <1>4, <1>11, Ending, NothingAsked, FoundStays
<1> QED  BY <1>1, <1>3, <1>5, <1>10, <1>11, <1>12, <1>13, NothingAsked DEF Served

\* saveResponseSetup compares the version and reads the form's stages.
LEMMA SetupServes ==
  ASSUME StageInv, NEW q \in Handlers, Sorting!Setup(q) \/ Sorting!Existing(q)
  PROVE  Served(q)
<1>1. PICK x : x = req[q]
  OBVIOUS
<1>2. /\ x.pc \in {"setup", "existing"} /\ UNCHANGED <<stage, resp, version, raced, refused>>
      /\ req[q].pc # "done" /\ req[q].pc \notin {"done", "sync", "shift", "drop"}
  BY <1>1 DEF Sorting!Setup, Sorting!Existing, Sorting!At, Sorting!ghosts
<1>3. /\ Sorting!TypeOK /\ AskedInv /\ Asked(x) /\ Found(x) /\ (~raced => Relies(x) /\ AllSit)
  BY <1>1, <1>2, Acting, SeatedElsewhere
<1>4. x.kind \in {"own", "workspace"} /\ x.kind \notin Placing /\ x.list \subseteq Entries
  BY <1>2, <1>3, KindsAt DEF Asked, Placing
<1>5. CASE Sorting!End(q)
  BY <1>2, <1>5, GivingUpServes
<1>6. CASE Sorting!Go(q, "existing")
  <2>1. PICK y : /\ Becomes(q, y) /\ SameQuestion(x, y) /\ y.pc = "existing" /\ y.list = x.list /\ y.kept = x.kept
    BY <1>1, <1>3, <1>6, Going
  <2>2. Asked(y) /\ Found(y) /\ y.kind = x.kind
    BY <1>3, <1>4, <2>1, GoesOn DEF SameQuestion, StepsOf
  <2>3. Relies(y)
    BY <1>4, <2>1, <2>2 DEF Relies
  <2>4. ~raced => Seats(y)
    BY <1>3, <2>1 DEF Seats
  <2> QED  BY <1>1, <1>2, <1>4, <2>1, <2>2, <2>3, <2>4, ReadingServes
<1>7. CASE /\ Sorting!Existing(q) /\ ~Sorting!End(q)
  <2>1. PICK list : list = IF x.s = Nothing THEN {} ELSE Sorting!Read({x.s})
    OBVIOUS
  <2>2. PICK pc1 : pc1 = IF x.kind = "workspace" THEN "ensure" ELSE IF x.s = Nothing THEN "add" ELSE "save"
    OBVIOUS
  <2>3. PICK y : y = [x EXCEPT !.kept = Sorting!Own, !.list = list, !.pc = pc1]
    OBVIOUS
  <2>4. DOMAIN req = Handlers /\ DOMAIN x = RequestFields
    BY <1>3 DEF AskedInv, Asked, RequestFields
  <2>5. x.s = Nothing \/ x.s \in Sorting!Own
    BY <1>1, <1>7 DEF Sorting!Existing
  <2>6. req' = [req EXCEPT ![q].kept = Sorting!Own, ![q].list = list, ![q].pc = pc1]
    BY <1>1, <1>7, <2>1, <2>2 DEF Sorting!Existing
  <2>7. req' = [req EXCEPT ![q] = y]
    BY <1>1, <2>3, <2>4, <2>6
  <2>8. Becomes(q, y)
    BY <2>4, <2>7 DEF Becomes
  <2>9. SameQuestion(x, y) /\ y.pc = pc1 /\ y.list = list /\ y.kept = Sorting!Own
    BY <2>3, <2>4 DEF SameQuestion, RequestFields
  <2>10. /\ list \subseteq Entries /\ (x.s = Nothing => list = {})
         /\ x.s # Nothing => /\ list # {} /\ \A e \in list : Told(e) /\ e.id = x.s
    BY <1>3, <2>1, <2>5, ReadTells
  <2>11. Asked(y) /\ y.kind = x.kind /\ y.s = x.s /\ y.cat = x.cat
    BY <1>3, <1>4, <2>2, <2>9, <2>10, GoesOn DEF SameQuestion, StepsOf
  <2>12. Found(y)
    BY <1>4, <2>2, <2>5, <2>9, <2>11 DEF Found, Sorting!Own
  <2>13. Relies(y)
    <3>1. CASE x.kind = "workspace"
      BY <2>2, <2>9, <2>11, <3>1 DEF Relies
    <3>2. CASE x.kind = "own" /\ x.s = Nothing
      BY <2>2, <2>9, <2>10, <2>11, <3>2 DEF Relies
    <3>3. CASE x.kind = "own" /\ x.s # Nothing
      BY <2>2, <2>5, <2>9, <2>10, <2>11, <3>3 DEF Relies
    <3> QED  BY <1>4, <3>1, <3>2, <3>3
  <2>14. ~raced => Seats(y)
    BY <1>3, <2>2, <2>9 DEF Seats
  <2>15. y.pc # "done"
    BY <2>2, <2>9
  <2> QED  BY <1>1, <1>2, <1>4, <2>8, <2>11, <2>12, <2>13, <2>14, <2>15, ReadingServes
<1> QED  BY <1>1, <1>5, <1>6, <1>7 DEF Sorting!Setup

\* applyFormStages: the stages that will be the form's are among those it has.
LEMMA AddServes ==
  ASSUME StageInv, NEW q \in Handlers, Sorting!Add(q)
  PROVE  Served(q)
<1>1. PICK x : x = req[q]
  OBVIOUS
<1>2. PICK kept : kept = {[id |-> e.id, is |-> "form", cat |-> x.cat, start |-> FALSE] : e \in x.list}
  OBVIOUS
<1>3. PICK n : n = Sorting!New
  OBVIOUS
<1>4. PICK entry : entry = [id |-> n, is |-> "form", cat |-> x.t, start |-> FALSE]
  OBVIOUS
<1>5. /\ x.pc = "add" /\ UNCHANGED <<resp, version, raced, refused>> /\ req[q].pc # "done"
      /\ IF x.t = Nothing THEN Sorting!GoWith(q, "shift", kept) /\ UNCHANGED stage
         ELSE /\ Sorting!Fresh # {}
              /\ stage' = [stage EXCEPT ![n] = [is |-> "form", cat |-> x.t, start |-> FALSE]]
              /\ Sorting!GoWith(q, "shift", kept \cup {entry})
  BY <1>1, <1>2, <1>3, <1>4 DEF Sorting!Add, Sorting!At, Sorting!ghosts
<1>6. /\ Sorting!TypeOK /\ AskedInv /\ Asked(x) /\ Found(x) /\ (~raced => Relies(x) /\ AllSit)
  BY <1>1, <1>5, Acting, SeatedElsewhere
<1>7. /\ x.kind = "own" /\ x.kind \notin Placing /\ x.cat \in Categories /\ x.list \subseteq Entries
      /\ x.t \in Categories \cup {Nothing} /\ (x.s # Nothing \/ x.t # Nothing)
  BY <1>5, <1>6, KindsAt DEF Asked, Placing
<1>8. kept \subseteq Entries /\ \A e \in kept : e.is = "form" /\ e.cat = x.cat
  <2>1. ASSUME NEW e \in kept
        PROVE  e \in Entries /\ e.is = "form" /\ e.cat = x.cat
    <3>1. PICK d \in x.list : e = [id |-> d.id, is |-> "form", cat |-> x.cat, start |-> FALSE]
      BY <1>2, <2>1
    <3>2. d.id \in StageIds
      BY <1>7 DEF Entries
    <3> QED  BY <1>7, <3>1, <3>2 DEF Entries
  <2> QED  BY <2>1
<1>9. ASSUME ~raced
      PROVE  /\ x.kept = Sorting!Own
             /\ x.s # Nothing => kept # {}
             /\ \A e \in kept : Told(e) /\ e.id \in Sorting!Own
  <2>1. /\ x.kept = Sorting!Own
        /\ IF x.s = Nothing THEN x.list = {}
           ELSE x.list # {} /\ stage[x.s].cat = x.cat /\ x.s \in Sorting!Own /\ \A e \in x.list : e.id = x.s
    BY <1>5, <1>6, <1>7, <1>9 DEF Relies
  <2>2. CASE x.s = Nothing
    BY <1>2, <2>1, <2>2
  <2>3. CASE x.s # Nothing
    <3>1. stage[x.s].is = "form" /\ stage[x.s].cat = x.cat
      BY <2>1, <2>3 DEF Sorting!Own
    <3>2. \A e \in kept : e.id = x.s /\ e.is = "form" /\ e.cat = x.cat
      BY <1>2, <2>1, <2>3
    <3>3. kept # {}
      BY <1>2, <2>1, <2>3
    <3> QED  BY <2>1, <2>3, <3>1, <3>2, <3>3 DEF Told
  <2> QED  BY <2>2, <2>3
<1>10. Sorting!Effective \subseteq Sorting!Workspace \cup Sorting!Own
  BY DEF Sorting!Effective
<1>11. CASE x.t = Nothing
  <2>1. PICK y : Becomes(q, y) /\ SameQuestion(x, y) /\ y.pc = "shift" /\ y.list = kept /\ y.kept = x.kept
    BY <1>1, <1>5, <1>6, <1>11, GoingWith
  <2>2. Asked(y) /\ Found(y) /\ y.kind = x.kind
    BY <1>6, <1>7, <1>8, <2>1, GoesOn DEF SameQuestion, StepsOf
  <2>3. ASSUME ~raced
        PROVE  Relies(y) /\ Seats(y)
    <3>1. Sorting!Own = y.kept \cup KeptBy(y)
      BY <1>7, <1>9, <2>1, <2>2, <2>3 DEF KeptBy
    <3>2. Relies(y)
      BY <1>7, <1>8, <1>9, <1>11, <2>1, <2>2, <2>3, <3>1 DEF Relies
    <3>3. Seats(y)
      BY <1>6, <1>10, <2>1, <2>3 DEF Seats, AllSit, Sits
    <3> QED  BY <3>2, <3>3
  <2>4. UNCHANGED <<stage, resp, version, raced, refused>> /\ y.pc # "done" /\ req[q].kind \notin Placing
    BY <1>1, <1>5, <1>7, <1>11, <2>1
  <2> QED  BY <1>1, <1>5, <2>1, <2>2, <2>3, <2>4, ReadingServes
<1>12. CASE x.t # Nothing
  <2>1. PICK y : /\ Becomes(q, y) /\ SameQuestion(x, y) /\ y.pc = "shift" /\ y.list = kept \cup {entry}
                 /\ y.kept = x.kept
    BY <1>1, <1>5, <1>6, <1>12, GoingWith
  <2>2. /\ n \in Sorting!Fresh /\ n \in StageIds /\ stage' \in [StageIds -> StageTypes] /\ Grown("form")
        /\ stage'[n] = [is |-> "form", cat |-> x.t, start |-> FALSE]
    BY <1>3, <1>5, <1>6, <1>7, <1>12, AddingGrows
  <2>3. /\ Sorting!TypeOK' /\ Steady /\ Sorting!Workspace' = Sorting!Workspace
        /\ \A s \in Sorting!Workspace \cup Sorting!Own : stage'[s] = stage[s]
        /\ \A e \in Entries : Told(e) => Told(e)'
    BY <1>5, <1>6, <2>2, GrownStays
  <2>4. Sorting!Own' = Sorting!Own \cup {n}
    <3>1. \A s \in StageIds \ {n} : stage'[s] = stage[s]
      BY <1>5, <1>6, <1>12, StageKinds
    <3>2. Sorting!Own' = {s \in StageIds : stage'[s].is = "form"}
      BY DEF Sorting!Own
    <3> QED  BY <2>2, <3>1, <3>2 DEF Sorting!Own
  <2>5. entry \in Entries /\ entry.id = n /\ entry.is = "form" /\ Told(entry)'
    BY <1>4, <1>7, <1>12, <2>2 DEF Entries, Told
  <2>6. Asked(y) /\ Found(y) /\ y.kind = x.kind
    BY <1>6, <1>7, <1>8, <2>1, <2>5, GoesOn DEF SameQuestion, StepsOf
  <2>7. Found(y)'
    BY <2>3, <2>6, FoundStays
  <2>8. ASSUME ~raced
        PROVE  Relies(y)' /\ Seats(y)'
    <3>1. /\ x.kept = Sorting!Own /\ \A e \in kept : Told(e) /\ e.id \in Sorting!Own
      BY <1>9, <2>8
    <3>2. \A e \in y.list : Told(e)' /\ e.is = "form"
      BY <1>8, <2>1, <2>3, <2>5, <3>1
    <3>3. KeptBy(y) = {e.id : e \in kept} \cup {n}
      BY <1>7, <2>1, <2>5, <2>6 DEF KeptBy
    <3>4. Sorting!Own' = y.kept \cup KeptBy(y) /\ KeptBy(y)' = KeptBy(y)
      BY <2>1, <2>4, <3>1, <3>3 DEF KeptBy
    <3>5. Relies(y)'
      BY <1>7, <2>1, <2>6, <3>2, <3>4 DEF Relies
    <3>6. \A r \in Responses : resp[r] # Sorting!NoResponse =>
            /\ resp[r].on \in Sorting!Workspace \cup Sorting!Own /\ resp[r].status = stage[resp[r].on].cat
      BY <1>6, <1>10, <2>8 DEF AllSit, Sits
    <3>7. \A r \in Responses : resp'[r] # Sorting!NoResponse =>
            /\ resp'[r].on \in Sorting!Workspace' \cup Sorting!Own' /\ resp'[r].status = stage'[resp'[r].on].cat
      BY <1>5, <2>3, <2>4, <3>6
    <3>8. Seats(y)'
      BY <2>1, <3>7 DEF Seats, Sits, Sorting!NoResponse
    <3> QED  BY <3>5, <3>8
  <2>9. y.pc # "done" /\ req[q].kind \notin Placing /\ y.kind = req[q].kind
    BY <1>1, <1>7, <2>1, <2>6
  <2> QED  BY <1>5, <2>1, <2>3, <2>6, <2>7, <2>8, <2>9 DEF Served
<1> QED  BY <1>11, <1>12

\* moveFormResponses: each response ends on a stage the setup keeps, in its category.
LEMMA ShiftServes ==
  ASSUME StageInv, NEW q \in Handlers, Sorting!Shift(q)
  PROVE  Served(q)
<1>1. PICK x : x = req[q]
  OBVIOUS
<1>2. PICK K : K = Sorting!Keeping(q)
  OBVIOUS
<1>3. /\ x.pc = "shift" /\ UNCHANGED <<stage, version, raced, refused>> /\ req[q].pc # "done"
  BY <1>1 DEF Sorting!Shift, Sorting!At, Sorting!ghosts
<1>4. /\ Sorting!TypeOK /\ AskedInv /\ Asked(x) /\ Found(x) /\ (~raced => Relies(x) /\ Seats(x))
  BY <1>1, <1>3, Acting
<1>5. /\ x.kind \in {"own", "workspace"} /\ x.kind \notin Placing /\ x.list \subseteq Entries /\ K = KeptBy(x)
  BY <1>1, <1>2, <1>3, <1>4, KindsAt DEF Asked, Placing, Sorting!Keeping, KeptBy
<1>6. ~raced => \A r \in Responses : resp[r] # Sorting!NoResponse =>
                  /\ resp[r].on \in Sorting!Workspace \cup Sorting!Own /\ resp[r].status = stage[resp[r].on].cat
  BY <1>3, <1>4 DEF Seats, Sits
<1>7. ASSUME NEW y, SameQuestion(x, y), y.pc \in {"drop", "version"}, y.list = x.list, y.kept = x.kept,
             y.pc = "drop" \/ x.kind = "workspace"
      PROVE  /\ Asked(y) /\ Found(y) /\ y.kind = x.kind /\ KeptBy(y) = K
             /\ ~raced => Relies(y)
  <2>1. Asked(y) /\ Found(y) /\ y.kind = x.kind
    BY <1>4, <1>5, <1>7, GoesOn DEF SameQuestion, StepsOf
  <2>2. KeptBy(y) = K
    BY <1>5, <1>7, <2>1 DEF KeptBy
  <2>3. ASSUME ~raced PROVE Relies(y)
    <3>1. x.kind = "own" => /\ x.list # {} /\ \A e \in x.list : Told(e) /\ e.is = "form"
                            /\ Sorting!Own = x.kept \cup KeptBy(x)
      BY <1>3, <1>4, <2>3 DEF Relies
    <3>2. CASE x.kind = "own"
      BY <1>5, <1>7, <2>1, <2>2, <3>1, <3>2 DEF Relies
    <3>3. CASE x.kind = "workspace"
      BY <1>7, <2>1, <3>3 DEF Relies
    <3> QED  BY <1>5, <3>2, <3>3
  <2> QED  BY <2>1, <2>2, <2>3
<1>8. CASE x.kind = "workspace" /\ x.kept = {}
  <2>1. resp' = resp /\ Sorting!Go(q, "version")
    BY <1>1, <1>8 DEF Sorting!Shift
  <2>2. PICK y : /\ Becomes(q, y) /\ SameQuestion(x, y) /\ y.pc = "version" /\ y.list = x.list /\ y.kept = x.kept
    BY <1>1, <1>4, <2>1, Going
  <2>3. ASSUME ~raced PROVE Seats(y)
    <3>1. Sorting!Own = {}
      BY <1>3, <1>4, <1>8, <2>3 DEF Relies
    <3>2. Sorting!Effective = Sorting!Workspace /\ Sorting!Effective = Sorting!Workspace \cup Sorting!Own
      BY <3>1 DEF Sorting!Effective
    <3> QED  BY <1>6, <2>2, <2>3, <3>2 DEF Seats, AllSit, Sits
  <2>4. UNCHANGED <<stage, resp, version, raced, refused>> /\ y.pc # "done" /\ req[q].kind \notin Placing
    BY <1>1, <1>3, <1>5, <2>1, <2>2
  <2>5. Asked(y) /\ Found(y) /\ y.kind = x.kind /\ (~raced => Relies(y))
    BY <1>7, <1>8, <2>2
  <2> QED  BY <1>1, <1>3, <2>2, <2>3, <2>4, <2>5, ReadingServes
<1>9. CASE ~(x.kind = "workspace" /\ x.kept = {})
  <2>1. PICK new \in [Categories -> x.list] :
          resp' = [r \in Responses |-> IF resp[r] = Sorting!NoResponse \/ resp[r].on \in K THEN resp[r]
                                       ELSE Sorting!Stored(new[resp[r].status])]
    BY <1>1, <1>2, <1>9 DEF Sorting!Shift
  <2>2. Sorting!Go(q, "drop")
    BY <1>1, <1>9 DEF Sorting!Shift
  <2>3. PICK y : /\ Becomes(q, y) /\ SameQuestion(x, y) /\ y.pc = "drop" /\ y.list = x.list /\ y.kept = x.kept
    BY <1>1, <1>4, <2>2, Going
  <2>4. Asked(y) /\ Found(y) /\ y.kind = x.kind /\ KeptBy(y) = K /\ (~raced => Relies(y))
    BY <1>7, <2>3
  <2>5. ASSUME NEW r \in Responses
        PROVE  \/ resp'[r] = resp[r] /\ (resp[r] = Sorting!NoResponse \/ resp[r].on \in K)
               \/ \E e \in x.list : resp'[r] = [on |-> e.id, status |-> e.cat]
    <3>1. CASE resp[r] = Sorting!NoResponse \/ resp[r].on \in K
      BY <2>1, <3>1
    <3>2. CASE ~(resp[r] = Sorting!NoResponse \/ resp[r].on \in K)
      <4>1. resp[r].status \in Categories
        BY <1>4, <3>2, StageKinds
      <4>2. new[resp[r].status] \in x.list
        BY <2>1, <4>1
      <4> QED  BY <2>1, <3>2, <4>2 DEF Sorting!Stored
    <3> QED  BY <3>1, <3>2
  <2>6. resp' \in [Responses -> ResponseTypes]
    <3>1. \A e \in x.list : [on |-> e.id, status |-> e.cat] \in ResponseTypes
      BY <1>5 DEF Entries, ResponseTypes
    <3>2. ASSUME NEW r \in Responses
          PROVE  resp'[r] \in ResponseTypes
      <4>1. resp[r] \in ResponseTypes
        BY <1>4, StageKinds
      <4> QED  BY <2>5, <3>1, <4>1
    <3> QED  BY <2>1, <3>2
  <2>7. Sorting!TypeOK' /\ Steady
    BY <1>3, <1>4, <2>6 DEF Sorting!TypeOK, ResponseTypes, Steady
  <2>8. Found(y)'
    BY <2>4, <2>7, FoundStays
  <2>9. /\ Sorting!Own' = Sorting!Own /\ Sorting!Workspace' = Sorting!Workspace
    BY <1>3 DEF Sorting!Own, Sorting!Workspace
  <2>10. ASSUME ~raced
         PROVE  Relies(y)' /\ Seats(y)'
    <3>1. Relies(y)'
      <4>1. x.kind = "own" => /\ x.list # {} /\ \A e \in x.list : Told(e) /\ e.is = "form"
                              /\ Sorting!Own = x.kept \cup KeptBy(x)
        BY <1>3, <1>4, <2>10 DEF Relies
      <4>2. \A e : Told(e)' <=> Told(e)
        BY <1>3 DEF Told
      <4>3. KeptBy(y)' = KeptBy(y)
        BY DEF KeptBy
      <4>4. CASE x.kind = "own"
        BY <1>5, <2>3, <2>4, <2>9, <4>1, <4>2, <4>3, <4>4 DEF Relies
      <4>5. CASE x.kind = "workspace"
        BY <2>3, <2>4, <4>5 DEF Relies
      <4> QED  BY <1>5, <4>4, <4>5
    <3>2. \A e \in x.list : Told(e) /\ e.is = IF x.kind = "own" THEN "form" ELSE "workspace"
      BY <1>3, <1>4, <1>5, <2>10 DEF Relies
    <3>3. \A e \in x.list : /\ stage[e.id].cat = e.cat
                            /\ e.id \in IF x.kind = "own" THEN K ELSE Sorting!Workspace
      <4>1. \A e \in x.list : x.kind = "own" => e.id \in K
        BY <1>5 DEF KeptBy
      <4>2. \A e \in x.list : x.kind = "workspace" => e.id \in Sorting!Workspace
        BY <1>5, <3>2 DEF Told, Entries, Sorting!Workspace
      <4> QED  BY <1>5, <3>2, <4>1, <4>2 DEF Told
    <3>4. x.kind = "workspace" => K = {}
      BY <1>5 DEF KeptBy
    <3>5. ASSUME NEW r \in Responses, resp'[r] # Sorting!NoResponse
          PROVE  /\ resp'[r].on \in IF x.kind = "own" THEN K ELSE Sorting!Workspace
                 /\ resp'[r].status = stage[resp'[r].on].cat
      <4>1. CASE resp'[r] = resp[r] /\ (resp[r] = Sorting!NoResponse \/ resp[r].on \in K)
        <5>1. resp[r].on \in K /\ resp[r].status = stage[resp[r].on].cat
          BY <1>6, <2>10, <3>5, <4>1
        <5>2. x.kind = "own"
          BY <1>5, <3>4, <5>1
        <5> QED  BY <4>1, <5>1, <5>2
      <4>2. CASE \E e \in x.list : resp'[r] = [on |-> e.id, status |-> e.cat]
        <5>1. PICK e \in x.list : resp'[r] = [on |-> e.id, status |-> e.cat]
          BY <4>2
        <5>2. resp'[r].on = e.id /\ resp'[r].status = e.cat
          BY <5>1
        <5> QED  BY <3>3, <5>2
      <4> QED  BY <2>5, <4>1, <4>2
    <3>6. KeptBy(y)' = K
      BY <2>4 DEF KeptBy
    <3>7. Seats(y)'
      BY <1>3, <2>3, <2>4, <2>9, <3>5, <3>6 DEF Seats, Sits, Sorting!NoResponse
    <3> QED  BY <3>1, <3>7
  <2>11. y.pc # "done" /\ req[q].kind \notin Placing /\ y.kind = req[q].kind
    BY <1>1, <1>5, <2>3, <2>4
  <2> QED  BY <1>3, <2>3, <2>4, <2>7, <2>8, <2>10, <2>11 DEF Served
<1> QED  BY <1>8, <1>9

\* What a setup did not keep goes; the responses are on what stays.
LEMMA DropServes ==
  ASSUME StageInv, NEW q \in Handlers, Sorting!Drop(q)
  PROVE  Served(q)
<1>1. PICK x : x = req[q]
  OBVIOUS
<1>2. PICK D : D = Sorting!Dropped(q)
  OBVIOUS
<1>3. /\ x.pc = "drop" /\ UNCHANGED <<resp, version, raced, refused>> /\ req[q].pc # "done"
      /\ stage' = [s \in StageIds |-> IF s \in D THEN Sorting!Gone ELSE stage[s]]
      /\ Sorting!Go(q, IF x.kind = "own" THEN "start" ELSE "version")
  BY <1>1, <1>2 DEF Sorting!Drop, Sorting!At, Sorting!ghosts
<1>4. /\ Sorting!TypeOK /\ AskedInv /\ Asked(x) /\ Found(x) /\ (~raced => Relies(x) /\ Seats(x))
  BY <1>1, <1>3, Acting
<1>5. x.kind \in {"own", "workspace"} /\ x.kind \notin Placing /\ x.list \subseteq Entries
  BY <1>3, <1>4, KindsAt DEF Asked, Placing
<1>6. D = IF x.kind = "own" THEN x.kept \ KeptBy(x) ELSE Sorting!Own
  BY <1>1, <1>2 DEF Sorting!Dropped, Sorting!Keeping, KeptBy
<1>7. \A s \in D : s \in StageIds /\ stage[s].is \in {"form", "deleted"}
  BY <1>4, <1>6 DEF Found, Sorting!Own
<1>8. /\ stage \in [StageIds -> StageTypes]
      /\ Sorting!Gone \in StageTypes /\ Sorting!Gone.is = "deleted" /\ ~Sorting!Gone.start
  BY <1>4, StageKinds DEF StageTypes, Sorting!Gone
<1>9. stage' \in [StageIds -> StageTypes] /\ \A s \in StageIds : stage'[s] = IF s \in D THEN Sorting!Gone ELSE stage[s]
  BY <1>3, <1>8
<1>10. Sorting!TypeOK'
  BY <1>3, <1>4, <1>9 DEF Sorting!TypeOK, StageTypes
<1>11. Steady
  BY <1>7, <1>8, <1>9 DEF Steady
<1>12. PICK y : /\ Becomes(q, y) /\ SameQuestion(x, y) /\ y.list = x.list /\ y.kept = x.kept
                /\ y.pc = IF x.kind = "own" THEN "start" ELSE "version"
  BY <1>1, <1>3, <1>4, Going
<1>13. Asked(y) /\ Found(y) /\ y.kind = x.kind
  BY <1>4, <1>5, <1>12, GoesOn DEF SameQuestion, StepsOf
<1>14. Found(y)' /\ Relies(y)'
  <2>1. Found(y)'
    BY <1>11, <1>13, FoundStays
  <2>2. Relies(y)'
    BY <1>5, <1>12, <1>13 DEF Relies
  <2> QED  BY <2>1, <2>2
<1>15. Sorting!Own' = Sorting!Own \ D /\ Sorting!Workspace' = Sorting!Workspace
  BY <1>7, <1>8, <1>9 DEF Sorting!Own, Sorting!Workspace
<1>16. ASSUME ~raced
       PROVE  AllSit'
  <2>1. \A r \in Responses : resp[r] # Sorting!NoResponse =>
          /\ resp[r].on \in IF x.kind = "own" THEN KeptBy(x) ELSE Sorting!Workspace
          /\ resp[r].status = stage[resp[r].on].cat
    BY <1>3, <1>4, <1>16 DEF Seats, Sits
  <2>2. CASE x.kind = "own"
    <3>1. /\ x.list # {} /\ \A e \in x.list : Told(e) /\ e.is = "form"
          /\ Sorting!Own = x.kept \cup KeptBy(x)
      BY <1>3, <1>4, <1>16, <2>2 DEF Relies
    <3>2. KeptBy(x) # {}
      BY <2>2, <3>1 DEF KeptBy
    <3>3. Sorting!Own' = KeptBy(x) /\ Sorting!Effective' = KeptBy(x)
      BY <1>6, <1>15, <2>2, <3>1, <3>2 DEF Sorting!Effective
    <3>4. \A s \in KeptBy(x) : s \in StageIds /\ stage'[s] = stage[s]
      BY <1>6, <1>9, <2>2, <3>1 DEF Sorting!Own
    <3>5. \A r \in Responses : resp'[r] # Sorting!NoResponse =>
            resp'[r].on \in Sorting!Effective' /\ resp'[r].status = stage'[resp'[r].on].cat
      BY <1>3, <2>1, <2>2, <3>3, <3>4
    <3> QED  BY <3>5 DEF AllSit, Sits, Sorting!NoResponse
  <2>3. CASE x.kind = "workspace"
    <3>1. Sorting!Own' = {}
      BY <1>6, <1>15, <2>3
    <3>2. Sorting!Effective' = Sorting!Workspace
      BY <1>15, <3>1 DEF Sorting!Effective
    <3>3. \A s \in Sorting!Workspace : s \in StageIds /\ stage'[s] = stage[s]
      BY <1>6, <1>9, <2>3 DEF Sorting!Own, Sorting!Workspace
    <3>4. \A r \in Responses : resp'[r] # Sorting!NoResponse =>
            resp'[r].on \in Sorting!Effective' /\ resp'[r].status = stage'[resp'[r].on].cat
      BY <1>3, <2>1, <2>3, <3>2, <3>3
    <3> QED  BY <3>4 DEF AllSit, Sits, Sorting!NoResponse
  <2> QED  BY <1>5, <2>2, <2>3
<1>17. ~raced => Seats(y)'
  BY <1>12, <1>16 DEF Seats
<1>18. y.pc # "done" /\ req[q].kind \notin Placing /\ y.kind = req[q].kind
  BY <1>1, <1>5, <1>12, <1>13
<1> QED  BY <1>3, <1>10, <1>11, <1>12, <1>13, <1>14, <1>17, <1>18 DEF Served

\* The start stage of the form is marked.
LEMMA StartServes ==
  ASSUME StageInv, NEW q \in Handlers, Sorting!Start(q)
  PROVE  Served(q)
<1>1. PICK x : x = req[q]
  OBVIOUS
<1>2. /\ x.pc = "start" /\ UNCHANGED <<resp, version, raced, refused>> /\ req[q].pc # "done"
      /\ Sorting!Go(q, "version")
  BY <1>1 DEF Sorting!Start, Sorting!At, Sorting!ghosts
<1>3. PICK first : stage' = [s \in StageIds |-> IF s \in Sorting!Own THEN [stage[s] EXCEPT !.start = (s = first)]
                                                ELSE stage[s]]
  BY <1>1 DEF Sorting!Start
<1>4. /\ Sorting!TypeOK /\ AskedInv /\ Asked(x) /\ Found(x) /\ (~raced => AllSit)
  BY <1>1, <1>2, Acting, SeatedElsewhere
<1>5. x.kind = "own" /\ x.kind \notin Placing /\ x.list \subseteq Entries
  BY <1>2, <1>4, KindsAt DEF Asked, Placing
<1>6. ASSUME NEW s \in StageIds
      PROVE  /\ stage'[s] \in StageTypes /\ stage'[s].is = stage[s].is /\ stage'[s].cat = stage[s].cat
             /\ stage[s].is # "form" => stage'[s] = stage[s]
  <2>1. PICK old : old = stage[s]
    OBVIOUS
  <2>2. CASE s \in Sorting!Own
    <3>1. PICK b : b = (s = first)
      OBVIOUS
    <3>2. b \in BOOLEAN
      BY <3>1
    <3>3. PICK new : new = [old EXCEPT !.start = b]
      OBVIOUS
    <3>4. old.is = "form" /\ old \in [is : {"workspace", "form"}, cat : Categories, start : BOOLEAN]
      BY <1>4, <2>1, <2>2, StageKinds DEF Sorting!Own
    <3>5. new \in [is : {"workspace", "form"}, cat : Categories, start : BOOLEAN] /\ new.is = old.is /\ new.cat = old.cat
      BY <3>2, <3>3, <3>4
    <3>6. stage'[s] = new
      BY <1>3, <2>1, <2>2, <3>1, <3>3
    <3> QED  BY <2>1, <3>4, <3>5, <3>6 DEF StageTypes
  <2>3. CASE s \notin Sorting!Own
    BY <1>3, <1>4, <2>3, StageKinds
  <2> QED  BY <2>2, <2>3
<1>7. stage' \in [StageIds -> StageTypes]
  BY <1>3, <1>6
<1>8. Sorting!TypeOK'
  BY <1>2, <1>4, <1>7 DEF Sorting!TypeOK, StageTypes
<1>9. Steady
  BY <1>6 DEF Steady
<1>10. Sorting!Own' = Sorting!Own /\ Sorting!Workspace' = Sorting!Workspace
  BY <1>6 DEF Sorting!Own, Sorting!Workspace
<1>11. Sorting!Effective' = Sorting!Effective /\ Sorting!Effective \subseteq StageIds
  BY <1>10 DEF Sorting!Effective, Sorting!Own, Sorting!Workspace
<1>12. ASSUME ~raced
       PROVE  AllSit'
  <2>1. \A r \in Responses : resp'[r] # Sorting!NoResponse =>
          resp'[r].on \in Sorting!Effective' /\ resp'[r].status = stage'[resp'[r].on].cat
    BY <1>2, <1>4, <1>6, <1>11, <1>12 DEF AllSit, Sits
  <2> QED  BY <2>1 DEF AllSit, Sits, Sorting!NoResponse
<1>13. PICK y : /\ Becomes(q, y) /\ SameQuestion(x, y) /\ y.pc = "version" /\ y.list = x.list /\ y.kept = x.kept
  BY <1>1, <1>2, <1>4, Going
<1>14. Asked(y) /\ Found(y) /\ y.kind = x.kind
  BY <1>4, <1>5, <1>13, GoesOn DEF SameQuestion, StepsOf
<1>15. Found(y)' /\ Relies(y)' /\ (~raced => Seats(y)')
  <2>1. Found(y)'
    BY <1>9, <1>14, FoundStays
  <2>2. Relies(y)'
    BY <1>5, <1>13, <1>14 DEF Relies
  <2>3. ~raced => Seats(y)'
    BY <1>12, <1>13 DEF Seats
  <2> QED  BY <2>1, <2>2, <2>3
<1>16. y.pc # "done" /\ req[q].kind \notin Placing /\ y.kind = req[q].kind
  BY <1>1, <1>5, <1>13, <1>14
<1> QED  BY <1>2, <1>8, <1>9, <1>13, <1>14, <1>15, <1>16 DEF Served

\* The compare-and-swap on the version.
LEMMA VersionServes ==
  ASSUME StageInv, NEW q \in Handlers, Sorting!Version(q)
  PROVE  Served(q)
<1>1. PICK x : x = req[q]
  OBVIOUS
<1>2. /\ x.pc = "version" /\ UNCHANGED <<stage, resp, raced>> /\ req[q].pc # "done" /\ Sorting!End(q)
  BY <1>1 DEF Sorting!Version, Sorting!At
<1>3. /\ Sorting!TypeOK /\ AskedInv /\ Asked(x) /\ Found(x) /\ (~raced => AllSit)
  BY <1>1, <1>2, Acting, SeatedElsewhere
<1>4. x.kind \in {"own", "workspace"} /\ x.kind \notin Placing
  BY <1>2, <1>3, KindsAt DEF Placing
<1>5. Sorting!TypeOK'
  <2>1. version' \in Nat /\ refused' \in BOOLEAN
    <3>1. version \in Nat /\ refused \in BOOLEAN
      BY <1>3 DEF Sorting!TypeOK
    <3>2. \/ version' = version + 1 /\ refused' = refused
          \/ version' = version /\ refused' = TRUE
      BY DEF Sorting!Version
    <3>3. version' \in Nat
      BY <3>1, <3>2
    <3>4. refused' \in BOOLEAN
      BY <3>1, <3>2, Zenon
    <3> QED  BY <3>3, <3>4
  <2> QED  BY <1>2, <1>3, <2>1 DEF Sorting!TypeOK
<1>6. Steady /\ (~raced => AllSit')
  BY <1>2, <1>3, SameDocuments
<1>7. Becomes(q, Sorting!NoRequest) /\ Found(Sorting!NoRequest)'
  BY <1>2, <1>3, <1>6, Ending, NothingAsked, FoundStays
<1> QED  BY <1>1, <1>2, <1>4, <1>5, <1>6, <1>7, NothingAsked DEF Served

\* A crash leaves the documents, and is remembered.
LEMMA CrashKeeps ==
  ASSUME StageInv, NEW q \in Handlers, Sorting!Crash(q)
  PROVE  StageInv' /\ Steady
<1>1. UNCHANGED <<stage, resp, version, refused>> /\ raced' = TRUE /\ Sorting!End(q)
  BY DEF Sorting!Crash
<1>2. Sorting!TypeOK'
  BY <1>1 DEF StageInv, Sorting!TypeOK
<1>3. Becomes(q, Sorting!NoRequest)
  BY <1>1, Ending DEF StageInv
<1>4. Steady
  BY <1>1, SameDocuments
<1>5. DOMAIN req' = Handlers
  BY <1>3 DEF Becomes
<1>6. ASSUME NEW p \in Handlers
      PROVE  Asked(req[p])' /\ Found(req[p])'
  <2>1. PICK z : z = req'[p]
    OBVIOUS
  <2>2. Asked(req[p]) /\ Found(req[p])
    BY DEF StageInv, AskedInv
  <2>3. z = Sorting!NoRequest \/ z = req[p]
    BY <1>3, <2>1 DEF Becomes
  <2>4. Asked(z) /\ Found(z)
    BY <2>2, <2>3, NothingAsked
  <2>5. Found(z)'
    BY <1>4, <2>4, FoundStays
  <2> QED  BY <2>1, <2>4, <2>5, SameRequest
<1>7. QuietInv'
  BY <1>1 DEF QuietInv
<1> QED  BY <1>2, <1>4, <1>5, <1>6, <1>7 DEF StageInv, AskedInv

\* What arrives has not read anything yet.
Arrived(q) ==
  /\ UNCHANGED <<stage, resp, version, refused>> /\ req[q].pc = "done"
  /\ \E y : /\ Becomes(q, y) /\ Asked(y) /\ y.kind \in Kinds /\ y.list = {} /\ y.kept = {}
            /\ \/ y.pc = "ensure" /\ y.kind \in {"list", "create"}
               \/ y.pc \in {"find", "own", "stage", "setup"}
            /\ raced' = (raced \/ \E p \in Sorting!Active :
                                    Sorting!Changes(y.kind) \/ Sorting!Changes(req[p].kind))

\* What may be asked for, and the step it is taken up at.
MayAsk(kind, label, r, s, t, c) ==
  /\ label \in StepsOf(kind)
  /\ \/ label = "ensure" /\ kind \in {"list", "create"}
     \/ label \in {"find", "own", "stage", "setup"}
  /\ kind \in Placing => r \in Responses
  /\ kind \in {"create", "recategorise", "status", "own"} => c \in Categories
  /\ kind \in {"recategorise", "delete", "move"} => s \in StageIds
  /\ kind = "own" => /\ s \in StageIds \cup {Nothing} /\ t \in Categories \cup {Nothing}
                     /\ s # Nothing \/ t # Nothing

LEMMA BeginAsks ==
  ASSUME StageInv, NEW q \in Handlers,
         NEW kind, NEW label, NEW r, NEW s, NEW t, NEW c, NEW v,
         Sorting!Begin(q, kind, label, r, s, t, c, v), MayAsk(kind, label, r, s, t, c)
  PROVE  Arrived(q)
<1>1. PICK none : none = Sorting!NoRequest
  OBVIOUS
<1>2. DOMAIN none = RequestFields /\ none.list = {} /\ none.kept = {}
  BY <1>1 DEF Sorting!NoRequest, RequestFields
<1>3. PICK y : y = [none EXCEPT !.kind = kind, !.pc = label, !.r = r, !.s = s, !.t = t, !.cat = c, !.version = v]
  OBVIOUS
<1>4. /\ DOMAIN y = RequestFields
      /\ y.kind = kind /\ y.pc = label /\ y.r = r /\ y.s = s /\ y.t = t /\ y.cat = c
      /\ y.list = {} /\ y.kept = {}
  BY <1>2, <1>3 DEF RequestFields
<1>5. req' = [req EXCEPT ![q] = y]
  BY <1>1, <1>3 DEF Sorting!Begin
<1>6. Becomes(q, y)
  BY <1>5 DEF Becomes, StageInv, AskedInv
<1>7. /\ kind \in Kinds /\ req[q].pc = "done" /\ UNCHANGED <<stage, resp, version, refused>>
      /\ raced' = (raced \/ \E p \in Sorting!Active : Sorting!Changes(kind) \/ Sorting!Changes(req[p].kind))
  BY DEF Sorting!Begin
<1>8. kind \in Placing \cup Sorting!Configuring
  BY <1>7, StagesParameters
<1>9. Asked(y)
  BY <1>4, <1>8 DEF Asked, MayAsk, RequestFields
<1> QED  BY <1>4, <1>6, <1>7, <1>9 DEF Arrived, MayAsk

LEMMA ArrivalAsks ==
  ASSUME StageInv, NEW q \in Handlers, Sorting!Arrive(q)
  PROVE  Arrived(q)
<1>1. Sorting!Known \subseteq StageIds /\ Sorting!Own \subseteq StageIds
  BY DEF Sorting!Known, Sorting!Own
<1>2. /\ MayAsk("list", "ensure", Nothing, Nothing, Nothing, Nothing)
      /\ MayAsk("workspace", "setup", Nothing, Nothing, Nothing, Nothing)
      /\ \A c \in Categories : MayAsk("create", "ensure", Nothing, Nothing, Nothing, c)
      /\ \A s \in Sorting!Known, c \in Categories : MayAsk("recategorise", "find", Nothing, s, Nothing, c)
      /\ \A s \in Sorting!Known, t \in Sorting!Known \cup {Nothing} : MayAsk("delete", "find", Nothing, s, t, Nothing)
  BY <1>1 DEF MayAsk, StepsOf, Placing
<1>3. /\ \A r \in Responses : MayAsk("submit", "own", r, Nothing, Nothing, Nothing)
      /\ \A r \in Responses, s \in Sorting!Known : MayAsk("move", "stage", r, s, Nothing, Nothing)
      /\ \A r \in Responses, c \in Categories : MayAsk("status", "own", r, Nothing, Nothing, c)
  BY <1>1 DEF MayAsk, StepsOf, Placing
<1>4. \A s \in Sorting!Own \cup {Nothing}, c \in Categories, t \in Categories \cup {Nothing} :
        s # Nothing \/ t # Nothing => MayAsk("own", "setup", Nothing, s, t, c)
  BY <1>1 DEF MayAsk, StepsOf, Placing
<1>5. CASE \/ Sorting!Begin(q, "list", "ensure", Nothing, Nothing, Nothing, Nothing, 0)
           \/ Sorting!Begin(q, "workspace", "setup", Nothing, Nothing, Nothing, Nothing, version)
  BY <1>2, <1>5, BeginAsks
<1>6. CASE \E c \in Categories : Sorting!Begin(q, "create", "ensure", Nothing, Nothing, Nothing, c, 0)
  BY <1>2, <1>6, BeginAsks
<1>7. CASE \E s \in Sorting!Known, c \in Categories : Sorting!Begin(q, "recategorise", "find", Nothing, s, Nothing, c, 0)
  BY <1>2, <1>7, BeginAsks
<1>8. CASE \E s \in Sorting!Known, t \in Sorting!Known \cup {Nothing} :
             Sorting!Begin(q, "delete", "find", Nothing, s, t, Nothing, 0)
  BY <1>2, <1>8, BeginAsks
<1>9. CASE \E r \in Responses : Sorting!Begin(q, "submit", "own", r, Nothing, Nothing, Nothing, 0)
  BY <1>3, <1>9, BeginAsks
<1>10. CASE \E r \in Responses, s \in Sorting!Known : Sorting!Begin(q, "move", "stage", r, s, Nothing, Nothing, 0)
  BY <1>3, <1>10, BeginAsks
<1>11. CASE \E r \in Responses, c \in Categories : Sorting!Begin(q, "status", "own", r, Nothing, Nothing, c, 0)
  BY <1>3, <1>11, BeginAsks
<1>12. CASE \E s \in Sorting!Own \cup {Nothing}, c \in Categories, t \in Categories \cup {Nothing} :
              (s # Nothing \/ t # Nothing) /\ Sorting!Begin(q, "own", "setup", Nothing, s, t, c, version)
  BY <1>4, <1>12, BeginAsks
<1> QED  BY <1>5, <1>6, <1>7, <1>8, <1>9, <1>10, <1>11, <1>12 DEF Sorting!Arrive

\* Where nothing met, one who arrives is alone, or neither it nor the others change stages.
LEMMA ArrivalKeeps ==
  ASSUME StageInv, NEW q \in Handlers, Arrived(q)
  PROVE  StageInv' /\ Steady
<1>1. PICK y : /\ Becomes(q, y) /\ Asked(y) /\ y.kind \in Kinds /\ y.list = {} /\ y.kept = {}
               /\ \/ y.pc = "ensure" /\ y.kind \in {"list", "create"}
                  \/ y.pc \in {"find", "own", "stage", "setup"}
               /\ raced' = (raced \/ \E p \in Sorting!Active :
                                       Sorting!Changes(y.kind) \/ Sorting!Changes(req[p].kind))
  BY DEF Arrived
<1>2. UNCHANGED <<stage, resp, version, refused>> /\ req[q].pc = "done"
  BY DEF Arrived
<1>3. /\ raced' \in BOOLEAN /\ (~raced' => ~raced)
      /\ (~raced' => \A p \in Sorting!Active : ~Sorting!Changes(y.kind) /\ ~Sorting!Changes(req[p].kind))
  BY <1>1, Zenon
<1>4. Sorting!TypeOK'
  BY <1>2, <1>3 DEF StageInv, Sorting!TypeOK
<1>5. Steady
  BY <1>2, SameDocuments
<1>6. /\ DOMAIN req' = Handlers /\ req'[q] = y
      /\ \A p \in Handlers \ {q} : req'[p] = req[p]
  BY <1>1 DEF Becomes
<1>7. Found(y) /\ Relies(y)
  BY <1>1 DEF Found, Relies
<1>8. ASSUME NEW p \in Handlers
      PROVE  Asked(req[p])' /\ Found(req[p])'
  <2>1. PICK z : z = req'[p]
    OBVIOUS
  <2>2. Asked(req[p]) /\ Found(req[p])
    BY DEF StageInv, AskedInv
  <2>3. Asked(z) /\ Found(z)
    BY <1>1, <1>6, <1>7, <2>1, <2>2
  <2>4. Found(z)'
    BY <1>5, <2>3, FoundStays
  <2> QED  BY <2>1, <2>3, <2>4, SameRequest
<1>9. ASSUME ~raced'
      PROVE  /\ AloneInv'
             /\ \A p \in Sorting!Active' : Relies(req[p])' /\ Seats(req[p])'
             /\ Sorting!Active' = {} => AllSit'
  <2>1. /\ AloneInv /\ \A p \in Sorting!Active : Relies(req[p]) /\ Seats(req[p])
        /\ Sorting!Active = {} => AllSit
    BY <1>3, <1>9 DEF StageInv, QuietInv
  <2>2. /\ Sorting!Active' = {p \in Handlers : req'[p].pc # "done"}
        /\ Sorting!Active = {p \in Handlers : req[p].pc # "done"}
    BY DEF Sorting!Active
  <2>3. Sorting!Active' = Sorting!Active \cup {q} /\ q \notin Sorting!Active
    BY <1>1, <1>2, <1>6, <2>2
  <2>4. \A p \in Sorting!Active : req[p].kind \in Placing /\ y.kind \in Placing
    <3>1. ASSUME NEW p \in Sorting!Active
          PROVE  req[p].kind \in Placing /\ y.kind \in Placing
      <4>1. Asked(req[p]) /\ req[p].pc # "done"
        BY <2>2 DEF StageInv, AskedInv
      <4>2. req[p].kind # "none" /\ y.kind # "none"
        BY <1>1, <4>1 DEF Asked, StepsOf
      <4>3. req[p].kind \notin Sorting!Configuring /\ y.kind \notin Sorting!Configuring
        BY <1>3, <1>9 DEF Sorting!Changes
      <4> QED  BY <1>1, <4>1, <4>2, <4>3 DEF Asked
    <3> QED  BY <3>1
  <2>5. AllSit
    <3>1. ASSUME NEW p \in Sorting!Active
          PROVE  AllSit
      <4>1. Asked(req[p]) /\ Seats(req[p]) /\ req[p].kind \in Placing
        BY <2>1, <2>2, <2>4 DEF StageInv, AskedInv
      <4>2. req[p].pc \notin {"sync", "shift", "drop"}
        BY <4>1 DEF Asked, StepsOf, Placing
      <4> QED  BY <4>1, <4>2, SeatedElsewhere
    <3> QED  BY <2>1, <3>1
  <2>6. AloneInv'
    <3>1. \A p \in Sorting!Active : req'[p].kind = req[p].kind
      BY <1>6, <2>2, <2>3
    <3>2. \A p \in Sorting!Active' : p # q => p \in Sorting!Active
      BY <2>3
    <3> QED  BY <1>6, <2>1, <2>4, <3>1, <3>2 DEF AloneInv
  <2>7. ASSUME NEW p \in Sorting!Active'
        PROVE  Relies(req[p])' /\ Seats(req[p])'
    <3>1. PICK z : z = req'[p]
      OBVIOUS
    <3>2. CASE p = q
      <4>1. z = y /\ y.pc \notin {"sync", "shift", "drop"}
        BY <1>1, <1>6, <3>1, <3>2
      <4>2. Seats(y)
        BY <2>5, <4>1 DEF Seats
      <4>3. Relies(y)' /\ Seats(y)'
        BY <1>2, <1>7, <4>2, SameDocuments
      <4> QED  BY <3>1, <4>1, <4>3, SameRequest
    <3>3. CASE p # q
      <4>1. z = req[p] /\ Relies(z) /\ Seats(z)
        BY <1>6, <2>1, <2>2, <2>3, <3>1, <3>3
      <4>2. Relies(z)' /\ Seats(z)'
        BY <1>2, <4>1, SameDocuments
      <4> QED  BY <3>1, <4>2, SameRequest
    <3> QED  BY <3>2, <3>3
  <2> QED  BY <2>3, <2>6, <2>7
<1>10. QuietInv'
  BY <1>9 DEF QuietInv
<1> QED  BY <1>4, <1>5, <1>6, <1>8, <1>10 DEF StageInv, AskedInv

LEMMA StagesStart ==
  ASSUME Sorting!Init
  PROVE  StageInv
<1>1. /\ version = 0 /\ req = [q \in Handlers |-> Sorting!NoRequest] /\ raced = FALSE /\ refused = FALSE
  BY DEF Sorting!Init
<1>2. \A c \in Categories : Sorting!SeedStage(c) \in StageTypes /\ Sorting!SeedStage(c).is = "workspace"
  BY DEF Sorting!SeedStage, StageTypes
<1>3. /\ stage \in [StageIds -> StageTypes] /\ resp \in [Responses -> ResponseTypes]
      /\ \A s \in StageIds : stage[s].is # "form"
      /\ \A r \in Responses : resp[r] # Sorting!NoResponse =>
           resp[r].on \in Sorting!Workspace /\ resp[r].status = stage[resp[r].on].cat
  <2>1. CASE stage = [s \in StageIds |-> Sorting!Unused] /\ resp = [r \in Responses |-> Sorting!NoResponse]
    <3>1. \A s \in StageIds : stage[s] = Sorting!Unused
      BY <2>1
    <3>2. Sorting!Unused \in StageTypes /\ Sorting!Unused.is # "form" /\ Sorting!NoResponse \in ResponseTypes
      BY DEF StageTypes, ResponseTypes, Sorting!Unused
    <3> QED  BY <2>1, <3>1, <3>2
  <2>2. ASSUME NEW ids, NEW extra, Sorting!InUse(ids, extra)
        PROVE  <1>3
    <3>1. PICK c \in Categories \ {First} :
            stage = Sorting!Seeded([s \in StageIds |-> IF s = extra THEN [is |-> "workspace", cat |-> c, start |-> FALSE]
                                                       ELSE Sorting!Unused], ids)
      BY <2>2 DEF Sorting!InUse
    <3>2. PICK more : more = [is |-> "workspace", cat |-> c, start |-> FALSE]
      OBVIOUS
    <3>3. more \in StageTypes /\ more.is = "workspace" /\ Sorting!Unused \in StageTypes /\ Sorting!Unused.is = "unused"
      BY <3>2 DEF StageTypes, Sorting!Unused
    <3>4. ASSUME NEW s \in StageIds
          PROVE  stage[s] \in StageTypes /\ stage[s].is # "form"
      <4>1. \/ \E d \in Categories : stage[s] = Sorting!SeedStage(d)
            \/ stage[s] = more
            \/ stage[s] = Sorting!Unused
        BY <3>1, <3>2 DEF Sorting!Seeded
      <4> QED  BY <1>2, <3>3, <4>1
    <3>5. stage \in [StageIds -> StageTypes]
      <4>1. stage = [s \in StageIds |-> stage[s]]
        BY <3>1 DEF Sorting!Seeded
      <4> QED  BY <3>4, <4>1
    <3>6. resp \in [Responses -> {[on |-> s, status |-> stage[s].cat] : s \in Sorting!Workspace}]
      BY <2>2 DEF Sorting!InUse
    <3>7. ASSUME NEW r \in Responses
          PROVE  /\ resp[r] \in ResponseTypes /\ resp[r].on \in Sorting!Workspace
                 /\ resp[r].status = stage[resp[r].on].cat
      <4>1. PICK s \in Sorting!Workspace : resp[r] = [on |-> s, status |-> stage[s].cat]
        BY <3>6
      <4>2. s \in StageIds /\ stage[s].is = "workspace"
        BY DEF Sorting!Workspace
      <4>3. stage[s].cat \in Categories
        <5>1. PICK x : x = stage[s]
          OBVIOUS
        <5>2. x \in StageTypes /\ x.is = "workspace"
          BY <3>4, <4>2, <5>1
        <5>3. x.cat \in Categories
          BY <5>2 DEF StageTypes, Sorting!Unused, Sorting!Gone
        <5> QED  BY <5>1, <5>3
      <4> QED  BY <4>1, <4>2, <4>3 DEF ResponseTypes
    <3> QED  BY <3>4, <3>5, <3>6, <3>7
  <2> QED  BY <2>1, <2>2 DEF Sorting!Init
<1>4. Sorting!TypeOK
  BY <1>1, <1>3 DEF Sorting!TypeOK, StageTypes, ResponseTypes
<1>5. \A q \in Handlers : req[q] = Sorting!NoRequest
  BY <1>1
<1>6. \A q \in Handlers : Asked(req[q]) /\ Found(req[q])
  BY <1>5, NothingAsked
<1>7. Sorting!Active = {}
  BY <1>5, NothingAsked DEF Sorting!Active
<1>8. AllSit
  <2>1. Sorting!Own = {}
    BY <1>3 DEF Sorting!Own
  <2> QED  BY <1>3, <2>1 DEF AllSit, Sits, Sorting!Effective
<1>9. QuietInv
  BY <1>7, <1>8 DEF QuietInv, AloneInv
<1> QED  BY <1>1, <1>4, <1>6, <1>9 DEF StageInv, AskedInv

\* Every step about stages keeps what is said of them, and their defaults.
LEMMA StagesStep ==
  ASSUME StageInv, Sorting!Next
  PROVE  StageInv' /\ Steady
<1>1. PICK q \in Handlers : Sorting!Arrive(q) \/ Sorting!Serve(q) \/ Sorting!Crash(q)
  BY DEF Sorting!Next
<1>2. CASE Sorting!Arrive(q)
  BY <1>2, ArrivalAsks, ArrivalKeeps
<1>3. CASE Sorting!Crash(q)
  BY <1>3, CrashKeeps
<1>4. CASE Sorting!Serve(q)
  <2>1. req[q].pc # "done"
    BY <1>4 DEF Sorting!Serve, Sorting!At, Sorting!Ensure, Sorting!Seed, Sorting!Create, Sorting!ReadOwn,
       Sorting!FindStage, Sorting!CheckOwn, Sorting!Put, Sorting!Find, Sorting!Save, Sorting!Sync,
       Sorting!Siblings, Sorting!Count, Sorting!Target, Sorting!Commit, Sorting!Setup, Sorting!Existing,
       Sorting!Add, Sorting!Shift, Sorting!Drop, Sorting!Start, Sorting!Version
  <2>2. Served(q)
    BY <1>4, EnsureServes, SeedServes, CreateServes, ReadOwnServes, FindStageServes, CheckOwnServes, PutServes,
       FindServes, SaveServes, SyncServes, DeleteLooks, CommitServes, SetupServes, AddServes, ShiftServes,
       DropServes, StartServes, VersionServes
    DEF Sorting!Serve
  <2>3. Steady
    BY <2>2 DEF Served
  <2> QED  BY <2>1, <2>2, <2>3, ServingKeeps
<1> QED  BY <1>1, <1>2, <1>3, <1>4

\* Those who answer the form leave them alone.
LEMMA StagesRest ==
  ASSUME StageInv, UNCHANGED stagesOnly
  PROVE  StageInv' /\ Steady
<1>1. UNCHANGED <<stage, resp, version, req, raced, refused>>
  BY DEF stagesOnly
<1>2. Sorting!TypeOK'
  BY <1>1 DEF StageInv, Sorting!TypeOK
<1>3. Steady /\ (AllSit => AllSit')
  BY <1>1, SameDocuments
<1>4. ASSUME NEW q
      PROVE  /\ Asked(req[q]) => Asked(req[q])'
             /\ Found(req[q]) => Found(req[q])'
             /\ Relies(req[q]) => Relies(req[q])'
             /\ Seats(req[q]) => Seats(req[q])'
  <2>1. PICK z : z = req[q] /\ z = req'[q]
    BY <1>1
  <2>2. (Found(z) => Found(z)') /\ (Relies(z) => Relies(z)') /\ (Seats(z) => Seats(z)')
    BY <1>1, SameDocuments
  <2> QED  BY <2>1, <2>2, SameRequest
<1>5. AskedInv'
  BY <1>1, <1>4 DEF StageInv, AskedInv
<1>6. Sorting!Active' = Sorting!Active /\ (AloneInv => AloneInv')
  BY <1>1 DEF Sorting!Active, AloneInv
<1>7. QuietInv'
  <2>1. ASSUME ~raced'
        PROVE  /\ AloneInv'
               /\ \A q \in Sorting!Active' : Relies(req[q])' /\ Seats(req[q])'
               /\ Sorting!Active' = {} => AllSit'
    BY <1>1, <1>3, <1>4, <1>6, <2>1 DEF StageInv, QuietInv
  <2> QED  BY <2>1 DEF QuietInv
<1>8. \A q \in Handlers : Found(req[q])'
  BY <1>4 DEF StageInv
<1> QED  BY <1>2, <1>3, <1>5, <1>7, <1>8 DEF StageInv

\* At rest, what is said of the requests is what is promised of the responses.
LEMMA StagesPromise ==
  ASSUME StageInv
  PROVE  ResponsesInPlace
<1>1. ASSUME Sorting!Quiet, ~raced, NEW r \in Responses
      PROVE  Sorting!Stands(r) /\ Sorting!InStep(r)
  <2>1. AllSit
    BY <1>1 DEF StageInv, QuietInv, Sorting!Quiet
  <2>2. CASE resp[r] = Sorting!NoResponse
    <3>1. resp[r].on \notin Sorting!Workspace \cup Sorting!Own
      BY <2>2, StagesParameters DEF Sorting!NoResponse, Sorting!Workspace, Sorting!Own
    <3> QED  BY <2>2, <3>1 DEF Sorting!Stands, Sorting!InStep
  <2>3. CASE resp[r] # Sorting!NoResponse
    BY <2>1, <2>3 DEF AllSit, Sits, Sorting!Stands, Sorting!InStep
  <2> QED  BY <2>2, <2>3
<1>2. Sorting!EveryResponseShown /\ Sorting!StatusInStep
  BY <1>1 DEF Sorting!EveryResponseShown, Sorting!StatusInStep
<1> QED  BY <1>2 DEF StageInv, ResponsesInPlace

\* A workspace with a default stage keeps one where its stages are steady.
LEMMA DefaultKept ==
  ASSUME Steady
  PROVE  Sorting!HasDefault => Sorting!HasDefault'
BY DEF Steady, Sorting!HasDefault, Sorting!Workspace

\* A step of the desk is one about stages or leaves them alone.
LEMMA DeskStep ==
  ASSUME StageInv, [DeskNext]_deskVars
  PROVE  StageInv' /\ Steady
<1>1. CASE DeskNext
  <2>1. UNCHANGED stagesOnly \/ Sorting!Next
    BY <1>1 DEF DeskNext
  <2> QED  BY <2>1, StagesStep, StagesRest
<1>2. CASE UNCHANGED deskVars
  BY <1>2, StagesRest DEF deskVars
<1> QED  BY <1>1, <1>2

LEMMA StagesInvariant == DeskSpec => []StageInv
<1>1. DeskInit => StageInv
  BY StagesStart DEF DeskInit
<1>2. StageInv /\ [DeskNext]_deskVars => StageInv'
  BY DeskStep
<1> QED  BY <1>1, <1>2, PTL DEF DeskSpec

\* Where no two requests met, one of them changing stages, and none was cut short, every
\* response at rest is on a stage its form shows, with that stage's category as its status:
\* after any number of stages created, recategorised and deleted, and setups saved.
THEOREM ResponsesStand == DeskSpec => []ResponsesInPlace
<1>1. StageInv => ResponsesInPlace
  BY StagesPromise
<1> QED  BY <1>1, StagesInvariant, PTL

\* Whatever meets or is cut short, a workspace that has a default stage goes on having one.
THEOREM DefaultRemains == DeskSpec => DefaultStays
<1>1. StageInv /\ [DeskNext]_deskVars => [Sorting!HasDefault => Sorting!HasDefault']_deskVars
  <2>1. ASSUME StageInv, [DeskNext]_deskVars PROVE Sorting!HasDefault => Sorting!HasDefault'
    BY <2>1, DeskStep, DefaultKept
  <2> QED  BY <2>1
<1> QED  BY <1>1, StagesInvariant, PTL DEF DeskSpec, DefaultStays
=================================================================================
