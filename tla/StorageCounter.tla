---------------------------- MODULE StorageCounter ----------------------------
(***************************************************************************)
(* The running storage counter of every account.  Forms and responses are  *)
(* charged to the owner of the workspace they sit in: each write measures  *)
(* the stored document around itself and increments the owner's counter    *)
(* by the difference, in a round trip of its own.  Once a day, and after   *)
(* an ownership transfer, the true usage is measured and the counter set.  *)
(*                                                                         *)
(* A size is an abstract number of bytes, 0 for a document not stored.     *)
(* The bytes of deletedAt and deletedBy, which Trash leaves out of the     *)
(* counter on purpose, are left out of the sizes too.                      *)
(***************************************************************************)
EXTENDS Integers, FiniteSets

CONSTANTS
  Owners, Places,        (* accounts, and the workspaces they own           *)
  Forms, Responses,
  FormOf,                (* the form each response answers                  *)
  Requests,              (* requests and sweeps that may be under way       *)
  Tasks,                 (* reconciliations that may be under way           *)
  Nobody,
  Sizes, Smallest,       (* what a document may measure, and the least      *)
  Scenes                 (* what may happen, with its bounds                *)

Docs == Forms \cup Responses
FormOfDoc(d) == IF d \in Forms THEN d ELSE FormOf[d]
Answers(F) == {r \in Responses : FormOf[r] \in F}

\* A scene: who owns what at first, what may be handed over, the answers, requests,
\* measurements and sizes that occur, storageQuotaBytes, and how often each thing happens.
SceneTypes ==
  [holders : SUBSET [Places -> Owners], homes : SUBSET [Forms -> Places], handed : SUBSET Places,
   answers : SUBSET Responses, requests : SUBSET Requests, tasks : SUBSET Tasks, sizes : SUBSET Sizes,
   quota : Nat, begins : Nat, crashes : Nat, moves : Nat, transfers : Nat]

\* What is assumed of the constants: a form that nobody can answer is of no interest.
StorageAssumption ==
  /\ FormOf \in [Responses -> Forms] /\ Forms \cap Responses = {}
  /\ IsFiniteSet(Forms) /\ IsFiniteSet(Responses) /\ IsFiniteSet(Requests)
  /\ \A f \in Forms : Answers({f}) # {}
  /\ Sizes \subseteq Nat \ {0} /\ Smallest \in Sizes /\ \A n \in Sizes : Smallest <= n
  /\ Nobody \notin Owners /\ Scenes \subseteq SceneTypes

VARIABLES
  scene,
  size,       (* the stored documents                                       *)
  place,      (* workspaceId of each form                                   *)
  holder,     (* owner of each workspace                                    *)
  counter,    (* storageUsedBytes                                           *)
  req,        (* requests under way                                         *)
  task,       (* reconcileUser runs under way                               *)
  crossed,    (* owners whose documents met two writers at once, or a crash *)
  met,        (* owners measured while a request was under way              *)
  used,       (* ids given out: no document is made twice                    *)
  begun, crashes, moves, transfers

\* hardCeilingOf: Math.round(quota * 1.2)
Ceiling == (scene.quota * 12 + 5) \div 10

vars == <<scene, size, place, holder, counter, req, task, crossed, met, used, begun, crashes, moves, transfers>>
world == <<size, place, holder, counter>>
seen == <<crossed, met>>
bounds == <<scene, used, begun, crashes, moves, transfers>>

Kinds == {"create", "edit", "drop", "purge"}
NoRequest == [kind |-> "none", at |-> "done", docs |-> {}, bytes |-> 0, who |-> Nobody]
NoTask == [at |-> "off", who |-> Nobody, stored |-> 0, forms |-> {}, sum |-> 0, alone |-> TRUE]

Owner(f) == holder[place[f]]
FormsOf(o) == {f \in Forms : Owner(f) = o}
Stored(f) == size[f] # 0

\* The bytes of documents.
Sum(D) == Cardinality(UNION {{d} \X (1..size[d]) : d \in D})

\* What an owner really uses: the forms of its workspaces that exist and their answers.
Usage(o) == LET F == {f \in FormsOf(o) : Stored(f)} IN Sum(F \cup Answers(F))

Active == {q \in Requests : req[q].at # "done"}
Touches(q) == IF req[q].kind = "purge" THEN UNION {{d} \cup Answers({d}) : d \in {FormOfDoc(e) : e \in req[q].docs}}
              ELSE req[q].docs
Concerns(q) == {Owner(FormOfDoc(d)) : d \in req[q].docs} \cup ({req[q].who} \ {Nobody})
Measuring == {t \in Tasks : task[t].at # "off"}

Init ==
  /\ scene \in Scenes
  /\ used \in {{}, Forms}
  /\ size = [d \in Docs |-> IF d \in used THEN Smallest ELSE 0]
  /\ holder \in scene.holders
  /\ place \in scene.homes
  /\ counter = [o \in Owners |-> Usage(o)] /\ \A o \in Owners : counter[o] <= Ceiling
  /\ req = [q \in Requests |-> NoRequest] /\ task = [t \in Tasks |-> NoTask]
  /\ crossed = {} /\ met = {}
  /\ begun = 0 /\ crashes = 0 /\ moves = 0 /\ transfers = 0
-----------------------------------------------------------------------------
(* A request begins: its gate reads the counter, and the write follows later. *)

\* checkStorageQuota: forms stop at the quota, public answers past the ceiling.
Admitted(o, limit) == counter[o] <= limit
\* Variant: the public gate is gone.
AnswerAlways(f) == Stored(f)
AnswerAdmitted(f) == Stored(f) /\ Admitted(Owner(f), Ceiling)
FormAdmitted(f) == f \notin used /\ Admitted(Owner(f), scene.quota)

\* The requests, transfers and measurements a new request runs into are remembered.
Begin(q, kind, docs, at) ==
  LET owners == {Owner(FormOfDoc(d)) : d \in docs}
      reach == IF kind = "purge" THEN docs \cup {FormOfDoc(d) : d \in docs} ELSE docs
  IN
  /\ req[q].at = "done" /\ begun < scene.begins
  /\ begun' = begun + 1
  /\ used' = IF kind = "create" THEN used \cup docs ELSE used
  /\ req' = [req EXCEPT ![q] = [kind |-> kind, at |-> at, docs |-> docs, bytes |-> 0, who |-> Nobody]]
  /\ crossed' = IF \E p \in Active : Touches(p) \cap reach # {} THEN crossed \cup owners ELSE crossed
  /\ LET hit == {t \in Measuring : task[t].who \in owners} IN
     /\ met' = met \cup {task[t].who : t \in hit}
     /\ task' = [t \in Tasks |-> IF t \in hit THEN [task[t] EXCEPT !.alone = FALSE] ELSE task[t]]
  /\ UNCHANGED <<scene, world, crashes, moves, transfers>>

Submit(q, r) == r \notin used /\ AnswerAdmitted(FormOf[r]) /\ Begin(q, "create", {r}, "write")
CreateForm(q, f) == FormAdmitted(f) /\ Begin(q, "create", {f}, "write")
Edit(q, d) == Begin(q, "edit", {d}, "before")
PurgeResponse(q, r) == Begin(q, "drop", {r}, "before")
PurgeForm(q, f) == Begin(q, "purge", Answers({f}), "before")

Go(q, at, bytes, who) == req' = [req EXCEPT ![q].at = at, ![q].bytes = bytes, ![q].who = who]
End(q) == req' = [req EXCEPT ![q] = NoRequest]
One(q) == CHOOSE d \in req[q].docs : TRUE
-----------------------------------------------------------------------------
(* Creating and editing: measure, write, measure, find the owner, increment. *)

Before(q) ==
  /\ req[q].at = "before"
  /\ IF req[q].kind = "edit" THEN Go(q, "write", Sum(req[q].docs), Nobody)
     ELSE Go(q, "owner", - Sum(req[q].docs), Nobody)
  /\ UNCHANGED <<world, task, seen, bounds>>

Write(q) ==
  /\ req[q].at = "write"
  /\ \E n \in scene.sizes :
       size' = [size EXCEPT ![One(q)] = IF req[q].kind = "edit" /\ @ = 0 THEN 0 ELSE n]
  /\ Go(q, "after", req[q].bytes, Nobody)
  /\ UNCHANGED <<place, holder, counter, task, seen, bounds>>

\* post save: a document that has gone, or was not there before, charges nobody.
After(q) ==
  /\ req[q].at = "after"
  /\ IF size[One(q)] = 0 \/ (req[q].kind = "edit" /\ req[q].bytes = 0) THEN End(q)
     ELSE Go(q, "owner", size[One(q)] - req[q].bytes, Nobody)
  /\ UNCHANGED <<world, task, seen, bounds>>

\* Variant: the workspace is charged, not its owner.
PayerPlace(d) == IF d \in Forms \/ Stored(FormOfDoc(d)) THEN place[FormOfDoc(d)] ELSE Nobody

\* chargedTo: a form knows its workspace, an answer looks its form up.
Payer(d) == IF d \in Forms \/ Stored(FormOfDoc(d)) THEN Owner(FormOfDoc(d)) ELSE Nobody

Charge(q) ==
  /\ req[q].at = "owner"
  /\ LET deleting == req[q].kind \in {"drop", "purge"} IN
     IF req[q].docs = {} \/ req[q].bytes = 0 \/ Payer(One(q)) = Nobody
     THEN IF deleting THEN Go(q, "delete", 0, Nobody) ELSE End(q)
     ELSE Go(q, "count", req[q].bytes, Payer(One(q)))
  /\ UNCHANGED <<world, task, seen, bounds>>

\* Variant: a delete gives nothing back.
AdjustUpOnly(q) ==
  /\ req[q].at = "count"
  /\ counter' = [counter EXCEPT ![req[q].who] = IF req[q].bytes < 0 THEN @ ELSE @ + req[q].bytes]
  /\ IF req[q].kind \in {"drop", "purge"} THEN Go(q, "delete", 0, Nobody) ELSE End(q)
  /\ UNCHANGED <<size, place, holder, task, seen, bounds>>

\* adjustStorage: one atomic increment.
Adjust(q) ==
  /\ req[q].at = "count"
  /\ counter' = [counter EXCEPT ![req[q].who] = @ + req[q].bytes]
  /\ IF req[q].kind \in {"drop", "purge"} THEN Go(q, "delete", 0, Nobody) ELSE End(q)
  /\ UNCHANGED <<size, place, holder, task, seen, bounds>>

-----------------------------------------------------------------------------
(* Deleting: the bytes are given back first, then the documents go.  A form *)
(* goes after its answers.                                                  *)

TheirForm(docs) == {FormOfDoc(d) : d \in docs}

Delete(q) ==
  /\ req[q].at = "delete"
  /\ size' = [d \in Docs |-> IF d \in req[q].docs THEN 0 ELSE size[d]]
  /\ IF req[q].kind = "purge" /\ req[q].docs \cap Forms = {}
     THEN req' = [req EXCEPT ![q].at = "before", ![q].docs = TheirForm(req[q].docs)]
     ELSE End(q)
  /\ UNCHANGED <<place, holder, counter, task, seen, bounds>>

\* The process stops, or a round trip fails, in the middle of a request.
Crash(q) ==
  /\ req[q].at # "done" /\ crashes < scene.crashes
  /\ crashes' = crashes + 1
  /\ crossed' = crossed \cup Concerns(q)
  /\ End(q)
  /\ UNCHANGED <<scene, world, task, met, used, begun, moves, transfers>>
-----------------------------------------------------------------------------
(* The owner changes: a form moves, or a workspace is handed over. *)

MoveForm(f, p) ==
  /\ Stored(f) /\ place[f] # p /\ moves < scene.moves
  /\ place' = [place EXCEPT ![f] = p]
  /\ moves' = moves + 1
  /\ crossed' = IF \E q \in Active : Touches(q) \cap ({f} \cup Answers({f})) # {}
                THEN crossed \cup {Owner(f), holder[p]} ELSE crossed
  /\ LET hit == {t \in Measuring : task[t].who \in {Owner(f), holder[p]}} IN
     /\ met' = met \cup {task[t].who : t \in hit}
     /\ task' = [t \in Tasks |-> IF t \in hit THEN [task[t] EXCEPT !.alone = FALSE] ELSE task[t]]
  /\ UNCHANGED <<scene, size, holder, counter, req, used, begun, crashes, transfers>>

Quiet(o) == \A q \in Active : o \notin Concerns(q)
On(O) == {t \in Measuring : task[t].who \in O}

\* Measurements begin of the owners asked for; they disturb each other on one account.
Measure(asked, quiet) ==
  LET O == {asked[t] : t \in Tasks} \ {Nobody} IN
  /\ \A t \in Tasks : asked[t] # Nobody => task[t].at = "off"
  /\ task' = [t \in Tasks |->
       IF asked[t] # Nobody THEN [NoTask EXCEPT !.at = "start", !.who = asked[t], !.alone = quiet /\ On({asked[t]}) = {}]
       ELSE IF t \in On(O) THEN [task[t] EXCEPT !.alone = FALSE] ELSE task[t]]
  /\ met' = met \cup (IF quiet THEN {task[t].who : t \in On(O)} ELSE O)

\* Variant: only the new owner is measured.
RemeasuredNew(old, new) == {new}

\* transferOwnership: the owner is stored, then both accounts are measured anew.
Remeasured(old, new) == {old, new}

Transfer(p, o) ==
  /\ holder[p] # o /\ transfers < scene.transfers
  /\ holder' = [holder EXCEPT ![p] = o]
  /\ transfers' = transfers + 1
  /\ LET both == {holder[p], o}
         quiet == \A x \in both : Quiet(x) /\ On({x}) = {}
     IN /\ \E asked \in [Tasks -> Remeasured(holder[p], o) \cup {Nobody}] :
             /\ \A x \in Remeasured(holder[p], o) : \E t \in scene.tasks : {u \in Tasks : asked[u] = x} = {t}
             /\ Measure(asked, quiet)
        /\ crossed' = IF quiet THEN crossed ELSE crossed \cup both
  /\ UNCHANGED <<scene, size, place, counter, req, used, begun, crashes, moves>>
-----------------------------------------------------------------------------
(* reconcileUser: read the counter, add up what is stored, read the counter *)
(* again and set it, unless it moved.                                       *)

Daily(t, o) ==
  /\ Measure([u \in Tasks |-> IF u = t THEN o ELSE Nobody], Quiet(o))
  /\ UNCHANGED <<world, req, crossed, bounds>>

Step(t, at, new) == task[t].at = at /\ task' = [task EXCEPT ![t] = new] /\ UNCHANGED <<world, req, seen, bounds>>

ReadStored(t) == Step(t, "start", [task[t] EXCEPT !.at = "forms", !.stored = counter[task[t].who]])

ReadForms(t) ==
  Step(t, "forms", [task[t] EXCEPT !.at = "formBytes", !.forms = {f \in FormsOf(task[t].who) : Stored(f)}])

\* Variant: the answers are not added up.
SumFormsOnly(t) == Step(t, "responseBytes", [task[t] EXCEPT !.at = "again"])

SumForms(t) == Step(t, "formBytes", [task[t] EXCEPT !.at = "responseBytes", !.sum = Sum(task[t].forms)])
SumResponses(t) == Step(t, "responseBytes", [task[t] EXCEPT !.at = "again", !.sum = @ + Sum(Answers(task[t].forms))])

Done(t) == [NoTask EXCEPT !.at = "over", !.who = task[t].who, !.alone = task[t].alone]

ReadAgain(t) ==
  Step(t, "again", IF counter[task[t].who] = task[t].stored /\ task[t].stored # task[t].sum
                   THEN [task[t] EXCEPT !.at = "set"] ELSE Done(t))

Correct(t) ==
  /\ task[t].at = "set"
  /\ counter' = [counter EXCEPT ![task[t].who] = task[t].sum]
  /\ task' = [task EXCEPT ![t] = Done(t)]
  /\ UNCHANGED <<size, place, holder, req, seen, bounds>>

\* A measurement nobody disturbed has settled the account.
Finish(t) ==
  /\ task[t].at = "over"
  /\ IF task[t].alone THEN crossed' = crossed \ {task[t].who} /\ met' = met \ {task[t].who} ELSE UNCHANGED seen
  /\ task' = [task EXCEPT ![t] = NoTask]
  /\ UNCHANGED <<world, req, bounds>>
-----------------------------------------------------------------------------
Serve(q) == Before(q) \/ Write(q) \/ After(q) \/ Charge(q) \/ Adjust(q) \/ Delete(q)

Arrive(q) ==
  \/ \E r \in scene.answers : Submit(q, r) \/ Edit(q, r) \/ PurgeResponse(q, r)
  \/ \E f \in Forms : CreateForm(q, f) \/ Edit(q, f) \/ PurgeForm(q, f)

Reconcile(t) ==
  ReadStored(t) \/ ReadForms(t) \/ SumForms(t) \/ SumResponses(t) \/ ReadAgain(t) \/ Correct(t) \/ Finish(t)

Next ==
  \/ \E q \in scene.requests : Arrive(q) \/ Serve(q) \/ Crash(q)
  \/ \E f \in Forms, p \in Places : MoveForm(f, p)
  \/ \E p \in scene.handed, o \in Owners : Transfer(p, o)
  \/ \E t \in scene.tasks : (\E o \in Owners : Daily(t, o)) \/ Reconcile(t)

Spec == Init /\ [][Next]_vars

\* Requests are served, measurements go on, and every account is measured every day.
FairSpec ==
  /\ Spec
  /\ \A q \in Requests : WF_vars(Serve(q))
  /\ \A t \in Tasks : WF_vars(Reconcile(t))
  /\ \A o \in Owners : SF_vars(\E t \in Tasks : Daily(t, o))
-----------------------------------------------------------------------------
(* Types: a request's bytes may be negative, and so may a counter that lost track. *)
TypeOK ==
  /\ size \in [Docs -> {0} \cup Sizes] /\ counter \in [Owners -> Int]
  /\ place \in [Forms -> Places] /\ holder \in [Places -> Owners]
  /\ req \in [Requests -> [kind : Kinds \cup {"none"}, docs : SUBSET Docs, bytes : Int, who : Owners \cup {Nobody},
       at : {"done", "before", "write", "after", "owner", "count", "delete"}]]
  /\ crossed \subseteq Owners /\ met \subseteq Owners /\ used \subseteq Docs

(* attachStorageHooks: once an account is at rest its counter is what it      *)
(* stores, whatever requests on different documents, owners handing over and  *)
(* purges were interleaved.  An account whose own documents met two writers,  *)
(* a crash, or a measurement in the middle of a write is excused until a      *)
(* measurement that nothing disturbed; one whose form moved is not.           *)
Settled(o) == Quiet(o) /\ \A t \in Measuring : task[t].who # o
CounterIsUsage == \A o \in Owners : Settled(o) /\ o \notin crossed \cup met => counter[o] = Usage(o)

(* reconcileUser promises that it erases no write that lands meanwhile: then  *)
(* a measurement in the middle of a write would be no excuse.                 *)
NoWriteErased == \A o \in Owners : Settled(o) /\ o \notin crossed => counter[o] = Usage(o)

(* The gates read the counter and the write comes later: however many pass on *)
(* a stale reading, an account holds no more documents than fit under its     *)
(* hard ceiling and one for every request.  Growth by an edit, which no gate  *)
(* looks at, is left out: a document counts for its least size; and so is     *)
(* what a purge has given back and is about to delete.                        *)
Leaving == UNION {req[q].docs : q \in {p \in Active : req[p].kind = "purge" /\ req[p].at = "delete"}}
Held(o) == {d \in Docs \ Leaving : Stored(d) /\ Owner(FormOfDoc(d)) = o}
OverageBounded ==
  \A o \in Owners \ (crossed \cup met) :
    Smallest * Cardinality(Held(o)) <= Ceiling + Smallest * Cardinality(Requests)

(* The three: forms that move are left to the repair, and so are the ceilings *)
(* of accounts that are measured anew.                                        *)
CounterHolds ==
  /\ TypeOK
  /\ moves = 0 => CounterIsUsage
  /\ moves = 0 /\ scene.tasks = {} => OverageBounded

(* Reconciliation: once the writers stop, whatever they left behind, every    *)
(* counter becomes exact and stays so.                                        *)
DriftRepaired == <>[](Active = {}) => <>[](\A o \in Owners : counter[o] = Usage(o))
=============================================================================
