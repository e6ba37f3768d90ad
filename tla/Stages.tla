-------------------------------- MODULE Stages --------------------------------
(***************************************************************************)
(* The stages of one workspace, the stages one of its forms may have of    *)
(* its own, and the form's responses, each on a stage whose category it    *)
(* repeats as its status.  Listing, creating, recategorising and deleting  *)
(* stages, saving the form's setup, submitting and moving responses are    *)
(* requests of several round trips.                                        *)
(*                                                                         *)
(* Names, colours and the order of stages are left out: where the code     *)
(* takes the first stage that fits, any stage that fits may be taken.      *)
(***************************************************************************)
EXTENDS Naturals, FiniteSets

CONSTANTS
  StageIds, Responses, Requests,
  Categories,           (* StageCategory                                    *)
  First,                (* the category "new"                               *)
  Kinds,                (* the operations that may be asked for             *)
  Nothing,
  MaxRequests, MaxCrashes   (* bounds *)

Configuring == {"list", "create", "recategorise", "delete", "own", "workspace"}

\* What is assumed of the constants.
StagesAssumption ==
  /\ First \in Categories /\ Nothing \notin StageIds \cup Responses \cup Categories
  /\ Kinds \subseteq Configuring \cup {"submit", "move", "status"}
  /\ IsFiniteSet(StageIds) /\ IsFiniteSet(Categories)
  /\ MaxRequests \in Nat /\ MaxCrashes \in Nat

VARIABLES
  stage,      (* each id: unused, a stage of the workspace or of the form, deleted *)
  resp,       (* the responses: their stage and status                      *)
  version,    (* version of the form's ResponseSetup                        *)
  req,        (* requests under way                                         *)
  raced,      (* two requests met, one of them changing stages, or a crash  *)
  refused,    (* a setup save that changed stages was answered 409          *)
  begun, crashes

vars == <<stage, resp, version, req, raced, refused, begun, crashes>>
ghosts == <<raced, refused, begun, crashes>>

Unused == [is |-> "unused", cat |-> Nothing, start |-> FALSE]
Gone == [is |-> "deleted", cat |-> Nothing, start |-> FALSE]
NoResponse == [on |-> Nothing, status |-> Nothing]
NoRequest == [kind |-> "none", pc |-> "done", r |-> Nothing, s |-> Nothing, t |-> Nothing,
              cat |-> Nothing, list |-> {}, kept |-> {}, version |-> 0]

Workspace == {s \in StageIds : stage[s].is = "workspace"}
Own == {s \in StageIds : stage[s].is = "form"}
Fresh == {s \in StageIds : stage[s].is = "unused"}
Known == StageIds \ Fresh
New == CHOOSE s \in Fresh : TRUE
On(s) == {r \in Responses : resp[r].on = s}
Effective == IF Own # {} THEN Own ELSE Workspace

\* What a query returns: the stages as they are now.
Read(S) == {[id |-> s, is |-> stage[s].is, cat |-> stage[s].cat, start |-> stage[s].start] : s \in S}
OfCat(list, c) == {e \in list : e.cat = c}

\* Seeding: one stage for every category, the first of them the default.
SeedIds(free) == CHOOSE n \in [Categories -> free] : \A c, d \in Categories : c # d => n[c] # n[d]
SeedStage(c) == [is |-> "workspace", cat |-> c, start |-> c = First]
Seeded(base, ids) == [s \in StageIds |-> IF \E c \in Categories : ids[c] = s
                                         THEN SeedStage(CHOOSE c \in Categories : ids[c] = s) ELSE base[s]]

\* A new workspace, or one in use: seeded, with a stage more that is not of the first
\* category, and responses anywhere.
InUse(ids, extra) ==
  /\ \E c \in Categories \ {First} :
       stage = Seeded([s \in StageIds |-> IF s = extra THEN [is |-> "workspace", cat |-> c, start |-> FALSE]
                                         ELSE Unused], ids)
  /\ resp \in [Responses -> {[on |-> s, status |-> stage[s].cat] : s \in Workspace}]

Init ==
  /\ \/ stage = [s \in StageIds |-> Unused] /\ resp = [r \in Responses |-> NoResponse]
     \/ LET ids == SeedIds(StageIds)
        IN InUse(ids, CHOOSE s \in StageIds : \A c \in Categories : ids[c] # s)
  /\ version = 0 /\ req = [q \in Requests |-> NoRequest]
  /\ raced = FALSE /\ refused = FALSE /\ begun = 0 /\ crashes = 0

Active == {q \in Requests : req[q].pc # "done"}
Changes(kind) == kind \in Configuring

Begin(q, kind, pc, r, s, t, c, v) ==
  /\ kind \in Kinds /\ req[q].pc = "done" /\ begun < MaxRequests
  /\ begun' = begun + 1
  /\ req' = [req EXCEPT ![q] = [NoRequest EXCEPT !.kind = kind, !.pc = pc, !.r = r, !.s = s, !.t = t,
                                                 !.cat = c, !.version = v]]
  /\ raced' = (raced \/ \E p \in Active : Changes(kind) \/ Changes(req[p].kind))
  /\ UNCHANGED <<stage, resp, version, refused, crashes>>

Arrive(q) ==
  \/ Begin(q, "list", "ensure", Nothing, Nothing, Nothing, Nothing, 0)
  \/ \E c \in Categories : Begin(q, "create", "ensure", Nothing, Nothing, Nothing, c, 0)
  \/ \E s \in Known, c \in Categories : Begin(q, "recategorise", "find", Nothing, s, Nothing, c, 0)
  \/ \E s \in Known, t \in Known \cup {Nothing} : Begin(q, "delete", "find", Nothing, s, t, Nothing, 0)
  \/ \E r \in Responses :
       \/ resp[r] = NoResponse /\ Begin(q, "submit", "own", r, Nothing, Nothing, Nothing, 0)
       \/ \E s \in Known : resp[r] # NoResponse /\ Begin(q, "move", "stage", r, s, Nothing, Nothing, 0)
       \/ \E c \in Categories : resp[r] # NoResponse /\ Begin(q, "status", "own", r, Nothing, Nothing, c, 0)
  \* A setup keeps one of the form's stages, perhaps in another category, or adds one, or both.
  \/ \E s \in Own \cup {Nothing}, c \in Categories, t \in Categories \cup {Nothing} :
       /\ s # Nothing \/ t # Nothing
       /\ Begin(q, "own", "setup", Nothing, s, t, c, version)
  \/ Begin(q, "workspace", "setup", Nothing, Nothing, Nothing, Nothing, version)

Go(q, pc) == req' = [req EXCEPT ![q].pc = pc]
GoWith(q, pc, list) == req' = [req EXCEPT ![q].pc = pc, ![q].list = list]
End(q) == req' = [req EXCEPT ![q] = NoRequest]
At(q, pc) == req[q].pc = pc
-----------------------------------------------------------------------------
(* Reading the stages, and seeding them when there are none. *)

AfterEnsure(q) ==
  CASE req[q].kind = "list" -> "done" [] req[q].kind = "create" -> "create"
    [] req[q].kind = "workspace" -> "shift" [] OTHER -> "put"

Answered(q, list) == IF req[q].kind = "list" THEN End(q) ELSE GoWith(q, AfterEnsure(q), list)

\* ensureDefaultStages
Ensure(q) ==
  /\ At(q, "ensure")
  /\ IF Workspace # {} THEN Answered(q, Read(Workspace)) ELSE Go(q, "seed")
  /\ UNCHANGED <<stage, resp, version, ghosts>>

Seed(q) ==
  /\ At(q, "seed")
  /\ Cardinality(Fresh) >= Cardinality(Categories)
  /\ LET new == SeedIds(Fresh) IN
       /\ stage' = Seeded(stage, new)
       /\ Answered(q, {[id |-> new[c], is |-> "workspace", cat |-> c, start |-> c = First] : c \in Categories})
  /\ UNCHANGED <<resp, version, ghosts>>

Create(q) ==
  /\ At(q, "create")
  /\ Fresh # {}
  /\ stage' = [stage EXCEPT ![New] = [is |-> "workspace", cat |-> req[q].cat, start |-> FALSE]]
  /\ End(q)
  /\ UNCHANGED <<resp, version, ghosts>>
-----------------------------------------------------------------------------
(* Responses come and move. *)

\* listFormStages: the form's own stages come first.
ReadOwn(q) ==
  /\ At(q, "own")
  /\ IF Own # {} THEN GoWith(q, "put", Read(Own)) ELSE Go(q, "ensure")
  /\ UNCHANGED <<stage, resp, version, ghosts>>

\* getStageInWorkspace
FindStage(q) ==
  /\ At(q, "stage")
  /\ IF req[q].s \in Workspace \cup Own
     THEN GoWith(q, IF req[q].s \in Own THEN "put" ELSE "exists", Read({req[q].s})) ELSE End(q)
  /\ UNCHANGED <<stage, resp, version, ghosts>>

\* Variant: any stage of the workspace will do.
MayUseAny(q) == TRUE

\* getStageForForm: a workspace stage is refused once the form has its own.
MayUse(q) == Own = {}

CheckOwn(q) ==
  /\ At(q, "exists")
  /\ IF MayUse(q) THEN Go(q, "put") ELSE End(q)
  /\ UNCHANGED <<stage, resp, version, ghosts>>

\* startStageForForm and resolveStageForForm.
Chosen(q) ==
  LET list == req[q].list
      own == \E e \in list : e.is = "form"
      starts == {e \in list : e.start}
      fits == OfCat(list, req[q].cat)
  IN
  CASE req[q].kind = "move" -> list
    [] req[q].kind = "submit" -> IF starts # {} THEN starts
                                 ELSE IF OfCat(list, First) # {} THEN OfCat(list, First) ELSE list
    [] OTHER -> IF ~own /\ fits \cap starts # {} THEN fits \cap starts
                ELSE IF fits = {} /\ own THEN list ELSE fits

\* Variant: the status is the stage itself.
StoredStage(e) == [on |-> e.id, status |-> e.id]

\* One write stores the stage and the status it stands for.
Stored(e) == [on |-> e.id, status |-> e.cat]
Put(q) ==
  /\ At(q, "put")
  /\ IF Chosen(q) = {} THEN UNCHANGED resp
     ELSE \E e \in Chosen(q) : resp' = [resp EXCEPT ![req[q].r] = Stored(e)]
  /\ End(q)
  /\ UNCHANGED <<stage, version, ghosts>>
-----------------------------------------------------------------------------
(* updateStage and deleteStage *)

\* Variant: the default stage may be deleted.
FindAny(q) ==
  /\ At(q, "find")
  /\ IF req[q].s \in Workspace
     THEN GoWith(q, IF req[q].kind = "delete" THEN "siblings" ELSE "save", Read({req[q].s})) ELSE End(q)
  /\ UNCHANGED <<stage, resp, version, ghosts>>

Find(q) ==
  /\ At(q, "find")
  /\ IF req[q].s \in Workspace /\ (req[q].kind = "delete" => ~stage[req[q].s].start)
     THEN GoWith(q, IF req[q].kind = "delete" THEN "siblings" ELSE "save", Read({req[q].s})) ELSE End(q)
  /\ UNCHANGED <<stage, resp, version, ghosts>>

Held(q) == CHOOSE e \in req[q].list : TRUE

\* A stage deleted meanwhile makes the save fail.
Save(q) ==
  /\ At(q, "save")
  /\ IF stage[req[q].s].is = "deleted" THEN End(q) /\ UNCHANGED stage
     ELSE /\ stage' = [stage EXCEPT ![req[q].s].cat = req[q].cat]
          /\ IF Held(q).cat # req[q].cat THEN Go(q, "sync")
             ELSE IF req[q].kind = "own" THEN Go(q, "add") ELSE End(q)
  /\ UNCHANGED <<resp, version, ghosts>>

\* Variant: the responses on the stage keep their status.
SyncedNone(s, c) == resp
Synced(s, c) == [r \in Responses |-> IF r \in On(s) THEN [resp[r] EXCEPT !.status = c] ELSE resp[r]]

Sync(q) ==
  /\ At(q, "sync")
  /\ resp' = Synced(req[q].s, req[q].cat)
  /\ IF req[q].kind = "own" THEN Go(q, "add") ELSE End(q)
  /\ UNCHANGED <<stage, version, ghosts>>

\* The last stage of its category stays.
Siblings(q) ==
  /\ At(q, "siblings")
  /\ IF \E s \in Workspace \ {req[q].s} : stage[s].cat = Held(q).cat THEN Go(q, "count") ELSE End(q)
  /\ UNCHANGED <<stage, resp, version, ghosts>>

\* With responses on it, a stage to move them to is required.
Count(q) ==
  /\ At(q, "count")
  /\ IF On(req[q].s) = {} THEN GoWith(q, "commit", {})
     ELSE IF req[q].t # Nothing THEN Go(q, "target") ELSE End(q)
  /\ UNCHANGED <<stage, resp, version, ghosts>>

Target(q) ==
  /\ At(q, "target")
  /\ IF req[q].t \in Workspace /\ req[q].t # req[q].s THEN GoWith(q, "commit", Read({req[q].t})) ELSE End(q)
  /\ UNCHANGED <<stage, resp, version, ghosts>>

\* The transaction: responses move to the stage as it was read, and the stage goes.
Commit(q) ==
  /\ At(q, "commit")
  /\ resp' = IF req[q].list = {} THEN resp
             ELSE [r \in Responses |-> IF r \in On(req[q].s) THEN Stored(Held(q)) ELSE resp[r]]
  /\ stage' = [stage EXCEPT ![req[q].s] = Gone]
  /\ End(q)
  /\ UNCHANGED <<version, ghosts>>
-----------------------------------------------------------------------------
(* saveResponseSetup and applyFormStages: s is the stage kept, cat its      *)
(* category, t the category of a stage added.                               *)

\* The version the editor loaded is compared first.
Setup(q) ==
  /\ At(q, "setup")
  /\ IF req[q].version = version THEN Go(q, "existing") ELSE End(q)
  /\ UNCHANGED <<stage, resp, version, ghosts>>

Existing(q) ==
  /\ At(q, "existing")
  /\ IF req[q].s # Nothing /\ req[q].s \notin Own THEN End(q)
     ELSE req' = [req EXCEPT ![q].kept = Own,
            ![q].list = IF req[q].s = Nothing THEN {} ELSE Read({req[q].s}),
            ![q].pc = IF req[q].kind = "workspace" THEN "ensure" ELSE IF req[q].s = Nothing THEN "add" ELSE "save"]
  /\ UNCHANGED <<stage, resp, version, ghosts>>

\* The resulting list: the stage kept and the stage added.
Add(q) ==
  /\ At(q, "add")
  /\ LET kept == {[id |-> e.id, is |-> "form", cat |-> req[q].cat, start |-> FALSE] : e \in req[q].list} IN
     IF req[q].t = Nothing THEN GoWith(q, "shift", kept) /\ UNCHANGED stage
     ELSE /\ Fresh # {}
          /\ stage' = [stage EXCEPT ![New] = [is |-> "form", cat |-> req[q].t, start |-> FALSE]]
          /\ GoWith(q, "shift", kept \cup {[id |-> New, is |-> "form", cat |-> req[q].t, start |-> FALSE]})
  /\ UNCHANGED <<resp, version, ghosts>>

\* moveFormResponses: whatever is not on a kept stage moves to one that counts the same way.
Fits(list, status) ==
  LET same == OfCat(list, status) IN IF same # {} THEN same ELSE list
Keeping(q) == IF req[q].kind = "own" THEN {e.id : e \in req[q].list} ELSE {}

Shift(q) ==
  /\ At(q, "shift")
  /\ IF req[q].kind = "workspace" /\ req[q].kept = {} THEN resp' = resp /\ Go(q, "version")
     ELSE /\ \E new \in [Categories -> req[q].list] :
               /\ \A c \in Categories : new[c] \in Fits(req[q].list, c)
               /\ resp' = [r \in Responses |->
                    IF resp[r] = NoResponse \/ resp[r].on \in Keeping(q) THEN resp[r]
                    ELSE Stored(new[resp[r].status])]
          /\ Go(q, "drop")
  /\ UNCHANGED <<stage, version, ghosts>>

\* Mode own deletes what it read and did not keep, mode workspace all the form has.
Dropped(q) == IF req[q].kind = "own" THEN req[q].kept \ Keeping(q) ELSE Own

Drop(q) ==
  /\ At(q, "drop")
  /\ stage' = [s \in StageIds |-> IF s \in Dropped(q) THEN Gone ELSE stage[s]]
  /\ Go(q, IF req[q].kind = "own" THEN "start" ELSE "version")
  /\ UNCHANGED <<resp, version, ghosts>>

\* The start stage is marked: no other stage of the form is.
Start(q) ==
  /\ At(q, "start")
  /\ \E e \in req[q].list :
       stage' = [s \in StageIds |-> IF s \in Own THEN [stage[s] EXCEPT !.start = (s = e.id)] ELSE stage[s]]
  /\ Go(q, "version")
  /\ UNCHANGED <<resp, version, ghosts>>

\* The compare-and-swap comes last.
Version(q) ==
  /\ At(q, "version")
  /\ IF version = req[q].version THEN version' = version + 1 /\ UNCHANGED refused
     ELSE UNCHANGED version /\ refused' = TRUE
  /\ End(q)
  /\ UNCHANGED <<stage, resp, raced, begun, crashes>>
-----------------------------------------------------------------------------
Crash(q) ==
  /\ req[q].pc # "done" /\ crashes < MaxCrashes
  /\ crashes' = crashes + 1 /\ raced' = TRUE
  /\ End(q)
  /\ UNCHANGED <<stage, resp, version, refused, begun>>

Serve(q) ==
  \/ Ensure(q) \/ Seed(q) \/ Create(q) \/ ReadOwn(q) \/ FindStage(q) \/ CheckOwn(q) \/ Put(q)
  \/ Find(q) \/ Save(q) \/ Sync(q) \/ Siblings(q) \/ Count(q) \/ Target(q) \/ Commit(q)
  \/ Setup(q) \/ Existing(q) \/ Add(q) \/ Shift(q) \/ Drop(q) \/ Start(q) \/ Version(q)

Next == \E q \in Requests : Arrive(q) \/ Serve(q) \/ Crash(q)

Spec == Init /\ [][Next]_vars
-----------------------------------------------------------------------------
(* Types of the documents; a response names a stage id, in use or not. *)
TypeOK ==
  /\ stage \in [StageIds -> [is : {"workspace", "form"}, cat : Categories, start : BOOLEAN] \cup {Unused, Gone}]
  /\ resp \in [Responses -> [on : StageIds, status : Categories] \cup {NoResponse}]
  /\ version \in Nat /\ raced \in BOOLEAN /\ refused \in BOOLEAN

(* "Every workspace must always have >=1 stage": a workspace that has its     *)
(* default stage keeps it, whatever deletes and setups are interleaved.       *)
HasDefault == \E s \in Workspace : stage[s].start
DefaultStays == [][HasDefault => HasDefault']_vars

(* Every response sits on a stage its form shows, after any sequence of       *)
(* stage changes, setups, submissions and moves that did not meet.            *)
Quiet == Active = {}
Stands(r) == resp[r] # NoResponse => resp[r].on \in Effective
EveryResponseShown == Quiet /\ ~raced => \A r \in Responses : Stands(r)

(* updateStage: status never drifts from the category of the stage.           *)
InStep(r) == resp[r].on \in Workspace \cup Own => resp[r].status = stage[resp[r].on].cat
StatusInStep == Quiet /\ ~raced => \A r \in Responses : InStep(r)

(* "status never drifts": nor when a move and a stage's change meet.          *)
StatusNeverDrifts == Quiet /\ crashes = 0 => \A r \in Responses : InStep(r)

(* Deleting a stage reassigns the responses on it, whatever else goes on.     *)
NoResponseLost == Quiet /\ crashes = 0 => \A r \in Responses : resp[r].on \notin {s \in StageIds : stage[s].is = "deleted"}

(* Seeding is idempotent: one default stage, however many requests came first. *)
OneDefault == Cardinality({s \in Workspace : stage[s].start}) <= 1

(* The last stage of a category cannot be deleted.                            *)
CategoriesKept == Workspace # {} => \A c \in Categories : \E s \in Workspace : stage[s].cat = c

(* A setup save that is answered 409 changes nothing.                         *)
RefusedChangesNothing == ~refused
=============================================================================
