# Beginso backend: TLA+ models, model checking and proofs

This directory holds a formal model of the Beginso backend, the REST API of a
multi-tenant form platform (Node, Express 5, MongoDB through Mongoose). The
models are about what the test suite reaches least: requests that overtake one
another between two `await`s, documents read in one round trip and used in a
later one, processes that stop half way, and sweeps that run beside everything
else.

Contents: 1 the system; 2 from code to model; 3 the modules; 4 the runs and their
bounds; 5 the proofs; 6 fairness; 7 where code and comment differ; 8 what is not
modelled, and the plan.

## 1. The system

The server is one Node process, sometimes several on one database. All lasting
state is in MongoDB, except uploaded and generated files, which are on the disk
of the process, and a few module variables. A database call on a single document
is atomic; transactions are used in a handful of places. JavaScript runs to the
next `await`, so every `await` is a point where another request, timer or
process may come in between.

| Component | State it keeps | Operations | What is hard | What makes it correct | Modules |
|---|---|---|---|---|---|
| Form lifecycle, public submission | `Form` status, archived, deletedAt, settings; `Response` | submit, test submit, publish, unpublish, close, archive, trash, restore, patch, sweep | the limit is checked before the insert and again after; the check itself writes; editors write documents read earlier | no more accepted than the limit, a response only if the form was open, everyone answered, a full form closed | FormIntake, IntakeContract |
| References | `Workspace.refCode`, `Form.refCode`, counter | letters on first use, running number | probe and conditional write under a unique index, retried; a move changes the scope of the index | one reference, one response; letters never change | References |
| Export queue | `Report`, files, `running` and `draining` in memory | create, claim, generate, fail, retry, recover | an await inside the loop that counts slots; a crash between claim and end; several processes | one run per job, bounded runs, a completed report has its file, every job ends | ReportQueue |
| Storage counter | `User.storageUsedBytes` | gates, hooks around each write, reconcile | document, measurement and increment are separate round trips | at rest the counter is the usage; drift is repaired | StorageCounter |
| Stages, response setup | `Stage`, `ResponseSetup.version`, `Response.stageId/status` | seed, create, recategorise, delete, setup save, move | checks before transactions; the version is swapped last | every response on a stage its form shows, with that stage's category | Stages |
| Trash, retention, cascades | `deletedAt`, dependants of a form | trash, restore, purge, sweep, close account | batches purged by id after a query; a cascade without a transaction | nothing restored is lost, nothing purged leaves a trace | Retention |
| Workspaces, membership, invitations | `Workspace.owner`, `Membership`, `Invitation` | send, accept, decline, revoke, role, remove, leave, transfer | compensation after a claim; rows read before a write | one owner, always; an invitation is used once | Membership |
| Permissions and context | roles and grants | `requirePermission` | the tables others leave half written | a grant only adds, the form decides, deleting is the owner's | Access |
| Form editing | `Form` content, `contentVersion`, `lastSaveId` | load, save, retry, publish, replace the link | read, merge, conditional write; lost replies | a save is written once and overwrites nothing it has not seen | Editing |
| Response handling | assignee, tags, notes, scores, rank | one by one and in bulk | members go and tags are merged between read and write | nothing points to what is gone; a total order per column | Triage, Notes, Board, Scores |
| Respondent identity | `EmailVerification`, tickets, `RespondentLink` | request, check, redeem, issue, open, correct, claim | attempts counted apart from their check | bounded attempts, single use, only the proven | Verification, SignedLinks |
| Accounts and sessions | `User`, `Session`, `AuthOtp`, `AuthTicket` | sign in, log out, suspend, reveal, confirm | a ticket or a session read, then saved | ended sessions stay ended | Accounts |
| Rate limits, cooldowns | `RateLimitBucket` | hit | first hit of a window | never more than the limit | part of Accounts, Verification |
| Sharing, moving, pinning | `FormGrant`, `Pin`, `Form.workspaceId` | share, revoke, move, pin | a move is four writes on three collections | no share or pin outlives a move that should drop it | Moving |
| Looks, saved views, styles | default view and version, lists | save, rename, default | version checks; counting before inserting | no default overwritten unseen; limits | Looks |
| Copies and templates | fields and rules | duplicate, template, use | ids are made anew | copies stand for themselves | Copies |
| Answers, conditional questions | `Response.answers` by label | submit, correct | labels repeat; rules hide questions | an answer stays with its question | Answers |
| Charts and dashboards | aggregates, cache, `Chart`, `DashboardLayout` | ask, click, save, layout | a stamp read before the aggregate; bounded runs and cache | bars count the rows they open; layouts not overwritten unseen | Charts, Dashboards |
| Super admin console | login, `User`, workspace, sessions, `AuditLog`; templates, limits | make, suspend, delete, retry, revoke | five stores written one after the other; a provider that refuses | the stores of an account agree; every change has its audit row | Console, Ledger |

Not modelled: mail, notifications and activity; process shutdown; analytics,
search and lists; file I/O; input validation; scripts (section 8).
`PROJECT.json` lists all parts under `components` with their status, and under
`hazards` what could go wrong in each, at the line where it does.

How they interact: a submission allocates a reference, passes the storage gate,
lands on a stage and is charged by the hooks; editing, the console and retention
write the same `Form`, `Response` and `User` rows as everything else, mostly by
id, with no lock but a conditional update here and there. The calls between
components are few; what couples them is the rows they share. Each module
therefore contains *all* the writers of the rows it is about, whichever file they
are in.

## 2. From code to model

* **A request is a process.** It has a control state (`pc`, `req[q].at`,
  `task[r].at`, `hand[h].at`) and one action stands for the code between two
  awaits. The values a request read earlier are part of its state (`seen`,
  `local`, `list`, `was`), so a stale value is stale in the model as well.
* **A database call on one document is one step.** A unique index is the guard
  of the writing step (`WsClaim`, `FormClaim`, `InsertRow`); a conditional update
  tests and writes in one step (`Claim`, `SweepCloses`, `CommitEdit`); an update
  by id only (`Shut`, `UndoClose`, `Fill`) tests nothing. A query hook that hides
  trashed documents is a guard.
* **Failure** is an action that ends a request where it stands (`Fail`, `Crash`,
  `Stop`, `Cut`); what has been written remains written.
* **Data is abstracted** to what a property can tell apart. Titles, wording and
  files do not appear; a size is a small number; letters are numbers below
  `Space` and a name is the code its letters spell; an answer is the edit that
  wrote it; validation is a choice between passing and failing where it does not
  matter which; a clock is a small counter.
* **History variables** are read by no action of the code: `past` in FormIntake,
  `crossed` and `met` in StorageCounter, `raced` and `refused` in Stages, `stray`
  and `effects` in Console, `changed` in Ledger, `uses` and `acked` in Editing.
* **Bounds** are constants called `Max...`, each in the guard of the action it
  bounds; those of StorageCounter are fields of its scene (`begins`, `crashes`,
  `moves`, `transfers`). `Tickets`, `Requests`, `Slots`, `Hands` and `Actors` bound how much is
  under way at once.

Operators marked `Variant` in the comment above them are plausible wrong forms of
the definition below them. No specification uses them; substituted for that
definition, each one makes TLC report the property it is listed with under
`mutants` in `PROJECT.json`.

## 3. The modules

Components are modules of their own; eight modules compose those that are followed
by one run. The composed parts share no state of the code, so a behaviour follows
one of them (`part`, `desk`) while the others stand still: every interleaving
inside a part is there, and the state spaces add up instead of multiplying.
Scenes of one part with bounds of their own are told apart in the same way.

| Composition | Parts | Run |
|---|---|---|
| Submission | References, FormIntake | submission |
| FormDesk | FormIntake (with editors; with rivals), Stages | form_desk |
| Upkeep | ReportQueue (side by side; recovery), Console, Ledger | background |
| Storage | StorageCounter (exact; handover; repair) | storage |
| Workspace | Membership with Access, Insight | workspace |
| Insight | Charts (bars; load), Dashboards (kept; layout) | workspace |
| Handling | Triage, Notes, Board, Scores | handling |
| Identity | SignedLinks, Verification, Accounts | identity |
| Keeping | Moving, Looks, Copies, Answers | keeping |

Retention and Editing have runs of their own. `MC...` modules give the constants
of the runs their small sets; `...Proofs` modules hold the theorems.

**FormIntake**: one form and all that happens to it while people answer it. A
public submission passes `checkFormAvailability` three times (`gate`), each time
`Look` (the query), `Judge` (the decision) and perhaps `Shut`, which closes the
form by id on the strength of the document read before. `Allocate` takes the
number, `Create` inserts, `Recount` counts again against the limit *read before
the insert*, and `Undo`/`UndoClose` or `Fill` follow. Editors read, decide
(`BeginEdit`) and write by id later (`CommitEdit`). `SweepFinds` and
`SweepCloses` are the two queries of `closeExpiredForms`.

**IntakeContract**: the abstract specification. A submission is accepted or
refused once, an accepted one has a number nobody else ever has and is kept until
its owner removes it, and at the moment of acceptance the kept ones fit a limit
the form has carried. `ImplementsContract` gives the refinement mapping: a
response that is stored and not yet past its second count is still undecided.

**References**: `ensureWorkspaceCode` and `ensureFormCode` as probe, conditional
write and reread with the `Space` rounds of their loops, and `moveForm` as two
steps, the second of which the index may refuse.

**ReportQueue**: `createReport`, `drain` with its two module variables and its
await, `generateReportAsync`, the retry, and processes that crash, start and
recover. A *ticket* is one turn of drain's loop and the generator it starts. A
crash loses tickets, `running`, `draining` and scheduled kicks and keeps
documents and files.

**StorageCounter**: the gates that read the counter, the hooks that measure a
document around its write and charge the difference to the owner found by another
query, purges that give bytes back first, `reconcileUser` as its six round trips,
and the two events that change who pays. `crossed` and `met` name the accounts
whose counter the code does not claim to keep exact until the next measurement.
A *scene*, a constant record that `Init` picks, says who owns what at first, what
may happen and how often.

**Stages**: every operation on stages and setups as its round trips, with the
transaction of a delete as one step and a setup save as the eight it really takes,
version last.

**Retention**: trash, restore, single, bulk and timed purges and the deletion of a
workspace and an account, one action per collection of the cascade, beside
submissions, notes and edits in flight.

**Access** is the decision of `requirePermission` as a function of the tables;
**Membership** all requests that write them, with the compensations, and `Heal`,
the owner's row the middleware gives back.

**Editing**: loads, saves with and without a version, retries of a lost reply,
merging of fields (a field that has answers is marked, never dropped), publishing
with choices, replacing the link, closing, archiving, Trash.

**Triage**, **Notes**, **Board**, **Scores**: assignee, tags, trash and offboarding;
a note, its mentions and who is told; ranks with a minimal gap and the renumbering
of a column; criteria and scores.

**Verification**, **SignedLinks**, **Accounts**: codes and tickets and what
redeems them; links, corrections and claims; sessions, suspension, the reveal
ticket and the confirmation code with the fixed windows of its mails.

**Moving**, **Looks**, **Copies**, **Answers**: a form that moves under shares and
pins; default view, saved views, numbers of styles and pins; forms made of forms;
answers found by label under conditional questions.

**Charts**, **Dashboards**: what bars count at every level and the rows a click
opens, the stamp, the cache and the runs; saved charts and the home layout.

**Console**: the accounts of one address, five stores written one after the other
by operators, the sign-in and the owner, with a provider that may refuse. **Ledger**:
the console's other changes, each a read or none, one write and the audit row.

## 4. The runs and their bounds

Deadlock is not checked in any run: with the bounds used up and every request
answered there is nothing left to do. Symmetry is used only where the sets are
interchangeable in the specification, and in no run that checks liveness.

| Run | Instance | Shows |
|---|---|---|
| submission | 3 submissions, limit 2, 1 failure; 2 workspaces, 2 forms, 3 submissions, all names spelling the last letters, Space 3, 1 move | `SubmissionSafe` (types, limit, numbers, nothing refused stays, letters fixed), `SharedOnlyAfterMove`, `LettersDistinct`, the contract; `EverybodyAnswered`, `FullFormCloses` |
| form_desk | 2 public (one a rival only) and 1 test submission, 1 editor, 2 edits, dates 0 or none; 5 stage ids, 1 response, 3 requests of 9 kinds, 1 crash | limit, numbers, `AcceptedOnlyIfOpen`, `ResponsesInPlace`, `DefaultStays` |
| background | 2 jobs, 2 processes (1 recovers), 1 slot, 1 crash, 2 errors, 1 retry; 2 rows and logins, 3 console requests, 2 at a time, 1 refusal; one thing of each of 6 sorts, 2 operators, 3 changes | `RunsApart`, `FilesWhole`, `ConsoleHolds`, `RecoveredEnds` |
| storage | 1 account, 3 requests, 2 at a time; 2 accounts with a transfer, a request and 2 measurements; 2 accounts, 1 request, a crash and a move | `CounterHolds`, `DriftRepaired` |
| retention | 1 form, 1 response, the timer and a member, batch 1, 1 fault | `PurgesHold`, `SweepKeepsRecent`, `ExpiredPurged` |
| workspace | 3 users, 2 invitations, 4 requests, 2 at a time, 1 cut; 5 charts over 3 responses, 3 asks by 2; 3 requests on 3 charts and 2 screens | `RolesHold`, `AccessHolds`, `InvitesOnlyAdd`, `ChartsHold`, `KeptHolds` |
| editing | 2 builders, 2 saves sent 3 times in all, 2 links, 2 other requests | `SavesHold`, `EditsStay` |
| handling | 3 requests, 2 at a time, 1 cut; 2 responses, 3 cards in 2 columns, 2 tags, a note, 2 criteria | `NothingDangles`, `MentionsTold`, `PlacedRight`, `DeletesKeep` |
| identity | 2 hands; 4 or 5 requests, 1 cut; 2 responses, 3 links, 2 addresses, 3 codes, 2 tickets, 2 sessions | `WithinBounds`, `OnlyTheProven`, `LinksServe`, `GoneStay` |
| keeping | 3 requests on a form, 2 workspaces; 6 looks of 2 people; 5 steps over 3 forms and a template; 4 edits over 3 questions, 2 rules | `MoveIsClean`, `LooksHold`, `CopiesHold`, `StoredHolds` |
| queue_lost_by_restart | 1 process, 1 job, 1 crash | **violation**, section 7 |
| answers_corrected | 2 questions, 2 edits | **violation**, section 7 |

Why these bounds are enough to be interesting: every race in the code is between
two requests and at most one other party. Three submissions for two places give
the first, the last and the surplus one, in every order, including two that undo
each other. Space 3 with every name at the last letters makes the loop wrap round
and run into letters taken by others. Two jobs and two processes with one slot
give the job that waits, the one that is claimed twice if anything is wrong, and
the drain that ends while another begins; two errors let the bookkeeping of an
error fail. In the console two requests cross and a third makes use of what they
left; one refusal is enough to leave two stores apart. Four requests on a
workspace contain an invitation, its acceptance and two requests about roles. A
save sent three times is lost once, repeated once, and overtaken by another. Each
mutant is found within these bounds, most of them within a dozen steps. Where a
property is also a theorem (section 5), the bounds only matter for the run.

## 5. The proofs

`tlapm` proves the theorems below for every value of the constants that the named
assumptions allow; the runs of section 4 show the same properties on small
instances. `PROJECT.json` lists the theorems under `theorems`. A `...Proofs` module
extends the module it is about, so that no definition is stated twice.

Each proof of an invariant has the same shape: a strengthening that is a
conjunction of named parts, one lemma per part (or per action, where the actions
disturb many parts) that says what a step does to it, and a theorem that combines
them by temporal logic. Every strengthening was first given to TLC as an invariant
of the run.

| Module | Theorems | Inductive invariant and argument |
|---|---|---|
| FormDeskProofs | `TypeCorrect`, `LimitHolds`, `NumbersHold`, `OpennessHolds`, `RemainHolds`, `ContractHolds`, `DeskIntake`, `ResponsesStand`, `DefaultRemains` | `LimitInv`: what a submission read of the limit is one the form has carried, and whoever is past its second count was counted with all that are accepted. `NumberInv`: the counter is ahead of every number given out. `OpenInv`: the look a submission relies on was at an open form. `RemainInv`: a refused response is gone or about to go. `ContractHolds`: each step is a step of IntakeContract under the mapping, or changes nothing of it. `StageInv`, for the last two, is described below |
| SubmissionProofs | `TypesHold`, `LettersHold`, `FormLettersFixed`, `UnmovedNeverShare`, `SafeAlways`, `ContractKept` | `LettersInv`: letters written once are never written again, by the condition of the write and not by the probe before it. `ShareInv`, under no move yet: a number belongs to a form, a form's letters to its workspace, and the counter is ahead of both. The last two go by the part followed: the theorems of FormDeskProofs hold of the instance `Pipe`, a desk with no stages |
| UpkeepProofs | `QueueRunsApart`, `QueueFilesWhole`, `ConsoleStays` | three invariants, described below |
| StorageProofs | `CounterKept`; `PurgesLeaveNothing`, `SweepSparesRecent` | `CounterInv` is described below. `OrphanInv`: what still refers to a purged form is on the list of the purge under way, was written by somebody late, or waits for a later step of the same cascade. `RipeInv`: what the sweep has on its list was ripe when it was read |
| BuilderProofs | `SavesStay`, `ContentStays`, `EditsKept`; `LooksKept`, `CopiesWhole`, `SharesMoveOn`, `MovesClean`, `ViewsGone`, `StoredKept` | `EditInv`: the copy on a screen is the content of some version no newer than the form's; a request under way is about the save the screen sent; a save id is written once; an acknowledged save is in the content or was replaced by one that had seen it. `EditsKept` also needs `LinkInv` under `OnePublisher`. `KeepingInv` is described below |
| WorkspaceProofs | `UsedOnce`, `RolesStay`, `AccessDecided`, `RolesOnlyGiven`, `KeptStays`, `BarsCount` | `RowsInv`, `UseInv`: an accepted invitation has one row that came of it, whoever is in between. `PeopleInv` and `OwnerInv` under `OneManager`: what a request about roles has read is still so. `AccessDecided` holds of any tables, those the writers leave half done included. `KeptInv`: what a request has counted, read or has on its screen. `LooksInv` is described below |
| HandlingProofs | `NothingLeftOver`, `EverybodyTold`, `DeletionsKeep`, `EverythingPlaced` | `TagInv`: a tag on a response that is gone, about to go or merged without that response was put there late. `DefaultInv`: a form with criteria has a default no deletion is under way for, and before the first seed no request has got further. `NoteInv`: what holds of the note's mentions holds of those an edit has read. `AsRead`: as long as no other request has touched a column, a placement in hand knows its cards and numbers as they are; `Holding`: its two neighbours are next to each other in the order of what it read. That numbering a column keeps its order (`FreshKeeps`) is that the cards down to one of them are fewer than those down to a lower one |
| IdentityProofs | `LimitsHold`, `ProvenOnly`, `ServiceHolds`, `NothingComesBack` | `IdentityInv`, the conjunction of `ProofInv` (tries counted, codes and tickets spent), `EntryInv` (suspension, guesses, the reveal, mails in a window) and `LinksInv` (who opened, claimed, corrected, by which link) |

*The queue* (`QueueInv`). A job is held by at most one turn and is processing while
it is; a turn that was told a slot is free is counted; the counter `running` is the
number of turns that generate; a completed report has its file and its document
names it. The end of a generator frees one turn and calls the drain that takes
another, in one step, so the parts about turns take the turns as a parameter and are
proved of the state between. `QueueRunsApart` needs `RecoveryAssumption`.

*The storage counter* (`CounterInv`). The counter lags behind the documents while
requests are between their steps, so it is not compared with the usage but with what
has been *paid*: there is a function from documents to bytes such that the counter of
every account that is trusted (not `crossed`, not `met`) is the total paid for its
documents (`BooksInv`). A document no request is at work on has been paid for in full,
and of one that is the stage of the request says what has been paid (`Accounted`). The
function is no variable of the model; each action has a new one as its witness.
`WorkInv`: no two requests are at work on a trusted account's documents, and a form's
answers go before the form. `MeterInv`: a measurement nothing disturbed has an account
at rest for itself, and what it has read is so; what it sets is the usage. A handover
keeps all this because both accounts are measured at once, each alone, or are not
trusted. `RoomInv`, where nothing is measured: what is stored or about to be, and is
not leaving, has been paid for under the ceiling or has a request of its own at work on
it; that no two such documents share a request is an injection into the requests. Sums
over sets need no induction here: the bytes of documents are a set of pairs
(`Bits`), a sum is its cardinality, and what sums must satisfy (`TotalSplit`,
`TotalChange`, `TotalLeast`) follows from the library's facts about unions, products
and subsets of finite sets. The proof found `OverageBounded`, as it stood, true of one
form only: section 7 says why `Leaving` is left out of it. Moves of forms end the claim
(`moves = 0`), as in the code.

*The answers* (`AnswersInv`). The questions of a form have ids of their own and its rules
lead to other questions of it that are not required where they hide (`Sound`). `Keys` is
a recursive function of the place in the form, each key made of those before it
(`KeyAfter`). That there is such a function is shown by least counterexample (the least
natural number comes from the order of finite sets), that two live questions have two
keys by where the search for a number ends: of `2 * Len(F) + 1` numbers at most
`2 * Len(F)` are a key or a label (`NumberFree`). A save only moves the questions
(`Merged` is a permutation of them, `MergedShuffles`), so a sound form stays one. From
the keys follow both halves of `StoredHolds`: what is sent under a key is what its
question was answered (`ReadsBack`); and a required question that shows by what is
stored showed by what was sent, because to take answers out meets no rule, and no rule
that hides leads to a required question (`StrippedComplete`).

*Stages* (`StageInv`). A request about stages reads for several round trips and then
writes, and nothing locks. `Found` is what holds whatever meets: an id once in use is
never unused again, the stage a delete has looked up is no default, the stages a setup
has found were the form's. `Relies` is what holds where no two requests met of which
one changes stages, so that whoever changes them is alone: what was read is still so,
step by step. `Seats` says where the responses are while a change of category or a
setup is between its stages and its responses: on a stage it will keep. Submissions and
moves do run beside each other, and the proof shows that none spoils what another has
read. `Steady` is the step for everybody else: no default is taken away by any request.

*The console's accounts* (`ConsoleInv`). A request goes through five stores and
relies all the way on what it has read or written. For each kind of request a part
of the invariant says what that is, as long as no other has crossed it; for each row
another says which stores agree, as long as nothing marked it. The step of a request
either leaves alone all that another relies on or marks all of it as stray
(`StepMarks`), so that two lemmas per action are enough: what it does to its own
request, and what it does to the row. Among accounts it needs that no two requests
make the same one. The attempt to prove `LoginsAgree` as it stood failed for a good
reason, out of the bounds of the run at the time: a sign-in binds a suspended row
to a new login before it looks at the status. The source does exactly that;
`Rebound` names these rows, section 7 the behaviour.

*The console's ledger* (`LedgerInv`). What has been changed and not yet written down
is at most what the operators have under way: a step adds one change and one
operator, or takes both away (`Counted`).

*Keeping* (`KeepingInv`, one part for each part that is followed). `SharesInv`: while
a form is about to be saved, every share in force was written since the shares ended,
so the save makes none of them a share of the old place but one marked `late`.
`ToldInv`: a request to share that found a role before it writes relies on somebody
else's notification, which was sent or is about to be. `PinsInv` needs one move of the
form at a time (`OneMover`): pins are with the form until it is saved, and from then on
it is where the move takes the pins. `SharesMoveOn` is what holds without. `DefaultInv`:
what somebody has loaded is an earlier version of the default view or the one there is.
`RoomInv`: what is kept up to a number is counted with the requests that passed the
count and have not written. `FormCopiesInv`: no field was numbered that was not made,
`FreshNumbers`: those a template gives are one each and new.

*Charts* (`LooksInv`). What a run has read is what the form and its responses give now
as long as nothing changed since it began to read (`ReadNow`); what is kept, or was
told, is good of the chart it is about: every bar counts the responses it opens and
everybody who answered is behind one. The counter of runs is the number of runs under
way, so a run that ends in any manner gives its place back once. Two kinds of argument
are about data. *Ranges*: the least and the greatest number, and the shortest nice step
that reaches from one to the other in five (`RangesCover`), so that every
number falls into exactly one range and the range's filter agrees with its count.
*Top bars*: that there is such a selection at all. Neither needs induction over the data
itself: that inclusion of finite sets is well founded (`WFMin` of the library) gives the
least of a set of numbers and, among the selections of bars, a best one. Numbers have
one decimal, are counted in hundredths and lie within `MaxNumber` of zero: as far as
`NiceSteps` reaches; the steps of the code go on.

What is assumed of the constants is named where they are declared, and TLC evaluates
it in the runs: `IntakeAssumption`, `ReferencesAssumption`, `SubmissionAssumption`,
`QueueAssumption`, `RecoveryAssumption`, `UpkeepAssumption` (rows and logins are
numbered, 1 among them), `RetentionAssumption`, `EditingAssumption`,
`MembershipAssumption`, `AccessAssumption`, `IdentityAssumption`,
`SignedLinksAssumption`, `StagesAssumption`, `HandlingAssumption` (with those of Triage, Board, Scores and Notes), `DashboardsAssumption`, `ChartsAssumption`,
`MovingAssumption`, `KeepingAssumption` (with those of Looks, Copies and Answers),
`StorageConstants` (the `StorageAssumption` of the instance: every form has answers it may
get, no size is zero, every scene is of the type of scenes). They say that bounds are numbers, that a marker such as
`None` is not one of the things it is the absence of, and in a few places that a set
is finite. `OneManager`, `OnePublisher` and `OneMover` are hypotheses of the theorems that need
them and of no other; section 7 says what happens without.

Only model-checked:

* liveness (`EverybodyAnswered`, `FullFormCloses`, `RecoveredEnds`, `DriftRepaired`,
  `ExpiredPurged`): ENABLED and fairness are out of this prover's reach.

## 6. Fairness

* submission: weak fairness of the steps of each request that has arrived,
  because Node runs a continuation once its call is answered. None for arrivals,
  edits, failures, the clock or the sweep. `FullFormCloses` therefore holds
  without a timer: the submission that takes the last place closes the form.
* background: in the recovery scene, weak fairness of each ticket, of scheduled
  drains (`setImmediate`), of the two steps of `createReport` that follow its
  count, and of restarts (pm2 or Docker starts a dead server). None for crashes,
  errors, retries, time, operators.
* storage: in the repair scene, weak fairness of the request under way and of a
  running measurement, strong fairness of the daily measurement of each account:
  it starts again every day, so it cannot be missed for ever because one was under
  way at the moment.
* retention: weak fairness of a purge that has begun and of the timer's sweep,
  which is started again every day. None for members.
* All other specifications state safety only.

## 7. Where code and comment differ

Two differences are runs of their own, with the trace TLC finds.

1. `queue_lost_by_restart` (`RestartLosesNothing`). `services/reportQueue.ts:6`:
   "a restart loses nothing". Recovery runs once, at start, and skips jobs
   touched in the last 15 minutes; nothing looks at them again.
2. `answers_corrected` (`CorrectedAlone`).
   `__tests__/answers_same_label.test.ts:2`: "Each question now has its own
   storage key". A correction is stored under the question's label, so that the
   second of two questions with one label overwrites the answer of the first.

The other promises the code keeps only in part. Those with a name are stated in the
module they belong to, fail on small constants and are checked in no run; the runs
and theorems state what remains true.

*Submission, stages.* `ClosedIsOwnersChoice` (`utils/formUnavailable.ts:1`): two
surplus submissions undo each other and the form stays closed with a place free.
`DraftStaysHidden` (`utils/formUnavailable.ts:2`): a check that found the closing
date passed closes a form that was unpublished meanwhile. `GoingLiveKeepsLimit`
(`services/form.service.ts:527`): the settings object read earlier is written
whole. `NoTwoShare` (`services/reference.service.ts:22`): a moved form keeps its
letters, and the next form that takes them in the workspace it left starts at 1.
`RefusedChangesNothing` (`__tests__/response_setup.test.ts:144`): a setup save that
loses the version has already changed stages. `StatusNeverDrifts`,
`NoResponseLost`, `OneDefault`, `CategoriesKept` (`services/stage.service.ts:115`,
`:166`, `:41`, `:161`): moves, submissions, first looks and deletes of stages each
decide on what they read before.

*Export queue.* `QueuedIsPickedUp` (`services/reportQueue.ts:4`): a kick that meets
a drain in its last round is dropped. `OneRunPerJob` needs that one process
recovers: a process that starts while another has been writing one report for more
than 15 minutes puts it back in line.

*Storage.* `NoWriteErased` (`services/storage.service.ts:295`): the correction is
another round trip after the check. After a move of a form `CounterIsUsage` waits
for the next measurement. A purge gives back the bytes of all its answers and deletes
them in the next round trip: in between, submissions to another form of the account may
take the room, so that for a moment the account stores its ceiling, a document per
request and all that is about to go. `OverageBounded` leaves out what a purge has given
back (`Leaving`); with a single form there is nobody to take the room.

*Retention.* `SweepSparesTrashedForms` (`services/trash.service.ts:303`): the sweep
of responses takes one whose form is in Trash. A form or response restored after
the batch was read is purged. Late submissions and notes remain as orphans. An
account whose cascade stops cannot be closed again by its owner.

*Workspaces.* With `OneManager = FALSE` the owner's guards are decided on stale rows
and `SomeOwner` fails: two owners leave at once, or one is demoted while it becomes
the owner. An acceptance writes the role read before; revoke and decline save over
a claim; an owner who left is given the row back by the middleware's heal.

*Editing.* `NothingOverwritten` (`services/staleForm.ts:1`): setting the status by
PATCH and publishing with choices write content without its version. With
`OnePublisher = FALSE` two first publishes give two links, and a publish may undo a
replaced link. A retry after somebody else's save is told stale although it was
stored.

*Handling.* Unassigning by id takes an assignee given meanwhile. Offboarding misses
responses in Trash and of trashed forms; leaving does not unassign. A tag put on
while it is deleted dangles; two retags keep one. Two first looks seed two default
criteria. A rank written while its card changes stage goes along. `TopIsTop`
(`validations/response.validator.ts`): the top of a column read earlier.

*Identity.* Parallel tries pass the maximum by one each; a right code is taken after
a parallel try locked it; a proof is spent by a submission that is refused later.
Two reveals of one ticket both succeed. Two links issued side by side are both
valid. Corrections side by side keep one of the two. A claim that is cut short has
used the link up. A sign-in that read the account before its suspension makes a
session that stays. "30 seconds between mails" is a fixed window.

*Keeping.* A share that overlaps a move lands after it; a move that is refused or cut
loses the shares and keeps the form. `updateView` turns a personal view into the
team's. A repeated save of the default is told stale. `OwnAnswers` (`answerKeys.ts`,
"must not borrow") fails for the labels `Lookalike` describes. `TemplatesUsable`
(`controllers/template.controller.ts:273`): a rule to a removed question makes a
template no form can be made of.

*Charts.* Days over a year are grouped by week into a bar whose click lists nothing;
an answer may be 45 seconds old; overlapping updates of one chart give one version
with mixed content; a layout removed and made anew starts at version 1 again; the
limit of charts is passed by requests side by side.

*Console.* Making an account beside its deletion leaves a workspace or Membership
without owner; changes of the status that cross, or a refusal of the provider,
leave status and login apart; a sign-in reaches a suspended row by a new login and
binds it before the status is looked at, so that a suspended account has an enabled
login (`Rebound`, which `LoginsAgree` leaves out since the proof of section 5 found
it); a deletion the provider refused leaves a login that makes a new account at the
next sign-in; two deletions of one template or workspace are both written down; a
process that stops between a change and its audit row leaves none
(`services/superadminOps.service.ts`, "Every mutation writes an AuditLog row").

The runs stay clear of these by what their properties excuse, never by leaving the
step out: `SharedOnlyAfterMove` exempts moves, `crossed`, `met`, `raced`, `stray`
exempt what met a conflicting writer. Three constants restrict the specification
itself, each documented where it is declared: `Recoverers` has one process, as
`services/backgroundJobs.ts:3` asks ("only one process should be running these");
`OneManager`, `OnePublisher` and `OneMover` let requests about roles, about the
link and about one form's place come one at a time.

## 8. What is not modelled, and the plan

Not modelled: mail, notifications, events and activity (fire and forget);
graceful shutdown; analytics, search and response lists (reads); uploads, link
previews, photo search and exports (I/O); input validation and formatting (pure
functions); scripts and migrations. Inside the modelled components `PROJECT.json`
names under each `note` what is left out.

What is left to do: the components marked as partly modelled, by their notes. Every safety
invariant and action property that a run checks is stated by a theorem; the liveness
properties stay with TLC.
