-------------------------------- MODULE Upkeep --------------------------------
(* What the operators keep an eye on: the export queue (ReportQueue), the        *)
(* accounts behind the console (Console) and the console's other changes         *)
(* (Ledger).  The three are followed one at a time, and the queue in two scenes  *)
(* with bounds of their own: processes side by side ("beside"), and one process  *)
(* that dies and takes up stale jobs when it starts again ("recovery").          *)
EXTENDS ReportQueue

CONSTANTS
  Rows, Logins, Requests, MaxRequests, MaxRefusals,                        \* Console
  Things, Sort, Operators, MaxChanges                                      \* Ledger

VARIABLES
  desk, part,                                                              \* what is followed
  login, row, uid, spaces, members, homes, sessions, audit, task, asked, refusals,
  effects, stray,                                                          \* Console
  there, named, entries, doing, begun, changed                             \* Ledger

Desk == INSTANCE Console WITH job <- task, faults <- refusals, MaxFaults <- MaxRefusals
Book == INSTANCE Ledger

ASSUME UpkeepAssumption == Desk!ConsoleAssumption /\ Book!LedgerAssumption

backgroundVars == <<part, vars>>

\* backgroundJobs.ts: BACKGROUND_JOBS is off in a second process, so that only one recovers.
ASSUME RecoveryAssumption == \A p, q \in Recoverers : p = q

\* Bounds of the scenes: with several processes nothing grows stale and one thing
\* goes wrong; the process that recovers works alone.
Scene ==
  /\ part = "beside" => now = 0 /\ errors + crashes <= 1
  /\ part = "recovery" => kicked \subseteq Recoverers /\ Procs \ Recoverers \subseteq up

BackgroundInit ==
  /\ part \in {"beside", "recovery"}
  /\ Init
  /\ part = "recovery" => \A j \in Jobs : home[j] \in Recoverers

Queueing(step) == UNCHANGED part /\ step /\ Scene'

BackgroundNext == Queueing(Next)

Recovering(step) == part = "recovery" /\ Queueing(step)

deskVars == <<login, row, uid, spaces, members, homes, sessions, audit, task, asked, refusals,
              effects, stray>>
bookVars == <<there, named, entries, doing, begun, changed>>
upkeepVars == <<desk, backgroundVars, deskVars, bookVars>>

\* What is not followed stands still, in one state.
UpkeepInit ==
  /\ desk \in {"queue", "accounts", "console"}
  /\ BackgroundInit /\ Desk!ConsoleInit /\ Book!LedgerInit
  /\ desk # "queue" => part = "recovery"
  /\ desk # "accounts" => login = [l \in Logins |-> "none"]
  /\ desk # "console" => there = Things

Exporting(step) == desk = "queue" /\ UNCHANGED <<desk, deskVars, bookVars>> /\ step

UpkeepNext ==
  \/ Exporting(BackgroundNext)
  \/ desk = "accounts" /\ UNCHANGED <<desk, backgroundVars, bookVars>> /\ Desk!ConsoleNext
  \/ desk = "console" /\ UNCHANGED <<desk, backgroundVars, deskVars>> /\ Book!LedgerNext

\* A live process runs what it scheduled and is started again when it died.
Fairly(step) == Exporting(Recovering(step))
UpkeepSpec ==
  /\ UpkeepInit /\ [][UpkeepNext]_upkeepVars
  /\ \A p \in Recoverers, t \in Tickets : WF_upkeepVars(Fairly(Work(p, t)))
  /\ \A p \in Recoverers : WF_upkeepVars(Fairly(Drain(p))) /\ WF_upkeepVars(Fairly(Restart(p)))
  /\ \A j \in Jobs : WF_upkeepVars(Fairly(Insert(j))) /\ WF_upkeepVars(Fairly(Kick(j)))

\* Where the processes are fair, every job whose generator started ends completed or
\* failed (StartedEnds of ReportQueue).
RecoveredEnds ==
  \A j \in Jobs :
    part = "recovery" /\ ~Hurt /\ Runs(j) # {} ~> report[j].status \in {"completed", "failed"} \/ Hurt

\* A report has one run at a time but for what a restart took up again, and no process
\* has more runs than it allows itself (ReportQueue).
RunsApart == desk = "queue" => OneRunPerJob /\ ConcurrencyHeld

\* Whatever fails, dies and is tried again, what is offered is a whole file, and a retry
\* starts from a clean row (ReportQueue).
FilesWhole == desk = "queue" => TypeOK /\ CompletedIsWhole /\ RetryIsClean

\* The stores of an account agree, what was deleted is gone from all of them, and the audit
\* log tells of every change and of no other (Console, Ledger).
ConsoleHolds ==
  /\ desk = "accounts" =>
       Desk!ConsoleTypeOK /\ Desk!AccountsWhole /\ Desk!LoginsAgree /\ Desk!Audited
  /\ desk = "console" => Book!LedgerHolds /\ Book!ReachHolds

\* For model checking, one thing of every sort the console works on.
MCThings == {"template", "own", "account", "session", "export", "workspace"}
MCSort == [x \in MCThings |-> x]
==============================================================================
