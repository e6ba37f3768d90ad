----------------------------- MODULE ReportQueue -----------------------------
(***************************************************************************)
(* The export queue.  Jobs are documents of the Report collection; every   *)
(* server process drains the queue with at most Concurrency generators,    *)
(* a process that starts puts stale jobs back in line, and a super admin   *)
(* may retry a failed one.                                                 *)
(*                                                                         *)
(* A ticket stands for one turn of drain's loop and for the generator it   *)
(* starts: the claim is sent (ask), answered by the database (told), and   *)
(* the report is loaded, marked, written and saved.                        *)
(***************************************************************************)
EXTENDS Naturals, FiniteSets

CONSTANTS
  Jobs,          (* reports that may be asked for                           *)
  Procs,         (* server processes on the same database                   *)
  Recoverers,    (* those with BACKGROUND_JOBS on                           *)
  Tickets,       (* turns of the loop a process may have under way          *)
  NoJob,
  Concurrency,   (* REPORT_CONCURRENCY                                      *)
  Cap,           (* in-flight reports above which createReport answers 429  *)
  StaleAge,      (* staleMs of recoverReportQueue                           *)
  MaxTime, MaxCrashes, MaxErrors, MaxRetries   (* bounds *)

ASSUME QueueAssumption ==
  /\ Recoverers \subseteq Procs /\ NoJob \notin Jobs /\ IsFiniteSet(Tickets)
  /\ Concurrency \in Nat \ {0} /\ Cap \in Nat \ {0} /\ StaleAge \in Nat
  /\ MaxTime \in Nat /\ MaxCrashes \in Nat /\ MaxErrors \in Nat /\ MaxRetries \in Nat

Statuses == {"none", "queued", "processing", "completed", "failed"}
Stages == {"free", "ask", "told", "load", "mark", "open", "write", "save", "excuse"}

VARIABLES
  report,     (* each job's document: status, age order, updatedAt          *)
  file,       (* each job's file: none, partial, whole                      *)
  request,    (* each job's createReport: none, counted, stored, kicked, done *)
  home,       (* the process that serves it                                 *)
  up,         (* processes alive                                            *)
  kicked,     (* a drain is scheduled with setImmediate                     *)
  draining,   (* the module variable of that name                           *)
  running,    (* the module variable of that name                           *)
  ticket,     (* what each turn of the loop is doing                        *)
  now, made, crashes, errors, retries

vars == <<report, file, request, home, up, kicked, draining, running, ticket,
          now, made, crashes, errors, retries>>
procVars == <<up, kicked, draining, running, ticket>>
bounds == <<crashes, errors, retries>>

Idle == [at |-> "free", job |-> NoJob, saw |-> "none"]
Generating == {"load", "mark", "open", "write", "save", "excuse"}
Runs(j) == {r \in Procs \X Tickets : ticket[r[1]][r[2]].job = j /\ ticket[r[1]][r[2]].at \in Generating}
Busy(p) == {t \in Tickets : ticket[p][t].at \in Generating}
Free(p) == {t \in Tickets : ticket[p][t].at = "free"}
InFlight == {j \in Jobs : report[j].status \in {"queued", "processing"}}
Queued == {j \in Jobs : report[j].status = "queued"}

Init ==
  /\ report = [j \in Jobs |-> [status |-> "none", age |-> 0, updated |-> 0]]
  /\ file = [j \in Jobs |-> "none"]
  /\ request = [j \in Jobs |-> "none"] /\ home \in [Jobs -> Procs]
  /\ up = Procs /\ kicked = {} /\ draining = {}
  /\ running = [p \in Procs |-> 0]
  /\ ticket = [p \in Procs |-> [t \in Tickets |-> Idle]]
  /\ now = 0 /\ made = 0 /\ crashes = 0 /\ errors = 0 /\ retries = 0

Write(j, status) == report' = [report EXCEPT ![j].status = status, ![j].updated = now]
Turn(p, t, at) == ticket' = [ticket EXCEPT ![p][t].at = at]
-----------------------------------------------------------------------------
(* createReport: count, insert, kick, count the rows. *)

Count(j) ==
  /\ request[j] = "none" /\ home[j] \in up
  /\ Cardinality(InFlight) < Cap
  /\ request' = [request EXCEPT ![j] = "counted"]
  /\ UNCHANGED <<report, file, home, procVars, now, made, bounds>>

Insert(j) ==
  /\ request[j] = "counted" /\ home[j] \in up
  /\ request' = [request EXCEPT ![j] = "stored"]
  /\ made' = made + 1
  /\ report' = [report EXCEPT ![j] = [status |-> "queued", age |-> made', updated |-> now]]
  /\ UNCHANGED <<file, home, procVars, now, bounds>>

Kick(j) ==
  /\ request[j] = "stored" /\ home[j] \in up
  /\ request' = [request EXCEPT ![j] = "kicked"]
  /\ kicked' = kicked \cup {home[j]}
  /\ UNCHANGED <<report, file, home, up, draining, running, ticket, now, made, bounds>>

\* The row count for the audit trail is written last, and makes the job look fresh.
RowCount(j) ==
  /\ request[j] = "kicked" /\ home[j] \in up
  /\ request' = [request EXCEPT ![j] = "done"]
  /\ Write(j, report[j].status)
  /\ UNCHANGED <<file, home, procVars, now, made, bounds>>

\* retryExport: only a failed job goes back in line.
Retry(j, p) ==
  /\ report[j].status = "failed" /\ p \in up /\ retries < MaxRetries
  /\ Write(j, "queued")
  /\ kicked' = kicked \cup {p}
  /\ retries' = retries + 1
  /\ UNCHANGED <<file, request, home, up, draining, running, ticket, now, made, crashes, errors>>
-----------------------------------------------------------------------------
(* drain *)

\* The head of the loop: with a slot free another claim is sent, else the loop ends.
Loop(p, run, tickets) ==
  /\ running' = [running EXCEPT ![p] = run]
  /\ IF run < Concurrency
     THEN LET free == {t \in Tickets : tickets[p][t].at = "free"}
          IN /\ free # {}
             /\ ticket' = [tickets EXCEPT ![p][CHOOSE t \in free : TRUE].at = "ask"]
             /\ draining' = draining \cup {p}
     ELSE ticket' = tickets /\ draining' = draining \ {p}

\* Variant: the draining flag is not looked at.
EnterAlways(p, run, tickets) ==
  IF Free(p) = {} THEN ticket' = tickets /\ running' = [running EXCEPT ![p] = run] /\ UNCHANGED draining
  ELSE Loop(p, run, tickets)

\* A call of drain while a drain is under way does nothing.
Enter(p, run, tickets) ==
  IF p \in draining
  THEN /\ running' = [running EXCEPT ![p] = run]
       /\ ticket' = tickets /\ UNCHANGED draining
  ELSE Loop(p, run, tickets)

Drain(p) ==
  /\ p \in kicked
  /\ kicked' = kicked \ {p}
  /\ Enter(p, running[p], ticket)
  /\ UNCHANGED <<report, file, request, home, up, now, made, bounds>>

\* Variant: the claim leaves the job queued until its generator marks it.
ClaimLater(p, t) ==
  /\ ticket[p][t].at = "ask"
  /\ \/ /\ Queued = {}
        /\ Turn(p, t, "told") /\ UNCHANGED report
     \/ \E j \in Queued :
          /\ \A k \in Queued : report[j].age <= report[k].age
          /\ UNCHANGED report
          /\ ticket' = [ticket EXCEPT ![p][t] = [at |-> "told", job |-> j, saw |-> "none"]]
  /\ UNCHANGED <<file, request, home, up, kicked, draining, running, now, made, bounds>>

\* Variant: the claim takes the oldest unfinished job, running or not.
ClaimUnfinished(p, t) ==
  /\ ticket[p][t].at = "ask"
  /\ \/ InFlight = {} /\ Turn(p, t, "told") /\ UNCHANGED report
     \/ \E j \in InFlight :
          /\ \A k \in InFlight : report[j].age <= report[k].age
          /\ Write(j, "processing")
          /\ ticket' = [ticket EXCEPT ![p][t] = [at |-> "told", job |-> j, saw |-> "none"]]
  /\ UNCHANGED <<file, request, home, up, kicked, draining, running, now, made, bounds>>

\* findOneAndUpdate: the oldest queued job becomes ours in one step.
Claim(p, t) ==
  /\ ticket[p][t].at = "ask"
  /\ \/ /\ Queued = {}
        /\ Turn(p, t, "told") /\ UNCHANGED report
     \/ \E j \in Queued :
          /\ \A k \in Queued : report[j].age <= report[k].age
          /\ Write(j, "processing")
          /\ ticket' = [ticket EXCEPT ![p][t] = [at |-> "told", job |-> j, saw |-> "none"]]
  /\ UNCHANGED <<file, request, home, up, kicked, draining, running, now, made, bounds>>

\* The answer arrives: no job ends the loop, a job starts a generator and the loop goes on.
Told(p, t) ==
  /\ ticket[p][t].at = "told"
  /\ IF ticket[p][t].job = NoJob
     THEN /\ ticket' = [ticket EXCEPT ![p][t] = Idle]
          /\ draining' = draining \ {p} /\ UNCHANGED running
     ELSE Loop(p, running[p] + 1, [ticket EXCEPT ![p][t].at = "load"])
  /\ UNCHANGED <<report, file, request, home, up, kicked, now, made, bounds>>

\* The claim fails, before or after the database carried it out.
ClaimError(p, t) ==
  /\ ticket[p][t].at \in {"ask", "told"} /\ errors < MaxErrors
  /\ errors' = errors + 1
  /\ ticket' = [ticket EXCEPT ![p][t] = Idle]
  /\ draining' = draining \ {p}
  /\ UNCHANGED <<report, file, request, home, up, kicked, running, now, made, crashes, retries>>
-----------------------------------------------------------------------------
(* generateReportAsync.  Its end, whatever the outcome, frees the slot and   *)
(* calls drain.                                                              *)

\* Variant: the slot is given back by the catch block and once more at the end.
EndTwice(p, t) == Enter(p, running[p] - (IF ticket[p][t].at = "excuse" THEN 2 ELSE 1),
                        [ticket EXCEPT ![p][t] = Idle])

End(p, t) == Enter(p, running[p] - 1, [ticket EXCEPT ![p][t] = Idle])

\* findById: a job finished meanwhile is left alone.
Load(p, t) ==
  LET status == report[ticket[p][t].job].status
  IN /\ ticket[p][t].at = "load"
     /\ IF status \in {"completed", "failed"} THEN End(p, t)
        ELSE /\ ticket' = [ticket EXCEPT ![p][t].at = "mark", ![p][t].saw = status]
             /\ UNCHANGED <<running, draining>>
     /\ UNCHANGED <<report, file, request, home, up, kicked, now, made, bounds>>

\* save writes the status only if the document read had another one.
Mark(p, t) ==
  LET tk == ticket[p][t]
  IN /\ tk.at = "mark"
     /\ IF tk.saw = "processing" THEN UNCHANGED report ELSE Write(tk.job, "processing")
     /\ Turn(p, t, "open")
     /\ UNCHANGED <<file, request, home, up, kicked, draining, running, now, made, bounds>>

\* createWriteStream truncates <id>.<format>, the same path for every run of the job.
Open(p, t) ==
  /\ ticket[p][t].at = "open"
  /\ file' = [file EXCEPT ![ticket[p][t].job] = "partial"]
  /\ Turn(p, t, "write")
  /\ UNCHANGED <<report, request, home, up, kicked, draining, running, now, made, bounds>>

\* The stream is finished.
Close(p, t) ==
  LET j == ticket[p][t].job
      others == {r \in Runs(j) : r # <<p, t>> /\ ticket[r[1]][r[2]].at = "write"}
  IN /\ ticket[p][t].at = "write"
     /\ file' = [file EXCEPT ![j] = IF others = {} THEN "whole" ELSE "partial"]
     /\ Turn(p, t, "save")
     /\ UNCHANGED <<report, request, home, up, kicked, draining, running, now, made, bounds>>

\* Variant: saved as completed while the stream is still being written.
SaveEarly(p, t) ==
  /\ ticket[p][t].at \in {"write", "save"}
  /\ Write(ticket[p][t].job, "completed")
  /\ End(p, t)
  /\ UNCHANGED <<file, request, home, up, kicked, now, made, bounds>>

Save(p, t) ==
  /\ ticket[p][t].at = "save"
  /\ Write(ticket[p][t].job, "completed")
  /\ End(p, t)
  /\ UNCHANGED <<file, request, home, up, kicked, now, made, bounds>>

\* Something throws on the way.
Throw(p, t) ==
  /\ ticket[p][t].at \in {"load", "mark", "open", "write", "save"} /\ errors < MaxErrors
  /\ errors' = errors + 1
  /\ Turn(p, t, "excuse")
  /\ UNCHANGED <<report, file, request, home, up, kicked, draining, running, now, made, crashes, retries>>

\* Variant: the error is swallowed without a word in the document.
ExcuseSilently(p, t) ==
  /\ ticket[p][t].at = "excuse"
  /\ UNCHANGED report
  /\ End(p, t)
  /\ UNCHANGED <<file, request, home, up, kicked, now, made, bounds>>

\* The catch block marks the job failed, whatever it is by now.
Excuse(p, t) ==
  /\ ticket[p][t].at = "excuse"
  /\ Write(ticket[p][t].job, "failed")
  /\ End(p, t)
  /\ UNCHANGED <<file, request, home, up, kicked, now, made, bounds>>

\* Writing the failure down fails as well: ignored, the job stays as it is.
ExcuseFails(p, t) ==
  /\ ticket[p][t].at = "excuse" /\ errors < MaxErrors
  /\ errors' = errors + 1
  /\ End(p, t)
  /\ UNCHANGED <<report, file, request, home, up, kicked, now, made, crashes, retries>>

Work(p, t) ==
  \/ Claim(p, t) \/ Told(p, t) \/ Load(p, t) \/ Mark(p, t)
  \/ Open(p, t) \/ Close(p, t) \/ Save(p, t) \/ Excuse(p, t)
-----------------------------------------------------------------------------
(* Processes and time. *)

\* All that was in memory is gone; a request not yet stored is gone with it.
Crash(p) ==
  /\ p \in up /\ crashes < MaxCrashes
  /\ crashes' = crashes + 1
  /\ up' = up \ {p} /\ kicked' = kicked \ {p} /\ draining' = draining \ {p}
  /\ running' = [running EXCEPT ![p] = 0]
  /\ ticket' = [ticket EXCEPT ![p] = [t \in Tickets |-> Idle]]
  /\ request' = [j \in Jobs |-> IF home[j] = p /\ request[j] # "none" THEN "done" ELSE request[j]]
  /\ UNCHANGED <<report, file, home, now, made, errors, retries>>

Stale(j) == report[j].status = "processing" /\ report[j].updated + StaleAge < now

\* The server starts; with background jobs on it recovers the queue and kicks it.
Restart(p) ==
  /\ p \notin up
  /\ up' = up \cup {p}
  /\ IF p \in Recoverers
     THEN /\ report' = [j \in Jobs |->
                          IF Stale(j) THEN [report[j] EXCEPT !.status = "queued", !.updated = now]
                          ELSE report[j]]
          /\ kicked' = kicked \cup {p}
     ELSE UNCHANGED <<report, kicked>>
  /\ UNCHANGED <<file, request, home, draining, running, ticket, now, made, bounds>>

Tick ==
  /\ now < MaxTime
  /\ now' = now + 1
  /\ UNCHANGED <<report, file, request, home, procVars, made, bounds>>

Next ==
  \/ \E j \in Jobs : Count(j) \/ Insert(j) \/ Kick(j) \/ RowCount(j) \/ (\E p \in Procs : Retry(j, p))
  \/ \E p \in Procs : Drain(p) \/ Crash(p) \/ Restart(p)
  \/ \E p \in Procs, t \in Tickets : Work(p, t) \/ ClaimError(p, t) \/ Throw(p, t) \/ ExcuseFails(p, t)
  \/ Tick

Spec == Init /\ [][Next]_vars

\* A live process runs what it scheduled, and the process manager restarts a dead one.
Fairness ==
  /\ \A p \in Procs, t \in Tickets : WF_vars(Work(p, t))
  /\ \A p \in Procs : WF_vars(Drain(p)) /\ WF_vars(Restart(p))
  /\ \A j \in Jobs : WF_vars(Insert(j)) /\ WF_vars(Kick(j))
FairSpec == Spec /\ Fairness
-----------------------------------------------------------------------------
(* Properties. *)

TypeOK ==
  /\ report \in [Jobs -> [status: Statuses, age: Nat, updated: Nat]]
  /\ file \in [Jobs -> {"none", "partial", "whole"}]
  /\ request \in [Jobs -> {"none", "counted", "stored", "kicked", "done"}] /\ home \in [Jobs -> Procs]
  /\ up \subseteq Procs /\ kicked \subseteq up /\ draining \subseteq up
  /\ running \in [Procs -> Nat]
  /\ ticket \in [Procs -> [Tickets -> [at: Stages, job: Jobs \cup {NoJob}, saw: Statuses]]]
  /\ now \in Nat /\ made \in Nat /\ crashes \in Nat /\ errors \in Nat /\ retries \in Nat

\* However kicks, ends and answers interleave with the await in drain's loop, a
\* process runs at most Concurrency generators and its counter tells how many.
ConcurrencyHeld == \A p \in Procs : running[p] <= Concurrency /\ Cardinality(Busy(p)) = running[p]

\* reportQueue.ts: the atomic claim means two ticks or two processes never run one job.
OneRunPerJob == \A j \in Jobs : Cardinality(Runs(j)) <= 1

\* A report offered for download has its whole file on disk.
CompletedIsWhole == \A j \in Jobs : report[j].status = "completed" => file[j] = "whole"

\* A failed job keeps no generator, so retrying it starts a clean run.
RetryIsClean == \A j \in Jobs : report[j].status \in {"failed", "queued"} => Runs(j) = {}

\* A job whose generator started ends completed or failed, an error included, unless
\* a process crashes (RestartLosesNothing's question) or a second error keeps the
\* first from being written down.
Hurt == crashes # 0 \/ errors > 1
StartedEnds ==
  \A j \in Jobs : ~Hurt /\ Runs(j) # {} ~> report[j].status \in {"completed", "failed"} \/ Hurt

\* reportQueue.ts: extra jobs wait as queued and are picked up as slots free up.
QueuedIsPickedUp == \A j \in Jobs : report[j].status = "queued" ~> report[j].status # "queued"

\* reportQueue.ts: a restart loses nothing, jobs that were mid-run get back in line.
RestartLosesNothing ==
  \A j \in Jobs : report[j].status = "processing" ~> report[j].status \in {"queued", "completed", "failed"}
=============================================================================
