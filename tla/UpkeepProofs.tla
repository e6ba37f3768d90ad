----------------------------- MODULE UpkeepProofs -----------------------------
(* Proofs about Upkeep: whatever the jobs, processes and turns, a report has    *)
(* one generator, a process keeps to its slots, and what is offered is whole;   *)
(* and the console's accounts, spaces and logs hold together however its        *)
(* requests and the sign-ins beside them interleave.                            *)
EXTENDS Upkeep, FiniteSetTheorems, TLAPS

USE QueueAssumption

-----------------------------------------------------------------------------
(* The inductive invariant of the queue.  Its parts that are about turns take   *)
(* the turns as a parameter: the end of a generator frees its turn before the   *)
(* drain it calls takes another.                                                *)

TurnSet == [at : Stages, job : Jobs \cup {NoJob}, saw : Statuses]
Asking == {"ask", "told"}
Holding == Generating \cup {"told"}

\* A turn that generates has a job, and one that has not claimed has none.
TurnsHaveJobs(tk) ==
  \A p \in Procs, t \in Tickets :
    /\ tk[p][t].at \in Generating => tk[p][t].job \in Jobs
    /\ tk[p][t].at \in {"free", "ask"} => tk[p][t].job = NoJob

\* A job is held by one turn at most, and is processing while it is.
OneHolder(tk) ==
  \A p, q \in Procs, t, u \in Tickets :
    /\ tk[p][t].at \in Holding /\ tk[q][u].at \in Holding
    /\ tk[p][t].job = tk[q][u].job /\ tk[p][t].job \in Jobs
    => p = q /\ t = u
HeldIsProcessing(tk, doc) ==
  \A p \in Procs, t \in Tickets :
    tk[p][t].at \in Holding /\ tk[p][t].job \in Jobs => doc[tk[p][t].job].status = "processing"

\* What is about to be saved, and what was, is written to the end.
SavedIsWhole(tk, doc, disk) ==
  /\ \A p \in Procs, t \in Tickets : tk[p][t].at = "save" => disk[tk[p][t].job] = "whole"
  /\ \A j \in Jobs : doc[j].status = "completed" => disk[j] = "whole"

HeldInv(tk, doc, disk) ==
  TurnsHaveJobs(tk) /\ OneHolder(tk) /\ HeldIsProcessing(tk, doc) /\ SavedIsWhole(tk, doc, disk)

\* One turn of a process asks at a time, in a drain, and with a slot left.
OneAsks(tk, run, dr) ==
  \A p \in Procs, t \in Tickets :
    tk[p][t].at \in Asking =>
      /\ p \in dr /\ run[p] < Concurrency
      /\ \A u \in Tickets : tk[p][u].at \in Asking => u = t

\* A process that is down does nothing, and in the scene of the recovery neither
\* does one that recovers nothing.
DownRests == \A p \in Procs \ up, t \in Tickets : ticket[p][t] = Idle
OthersRest == part = "recovery" => \A p \in Procs \ Recoverers, t \in Tickets : ticket[p][t] = Idle

SceneHolds ==
  /\ part \in {"beside", "recovery"} /\ Scene
  /\ part = "recovery" => \A j \in Jobs : home[j] \in Recoverers

BusyOf(tk, p) == {t \in Tickets : tk[p][t].at \in Generating}
SlotInv(tk, run, dr) ==
  /\ OneAsks(tk, run, dr)
  /\ \A p \in Procs : run[p] <= Concurrency /\ Cardinality(BusyOf(tk, p)) = run[p]

\* A report that is not stored yet has no document.
NotYetStored == \A j \in Jobs : request[j] \in {"none", "counted"} => report[j].status = "none"

QueueInv ==
  /\ TypeOK /\ NotYetStored /\ SceneHolds /\ DownRests /\ OthersRest
  /\ HeldInv(ticket, report, file)
  /\ SlotInv(ticket, running, draining)

-----------------------------------------------------------------------------
(* The drain that a kick or the end of a generator calls.                       *)

\* tk, or tk where a free turn asks.
AskedMore(tk, new, p) ==
  \/ new = tk
  \/ \E u \in Tickets : tk[p][u].at = "free" /\ new = [tk EXCEPT ![p][u].at = "ask"]

\* A turn that moves leaves the others where they are.
LEMMA TurnMoved ==
  ASSUME NEW tk \in [Procs -> [Tickets -> TurnSet]], NEW p \in Procs, NEW t \in Tickets, NEW at \in Stages,
         NEW new, new = [tk EXCEPT ![p][t].at = at]
  PROVE  /\ new \in [Procs -> [Tickets -> TurnSet]]
         /\ new[p][t].at = at /\ new[p][t].job = tk[p][t].job /\ new[p][t].saw = tk[p][t].saw
         /\ \A q \in Procs, u \in Tickets : q # p \/ u # t => new[q][u] = tk[q][u]
<1> DEFINE x == [tk[p][t] EXCEPT !.at = at]
<1>1. new = [tk EXCEPT ![p][t] = x]
  OBVIOUS
<1>2. tk[p][t] \in TurnSet
  OBVIOUS
<1>3. x \in TurnSet /\ x.at = at /\ x.job = tk[p][t].job /\ x.saw = tk[p][t].saw
  BY <1>2 DEF TurnSet
<1> HIDE DEF x
<1>4. new \in [Procs -> [Tickets -> TurnSet]] /\ new[p][t] = x
  BY <1>1, <1>3
<1>5. \A q \in Procs, u \in Tickets : q # p \/ u # t => new[q][u] = tk[q][u]
  BY <1>1
<1> QED  BY <1>3, <1>4, <1>5

\* What the head of the loop does to the turns.
LEMMA LoopTurns ==
  ASSUME NEW p \in Procs, NEW run, NEW tk \in [Procs -> [Tickets -> TurnSet]],
         Loop(p, run, tk)
  PROVE  /\ running' = [running EXCEPT ![p] = run]
         /\ AskedMore(tk, ticket', p)
         /\ ticket' \in [Procs -> [Tickets -> TurnSet]]
         /\ \/ ticket' = tk /\ draining' = draining \ {p}
            \/ run < Concurrency /\ draining' = draining \cup {p}
<1>1. CASE run < Concurrency
  <2>1. PICK u \in Tickets : tk[p][u].at = "free" /\ ticket' = [tk EXCEPT ![p][u].at = "ask"]
    BY <1>1 DEF Loop
  <2>2. ticket' \in [Procs -> [Tickets -> TurnSet]]
    <3>1. "ask" \in Stages
      BY DEF Stages
    <3> QED  BY <2>1, <3>1, TurnMoved
  <2> QED  BY <1>1, <2>1, <2>2 DEF Loop, AskedMore
<1>2. CASE ~(run < Concurrency)
  BY <1>2 DEF Loop, AskedMore
<1> QED  BY <1>1, <1>2

\* A drain that is entered has one turn more asking, or lets the process out.
LEMMA EnterTurns ==
  ASSUME NEW p \in Procs, NEW run, NEW tk \in [Procs -> [Tickets -> TurnSet]],
         Enter(p, run, tk)
  PROVE  /\ running' = [running EXCEPT ![p] = run]
         /\ AskedMore(tk, ticket', p)
         /\ ticket' \in [Procs -> [Tickets -> TurnSet]]
         /\ \/ ticket' = tk /\ draining' \in {draining, draining \ {p}}
            \/ p \notin draining /\ run < Concurrency /\ draining' = draining \cup {p}
<1>1. CASE p \in draining
  BY <1>1 DEF Enter, AskedMore
<1>2. CASE p \notin draining
  BY <1>2, LoopTurns DEF Enter
<1> QED  BY <1>1, <1>2

\* A turn that asks holds nothing: what holds of the turns still does.
LEMMA AskingHoldsNothing ==
  ASSUME NEW p \in Procs, NEW tk \in [Procs -> [Tickets -> TurnSet]], NEW new, NEW doc, NEW disk,
         AskedMore(tk, new, p), HeldInv(tk, doc, disk)
  PROVE  HeldInv(new, doc, disk)
<1>1. CASE new = tk
  BY <1>1
<1>2. ASSUME NEW u \in Tickets, tk[p][u].at = "free", new = [tk EXCEPT ![p][u].at = "ask"]
      PROVE  HeldInv(new, doc, disk)
  <2>1. \A q \in Procs, t \in Tickets :
          /\ new[q][t].job = tk[q][t].job
          /\ new[q][t].at = tk[q][t].at \/ (new[q][t].at = "ask" /\ tk[q][t].at = "free")
    <3>1. "ask" \in Stages
      BY DEF Stages
    <3> HIDE DEF HeldInv
    <3>2. /\ new[p][u].at = "ask" /\ new[p][u].job = tk[p][u].job
          /\ \A q \in Procs, v \in Tickets : q # p \/ v # u => new[q][v] = tk[q][v]
      BY <1>2, <3>1, TurnMoved
    <3>3. tk[p][u].at = "free"
      BY <1>2
    <3> QED  BY <3>2, <3>3
  <2>2. \A q \in Procs, t \in Tickets :
          /\ new[q][t].at \in Holding <=> tk[q][t].at \in Holding
          /\ new[q][t].at \in Generating <=> tk[q][t].at \in Generating
          /\ new[q][t].at \in {"free", "ask"} <=> tk[q][t].at \in {"free", "ask"}
          /\ new[q][t].at = "save" <=> tk[q][t].at = "save"
    BY <2>1 DEF Holding, Generating
  <2>3. TurnsHaveJobs(new)
    BY <2>1, <2>2 DEF HeldInv, TurnsHaveJobs
  <2>4. OneHolder(new)
    BY <2>1, <2>2 DEF HeldInv, OneHolder
  <2>5. HeldIsProcessing(new, doc) /\ SavedIsWhole(new, doc, disk)
    BY <2>1, <2>2 DEF HeldInv, HeldIsProcessing, SavedIsWhole
  <2> QED  BY <2>3, <2>4, <2>5 DEF HeldInv
<1> QED  BY <1>1, <1>2 DEF AskedMore

\* Nor does a turn that asks generate: the slots are counted as before.
LEMMA LoopSlots ==
  ASSUME NEW p \in Procs, NEW run \in Nat, NEW tk \in [Procs -> [Tickets -> TurnSet]],
         running \in [Procs -> Nat],
         SlotInv(tk, [running EXCEPT ![p] = run], draining),
         \A t \in Tickets : tk[p][t].at \notin Asking,
         Loop(p, run, tk)
  PROVE  SlotInv(ticket', running', draining')
<1>1. /\ running' = [running EXCEPT ![p] = run] /\ AskedMore(tk, ticket', p)
      /\ \/ ticket' = tk /\ draining' = draining \ {p}
         \/ run < Concurrency /\ draining' = draining \cup {p}
  BY LoopTurns
<1>2. \A q \in Procs : q # p => (q \in draining' <=> q \in draining)
  BY <1>1
<1>3. CASE ticket' = tk /\ draining' = draining \ {p}
  <2>1. OneAsks(ticket', running', draining')
    BY <1>1, <1>2, <1>3 DEF SlotInv, OneAsks
  <2> QED  BY <1>1, <1>3, <2>1 DEF SlotInv
<1>4. ASSUME run < Concurrency, draining' = draining \cup {p},
             NEW u \in Tickets, tk[p][u].at = "free", ticket' = [tk EXCEPT ![p][u].at = "ask"]
      PROVE  SlotInv(ticket', running', draining')
  <2>1. "ask" \in Stages
    BY DEF Stages
  <2>2. /\ ticket'[p][u].at = "ask"
        /\ \A q \in Procs, v \in Tickets : q # p \/ v # u => ticket'[q][v] = tk[q][v]
    BY <1>4, <2>1, TurnMoved
  <2>3. tk[p][u].at = "free" /\ running'[p] = run /\ run < Concurrency /\ p \in draining'
        /\ \A q \in Procs : q # p => running'[q] = running[q]
    BY <1>1, <1>4
  <2>4. OneAsks(ticket', running', draining')
    <3> SUFFICES ASSUME NEW q \in Procs, NEW t \in Tickets, ticket'[q][t].at \in Asking
                 PROVE  /\ q \in draining' /\ running'[q] < Concurrency
                        /\ \A v \in Tickets : ticket'[q][v].at \in Asking => v = t
      BY DEF OneAsks
    <3>1. CASE q = p
      BY <2>2, <2>3, <3>1 DEF Asking
    <3>2. CASE q # p
      BY <1>2, <2>2, <2>3, <3>2 DEF SlotInv, OneAsks
    <3> QED  BY <3>1, <3>2
  <2>5. \A q \in Procs : BusyOf(ticket', q) = BusyOf(tk, q)
    BY <2>2, <2>3 DEF BusyOf, Generating
  <2> QED  BY <1>1, <2>4, <2>5 DEF SlotInv
<1> QED  BY <1>1, <1>3, <1>4 DEF AskedMore, Loop

\* The slots still add up after a drain was entered.
LEMMA EnterSlots ==
  ASSUME NEW p \in Procs, NEW run \in Nat, NEW tk \in [Procs -> [Tickets -> TurnSet]],
         running \in [Procs -> Nat],
         SlotInv(tk, [running EXCEPT ![p] = run], draining),
         Enter(p, run, tk)
  PROVE  SlotInv(ticket', running', draining')
<1>1. CASE p \in draining
  BY <1>1 DEF Enter
<1>2. CASE p \notin draining
  <2>1. \A t \in Tickets : tk[p][t].at \notin Asking
    BY <1>2 DEF SlotInv, OneAsks
  <2> QED  BY <1>2, <2>1, LoopSlots DEF Enter
<1> QED  BY <1>1, <1>2


-----------------------------------------------------------------------------
(* What the steps of a turn do to the slots.                                    *)

\* A step within a generator, and the answer to a claim, change no count.
LEMMA MovedSlots ==
  ASSUME NEW tk, NEW new, NEW run, NEW dr, NEW p \in Procs, NEW t \in Tickets,
         SlotInv(tk, run, dr),
         new[p][t].at \in Generating <=> tk[p][t].at \in Generating,
         new[p][t].at \in Asking <=> tk[p][t].at \in Asking,
         \A q \in Procs, u \in Tickets : q # p \/ u # t => new[q][u] = tk[q][u]
  PROVE  SlotInv(new, run, dr)
<1>1. \A q \in Procs, u \in Tickets :
        /\ new[q][u].at \in Generating <=> tk[q][u].at \in Generating
        /\ new[q][u].at \in Asking <=> tk[q][u].at \in Asking
  OBVIOUS
<1>2. \A q \in Procs : BusyOf(new, q) = BusyOf(tk, q)
  BY <1>1 DEF BusyOf
<1>3. OneAsks(new, run, dr)
  BY <1>1 DEF SlotInv, OneAsks
<1> QED  BY <1>2, <1>3 DEF SlotInv

\* A generator that starts takes the slot its claim was sent for.
LEMMA StartedSlots ==
  ASSUME TypeOK, SlotInv(ticket, running, draining), NEW p \in Procs, NEW t \in Tickets,
         ticket[p][t].at = "told", NEW new,
         new[p][t].at = "load",
         \A q \in Procs, u \in Tickets : q # p \/ u # t => new[q][u] = ticket[q][u]
  PROVE  /\ SlotInv(new, [running EXCEPT ![p] = running[p] + 1], draining)
         /\ \A u \in Tickets : new[p][u].at \notin Asking
<1>1. \A u \in Tickets : new[p][u].at \notin Asking
  BY DEF SlotInv, OneAsks, Asking
<1>2. OneAsks(new, [running EXCEPT ![p] = running[p] + 1], draining)
  BY <1>1 DEF SlotInv, OneAsks, TypeOK
<1>3. BusyOf(new, p) = BusyOf(ticket, p) \cup {t} /\ t \notin BusyOf(ticket, p)
  BY DEF BusyOf, Generating
<1>4. IsFiniteSet(BusyOf(ticket, p))
  BY FS_Subset DEF BusyOf
<1>5. Cardinality(BusyOf(new, p)) = Cardinality(BusyOf(ticket, p)) + 1
  BY <1>3, <1>4, FS_AddElement
<1>6. running[p] < Concurrency /\ Cardinality(BusyOf(ticket, p)) = running[p] /\ running[p] \in Nat
  BY DEF SlotInv, OneAsks, Asking, TypeOK
<1>7. \A q \in Procs : q # p => BusyOf(new, q) = BusyOf(ticket, q)
  BY DEF BusyOf
<1> QED  BY <1>1, <1>2, <1>5, <1>6, <1>7 DEF SlotInv, TypeOK

\* One that ends gives its slot back.
LEMMA FreedSlots ==
  ASSUME TypeOK, SlotInv(ticket, running, draining), NEW p \in Procs, NEW t \in Tickets,
         ticket[p][t].at \in Generating, NEW new, new[p][t] = Idle,
         \A q \in Procs, u \in Tickets : q # p \/ u # t => new[q][u] = ticket[q][u]
  PROVE  SlotInv(new, [running EXCEPT ![p] = running[p] - 1], draining) /\ running[p] - 1 \in Nat
<1>1. BusyOf(new, p) = BusyOf(ticket, p) \ {t} /\ t \in BusyOf(ticket, p)
  BY DEF BusyOf, Generating, Idle
<1>2. IsFiniteSet(BusyOf(ticket, p))
  BY FS_Subset DEF BusyOf
<1>3. Cardinality(BusyOf(new, p)) = Cardinality(BusyOf(ticket, p)) - 1
  BY <1>1, <1>2, FS_RemoveElement
<1>4. /\ running[p] <= Concurrency /\ running[p] \in Nat
      /\ Cardinality(BusyOf(ticket, p)) = running[p]
  BY DEF SlotInv, TypeOK
<1>5. Cardinality(BusyOf(ticket, p)) # 0
  BY <1>1, <1>2, FS_EmptySet
<1>6. \A q \in Procs : q # p => BusyOf(new, q) = BusyOf(ticket, q)
  BY DEF BusyOf
<1>7. \A q \in Procs, u \in Tickets : new[q][u].at \in Asking => new[q][u] = ticket[q][u] /\ ~(q = p /\ u = t)
  BY DEF Asking, Idle
<1>8. OneAsks(new, [running EXCEPT ![p] = running[p] - 1], draining)
  BY <1>4, <1>7 DEF SlotInv, OneAsks, TypeOK
<1>9. running[p] - 1 \in Nat /\ running[p] - 1 <= Concurrency
  BY <1>4, <1>5
<1>10. \A q \in Procs : [running EXCEPT ![p] = running[p] - 1][q] = IF q = p THEN running[p] - 1 ELSE running[q]
  BY DEF TypeOK
<1> QED  BY <1>3, <1>4, <1>6, <1>8, <1>9, <1>10 DEF SlotInv


-----------------------------------------------------------------------------
(* What they do to the jobs that are held.                                      *)

\* A turn goes on with its job, whose document and file it alone writes.
LEMMA MovedHeld ==
  ASSUME NEW new, NEW p \in Procs, NEW t \in Tickets, NEW j \in Jobs,
         HeldInv(ticket, report, file),
         ticket[p][t].at \in Holding, ticket[p][t].job = j,
         new[p][t].at \in Generating, new[p][t].job = j,
         \A q \in Procs, u \in Tickets : q # p \/ u # t => new[q][u] = ticket[q][u],
         report'[j].status = "processing", \A k \in Jobs : k # j => report'[k].status = report[k].status,
         \A k \in Jobs : k # j => file'[k] = file[k],
         new[p][t].at = "save" => file'[j] = "whole"
  PROVE  HeldInv(new, report', file')
<1>1. TurnsHaveJobs(new)
  BY DEF HeldInv, TurnsHaveJobs, Generating
<1>2. \A q \in Procs, u \in Tickets :
        new[q][u].at \in Holding => ticket[q][u].at \in Holding /\ new[q][u].job = ticket[q][u].job
  OBVIOUS
<1>3. OneHolder(new)
  BY <1>2 DEF HeldInv, OneHolder
<1>4. HeldIsProcessing(new, report')
  BY <1>2 DEF HeldInv, HeldIsProcessing
<1>5. SavedIsWhole(new, report', file')
  <2>1. ASSUME NEW q \in Procs, NEW u \in Tickets, new[q][u].at = "save"
        PROVE  file'[new[q][u].job] = "whole"
    <3>1. CASE q = p /\ u = t
      BY <2>1, <3>1
    <3>2. CASE q # p \/ u # t
      <4>1. new[q][u] = ticket[q][u] /\ ticket[q][u].job \in Jobs /\ ticket[q][u].at \in Holding
        BY <2>1, <3>2 DEF HeldInv, TurnsHaveJobs, Holding, Generating
      <4>2. ticket[q][u].job # j
        BY <3>2, <4>1 DEF HeldInv, OneHolder
      <4> QED  BY <2>1, <4>1, <4>2 DEF HeldInv, SavedIsWhole
    <3> QED  BY <3>1, <3>2
  <2>2. \A k \in Jobs : report'[k].status = "completed" => file'[k] = "whole"
    BY DEF HeldInv, SavedIsWhole
  <2> QED  BY <2>1, <2>2 DEF SavedIsWhole
<1> QED  BY <1>1, <1>3, <1>4, <1>5 DEF HeldInv

\* A turn lets its job go: nobody else holds it, so that its document may say
\* anything but that a file is complete which is not.
LEMMA FreedHeld ==
  ASSUME NEW new, NEW p \in Procs, NEW t \in Tickets, NEW j \in Jobs \cup {NoJob},
         HeldInv(ticket, report, file),
         ticket[p][t].job = j, ticket[p][t].at \in Holding \/ j = NoJob,
         new[p][t] = Idle,
         \A q \in Procs, u \in Tickets : q # p \/ u # t => new[q][u] = ticket[q][u],
         \A k \in Jobs : k # j => report'[k].status = report[k].status,
         j \in Jobs => (report'[j].status = "completed" => file[j] = "whole")
  PROVE  HeldInv(new, report', file)
<1>1. \A q \in Procs, u \in Tickets :
        new[q][u].at \in Holding => /\ q # p \/ u # t
                                   /\ ticket[q][u].at \in Holding /\ new[q][u] = ticket[q][u]
  BY DEF Idle, Holding, Generating
<1>2. TurnsHaveJobs(new)
  BY DEF HeldInv, TurnsHaveJobs, Idle, Generating
<1>3. OneHolder(new)
  BY <1>1 DEF HeldInv, OneHolder
<1>4. \A q \in Procs, u \in Tickets : new[q][u].at \in Holding /\ new[q][u].job \in Jobs => new[q][u].job # j
  BY <1>1 DEF HeldInv, OneHolder
<1>5. HeldIsProcessing(new, report')
  BY <1>1, <1>4 DEF HeldInv, HeldIsProcessing
<1>6. SavedIsWhole(new, report', file)
  BY DEF HeldInv, SavedIsWhole, Idle
<1> QED  BY <1>2, <1>3, <1>5, <1>6 DEF HeldInv

\* A claim takes a job that is queued, which nobody holds.
LEMMA ClaimedHeld ==
  ASSUME NEW new, NEW p \in Procs, NEW t \in Tickets, NEW j \in Jobs,
         HeldInv(ticket, report, file), ticket[p][t].at = "ask",
         new[p][t].at = "told", new[p][t].job = j,
         \A q \in Procs, u \in Tickets : q # p \/ u # t => new[q][u] = ticket[q][u],
         report[j].status = "queued", report'[j].status = "processing",
         \A k \in Jobs : k # j => report'[k].status = report[k].status
  PROVE  HeldInv(new, report', file)
<1>1. \A q \in Procs, u \in Tickets : ticket[q][u].at \in Holding => ticket[q][u].job # j
  BY DEF HeldInv, HeldIsProcessing
<1>2. TurnsHaveJobs(new)
  BY DEF HeldInv, TurnsHaveJobs, Generating
<1>3. OneHolder(new)
  BY <1>1 DEF HeldInv, OneHolder
<1>4. HeldIsProcessing(new, report')
  BY DEF HeldInv, HeldIsProcessing
<1>5. SavedIsWhole(new, report', file)
  BY DEF HeldInv, SavedIsWhole
<1> QED  BY <1>2, <1>3, <1>4, <1>5 DEF HeldInv

\* Documents of jobs that nobody holds change.
LEMMA OtherDocuments ==
  ASSUME HeldInv(ticket, report, file),
         \A k \in Jobs : \/ report'[k].status = report[k].status
                         \/ /\ report'[k].status = "queued"
                            /\ \A p \in Procs, t \in Tickets : ticket[p][t].at \in Holding => ticket[p][t].job # k
  PROVE  HeldInv(ticket, report', file)
<1>1. HeldIsProcessing(ticket, report')
  BY DEF HeldInv, HeldIsProcessing
<1>2. SavedIsWhole(ticket, report', file)
  BY DEF HeldInv, SavedIsWhole
<1> QED  BY <1>1, <1>2 DEF HeldInv


-----------------------------------------------------------------------------
(* The steps of the queue.                                                      *)

\* What every step of a turn of p leaves: the types, the turns of the others,
\* the slots.
TurnKeeps(p) ==
  /\ ticket' \in [Procs -> [Tickets -> TurnSet]] /\ running' \in [Procs -> Nat]
  /\ draining' \subseteq draining \cup {p}
  /\ \A q \in Procs : q # p => ticket'[q] = ticket[q]
  /\ SlotInv(ticket', running', draining')

\* The drain asks in a free turn of p alone.
LEMMA AskedElsewhere ==
  ASSUME NEW p \in Procs, NEW tk \in [Procs -> [Tickets -> TurnSet]], NEW new, AskedMore(tk, new, p)
  PROVE  \A q \in Procs : q # p => new[q] = tk[q]
BY DEF AskedMore

\* A turn that is not free belongs to a process that is up.
LEMMA TurnRests ==
  ASSUME QueueInv, NEW p \in Procs, NEW t \in Tickets, ticket[p][t].at # "free",
         TurnKeeps(p), UNCHANGED <<up, part>>
  PROVE  p \in up /\ draining' \subseteq up' /\ DownRests' /\ OthersRest'
<1>1. p \in up /\ draining \subseteq up
  BY DEF QueueInv, DownRests, Idle, TypeOK
<1>2. part = "recovery" => p \in Recoverers
  BY DEF QueueInv, OthersRest, Idle
<1> QED  BY <1>1, <1>2 DEF QueueInv, TurnKeeps, DownRests, OthersRest

\* The end of a generator: its slot and its job are given back.
LEMMA EndKeeps ==
  ASSUME QueueInv, NEW p \in Procs, NEW t \in Tickets, NEW j \in Jobs, End(p, t),
         ticket[p][t].at \in Generating, ticket[p][t].job = j, file' = file,
         \A k \in Jobs : k # j => report'[k].status = report[k].status,
         report'[j].status = "completed" => file[j] = "whole"
  PROVE  TurnKeeps(p) /\ HeldInv(ticket', report', file')
<1> DEFINE tk == [ticket EXCEPT ![p][t] = Idle]
<1>1. ticket \in [Procs -> [Tickets -> TurnSet]] /\ running \in [Procs -> Nat] /\ TypeOK
  BY DEF QueueInv, TypeOK, TurnSet
<1>2. Idle \in TurnSet
  BY DEF Idle, TurnSet, Stages, Statuses
<1>3. /\ tk \in [Procs -> [Tickets -> TurnSet]] /\ tk[p][t] = Idle
      /\ \A q \in Procs, u \in Tickets : q # p \/ u # t => tk[q][u] = ticket[q][u]
      /\ \A q \in Procs : q # p => tk[q] = ticket[q]
  BY <1>1, <1>2
<1>4. Enter(p, running[p] - 1, tk)
  BY DEF End
<1> HIDE DEF tk
<1>5. SlotInv(tk, [running EXCEPT ![p] = running[p] - 1], draining) /\ running[p] - 1 \in Nat
  BY <1>1, <1>3, FreedSlots DEF QueueInv
<1>6. SlotInv(ticket', running', draining')
  BY <1>1, <1>3, <1>4, <1>5, EnterSlots
<1>7. /\ running' = [running EXCEPT ![p] = running[p] - 1] /\ AskedMore(tk, ticket', p)
      /\ ticket' \in [Procs -> [Tickets -> TurnSet]] /\ draining' \subseteq draining \cup {p}
  BY <1>3, <1>4, EnterTurns
<1>8. \A q \in Procs : q # p => ticket'[q] = ticket[q]
  BY <1>3, <1>7, AskedElsewhere
<1>9. HeldInv(tk, report', file)
  <2>1. HeldInv(ticket, report, file) /\ ticket[p][t].at \in Holding /\ j \in Jobs \cup {NoJob}
    BY DEF QueueInv, Holding
  <2> QED  BY <1>3, <2>1, FreedHeld
<1>10. HeldInv(ticket', report', file)
  BY <1>3, <1>7, <1>9, AskingHoldsNothing
<1> QED  BY <1>1, <1>5, <1>6, <1>7, <1>8, <1>10 DEF TurnKeeps

\* A generator goes on.
LEMMA GoesOn ==
  ASSUME QueueInv, NEW p \in Procs, NEW t \in Tickets, NEW j \in Jobs, NEW at \in Generating,
         ticket[p][t].at \in Generating, ticket[p][t].job = j,
         ticket' \in [Procs -> [Tickets -> TurnSet]],
         ticket'[p][t].at = at, ticket'[p][t].job = j,
         \A q \in Procs, u \in Tickets : q # p \/ u # t => ticket'[q][u] = ticket[q][u],
         UNCHANGED <<running, draining>>,
         report'[j].status = "processing", \A k \in Jobs : k # j => report'[k].status = report[k].status,
         \A k \in Jobs : k # j => file'[k] = file[k],
         at = "save" => file'[j] = "whole"
  PROVE  TurnKeeps(p) /\ HeldInv(ticket', report', file')
<1>1. SlotInv(ticket', running, draining)
  <2>1. at \notin Asking /\ ticket[p][t].at \notin Asking
    BY DEF Asking, Generating
  <2> QED  BY <2>1, MovedSlots DEF QueueInv
<1>2. HeldInv(ticket', report', file')
  <2>1. HeldInv(ticket, report, file) /\ ticket[p][t].at \in Holding
    BY DEF QueueInv, Holding
  <2>2. ticket'[p][t].at \in Generating
    OBVIOUS
  <2>3. ticket'[p][t].at = "save" => file'[j] = "whole"
    OBVIOUS
  <2> HIDE DEF QueueInv
  <2> QED  BY <2>1, <2>2, <2>3, MovedHeld
<1>3. \A q \in Procs : q # p => ticket'[q] = ticket[q]
  BY DEF QueueInv, TypeOK
<1> QED  BY <1>1, <1>2, <1>3 DEF TurnKeeps, QueueInv, TypeOK


\* A claim, its answer, and a claim that failed.
LEMMA ClaimKeeps ==
  ASSUME QueueInv, NEW p \in Procs, NEW t \in Tickets, Claim(p, t) \/ Told(p, t) \/ ClaimError(p, t)
  PROVE  TurnKeeps(p) /\ HeldInv(ticket', report', file')
<1>1. ticket \in [Procs -> [Tickets -> TurnSet]] /\ running \in [Procs -> Nat] /\ TypeOK
      /\ SlotInv(ticket, running, draining) /\ HeldInv(ticket, report, file)
  BY DEF QueueInv, TypeOK, TurnSet
<1>2. CASE Claim(p, t) /\ Queued = {}
  <2>1. Turn(p, t, "told") /\ UNCHANGED <<report, file, running, draining>> /\ ticket[p][t].at = "ask"
    BY <1>2 DEF Claim
  <2>2. "told" \in Stages
    BY DEF Stages
  <2>3. /\ ticket' \in [Procs -> [Tickets -> TurnSet]]
        /\ ticket'[p][t].at = "told" /\ ticket'[p][t].job = ticket[p][t].job
        /\ \A q \in Procs, u \in Tickets : q # p \/ u # t => ticket'[q][u] = ticket[q][u]
    <3>1. ticket' = [ticket EXCEPT ![p][t].at = "told"]
      BY <2>1 DEF Turn
    <3>2. ticket \in [Procs -> [Tickets -> TurnSet]]
      BY <1>1
    <3>3. ticket' \in [Procs -> [Tickets -> TurnSet]]
      BY <2>2, <3>1, <3>2, TurnMoved
    <3>4. /\ ticket'[p][t].at = "told" /\ ticket'[p][t].job = ticket[p][t].job
          /\ \A q \in Procs, u \in Tickets : q # p \/ u # t => ticket'[q][u] = ticket[q][u]
      BY <2>2, <3>1, <3>2, TurnMoved
    <3> QED  BY <3>3, <3>4
  <2>4. ticket[p][t].job = NoJob
    BY <1>1, <2>1 DEF HeldInv, TurnsHaveJobs
  <2>5. SlotInv(ticket', running, draining)
    <3>1. ticket'[p][t].at \in Generating <=> ticket[p][t].at \in Generating
      BY <2>1, <2>3 DEF Generating
    <3>2. ticket'[p][t].at \in Asking <=> ticket[p][t].at \in Asking
      BY <2>1, <2>3 DEF Asking
    <3> QED  BY <1>1, <2>3, <3>1, <3>2, MovedSlots
  <2>6. HeldInv(ticket', report, file)
    <3>1. TurnsHaveJobs(ticket')
      BY <1>1, <2>3 DEF HeldInv, TurnsHaveJobs, Generating
    <3>2. OneHolder(ticket') /\ HeldIsProcessing(ticket', report)
      <4>1. \A q \in Procs, u \in Tickets :
              ticket'[q][u].at \in Holding /\ ticket'[q][u].job \in Jobs =>
                ticket[q][u].at \in Holding /\ ticket'[q][u] = ticket[q][u]
        BY <2>3, <2>4
      <4> QED  BY <1>1, <4>1 DEF HeldInv, OneHolder, HeldIsProcessing
    <3>3. SavedIsWhole(ticket', report, file)
      BY <1>1, <2>3 DEF HeldInv, SavedIsWhole
    <3> QED  BY <3>1, <3>2, <3>3 DEF HeldInv
  <2>7. \A q \in Procs : q # p => ticket'[q] = ticket[q]
    BY <2>1 DEF Turn
  <2> QED  BY <1>1, <2>1, <2>3, <2>5, <2>6, <2>7 DEF TurnKeeps
<1>3. ASSUME NEW j \in Queued, ticket[p][t].at = "ask", Write(j, "processing"),
             ticket' = [ticket EXCEPT ![p][t] = [at |-> "told", job |-> j, saw |-> "none"]],
             UNCHANGED <<file, running, draining>>
      PROVE  TurnKeeps(p) /\ HeldInv(ticket', report', file')
  <2> DEFINE x == [at |-> "told", job |-> j, saw |-> "none"]
  <2>1. x \in TurnSet /\ x.at = "told" /\ x.job = j /\ j \in Jobs /\ report[j].status = "queued"
    BY DEF TurnSet, Stages, Statuses, Queued
  <2>2. ticket' = [ticket EXCEPT ![p][t] = x]
    BY <1>3
  <2> HIDE DEF x
  <2>3. /\ ticket' \in [Procs -> [Tickets -> TurnSet]] /\ ticket'[p][t] = x
        /\ \A q \in Procs, u \in Tickets : q # p \/ u # t => ticket'[q][u] = ticket[q][u]
        /\ \A q \in Procs : q # p => ticket'[q] = ticket[q]
    BY <1>1, <2>1, <2>2
  <2>4. report'[j].status = "processing" /\ \A k \in Jobs : k # j => report'[k].status = report[k].status
    BY <1>1, <1>3, <2>1 DEF Write, TypeOK
  <2>5. HeldInv(ticket', report', file)
    <3>1. /\ HeldInv(ticket, report, file) /\ ticket[p][t].at = "ask"
          /\ ticket'[p][t].at = "told" /\ ticket'[p][t].job = j /\ j \in Jobs /\ report[j].status = "queued"
      BY <1>1, <1>3, <2>1, <2>3
    <3>2. \A q \in Procs, u \in Tickets : q # p \/ u # t => ticket'[q][u] = ticket[q][u]
      BY <2>3
    <3> QED  BY <2>4, <3>1, <3>2, ClaimedHeld
  <2>6. SlotInv(ticket', running, draining)
    <3>1. ticket'[p][t].at \in Generating <=> ticket[p][t].at \in Generating
      BY <1>3, <2>1, <2>3 DEF Generating
    <3>2. ticket'[p][t].at \in Asking <=> ticket[p][t].at \in Asking
      BY <1>3, <2>1, <2>3 DEF Asking
    <3> QED  BY <1>1, <2>3, <3>1, <3>2, MovedSlots
  <2> QED  BY <1>1, <1>3, <2>3, <2>5, <2>6 DEF TurnKeeps
<1>4. CASE Told(p, t) /\ ticket[p][t].job # NoJob
  <2> DEFINE tk == [ticket EXCEPT ![p][t].at = "load"]
             j == ticket[p][t].job
  <2>1. ticket[p][t].at = "told" /\ Loop(p, running[p] + 1, tk) /\ UNCHANGED <<report, file>>
    BY <1>4 DEF Told
  <2>2. "load" \in Stages /\ j \in Jobs
    BY <1>1, <1>4 DEF Stages, TurnSet
  <2>3. /\ tk \in [Procs -> [Tickets -> TurnSet]] /\ tk[p][t].at = "load" /\ tk[p][t].job = j
        /\ \A q \in Procs, u \in Tickets : q # p \/ u # t => tk[q][u] = ticket[q][u]
    <3>1. ticket \in [Procs -> [Tickets -> TurnSet]] /\ tk = [ticket EXCEPT ![p][t].at = "load"]
      BY <1>1
    <3> HIDE DEF tk
    <3>2. tk \in [Procs -> [Tickets -> TurnSet]]
      BY <2>2, <3>1, TurnMoved
    <3>3. /\ tk[p][t].at = "load" /\ tk[p][t].job = j
          /\ \A q \in Procs, u \in Tickets : q # p \/ u # t => tk[q][u] = ticket[q][u]
      BY <2>2, <3>1, TurnMoved
    <3> QED  BY <3>2, <3>3
  <2>4. \A q \in Procs : q # p => tk[q] = ticket[q]
    BY <1>1
  <2> HIDE DEF tk
  <2>5. /\ SlotInv(tk, [running EXCEPT ![p] = running[p] + 1], draining)
        /\ \A u \in Tickets : tk[p][u].at \notin Asking
    BY <1>1, <2>1, <2>3, StartedSlots
  <2>6. running[p] + 1 \in Nat
    BY <1>1
  <2>7. SlotInv(ticket', running', draining')
    BY <1>1, <2>1, <2>3, <2>5, <2>6, LoopSlots
  <2>8. /\ running' = [running EXCEPT ![p] = running[p] + 1] /\ AskedMore(tk, ticket', p)
        /\ ticket' \in [Procs -> [Tickets -> TurnSet]] /\ draining' \subseteq draining \cup {p}
    BY <2>1, <2>3, LoopTurns
  <2>9. report[j].status = "processing"
    BY <1>1, <2>1, <2>2 DEF HeldInv, HeldIsProcessing, Holding
  <2>10. ticket[p][t].at \in Holding /\ tk[p][t].at \in Generating /\ tk[p][t].at # "save"
    BY <2>1, <2>3 DEF Holding, Generating
  <2>11. HeldInv(tk, report', file')
    BY <1>1, <2>1, <2>2, <2>3, <2>9, <2>10, MovedHeld
  <2>12. HeldInv(ticket', report', file')
    BY <2>3, <2>8, <2>11, AskingHoldsNothing
  <2>13. \A q \in Procs : q # p => ticket'[q] = ticket[q]
    BY <2>3, <2>4, <2>8, AskedElsewhere
  <2> QED  BY <1>1, <2>6, <2>7, <2>8, <2>12, <2>13 DEF TurnKeeps
<1>5. CASE /\ ticket[p][t].at \in Asking
           /\ ticket' = [ticket EXCEPT ![p][t] = Idle] /\ draining' = draining \ {p}
           /\ UNCHANGED <<running, report, file>>
  <2>1. Idle \in TurnSet /\ Idle.at = "free" /\ Idle.job = NoJob
    BY DEF Idle, TurnSet, Stages, Statuses
  <2>2. /\ ticket' \in [Procs -> [Tickets -> TurnSet]] /\ ticket'[p][t] = Idle
        /\ \A q \in Procs, u \in Tickets : q # p \/ u # t => ticket'[q][u] = ticket[q][u]
        /\ \A q \in Procs : q # p => ticket'[q] = ticket[q]
    BY <1>1, <1>5, <2>1
  <2>3. HeldInv(ticket', report', file)
    <3>1. ticket[p][t].job \in Jobs \cup {NoJob} /\ (ticket[p][t].at = "told" \/ ticket[p][t].job = NoJob)
      BY <1>1, <1>5 DEF TurnSet, Asking, HeldInv, TurnsHaveJobs
    <3>2. ticket[p][t].at \in Holding \/ ticket[p][t].job = NoJob
      BY <3>1 DEF Holding
    <3>3. ticket[p][t].job \in Jobs => report[ticket[p][t].job].status # "completed"
      BY <1>1, <3>2 DEF HeldInv, HeldIsProcessing
    <3>4. HeldInv(ticket, report, file) /\ UNCHANGED <<report, file>>
      BY <1>1, <1>5
    <3> HIDE DEF QueueInv
    <3> QED  BY <2>2, <3>1, <3>2, <3>3, <3>4, FreedHeld
  <2>4. \A u \in Tickets : ticket'[p][u].at \notin Asking
    BY <1>1, <1>5, <2>1, <2>2 DEF SlotInv, OneAsks, Asking
  <2>5. OneAsks(ticket', running, draining')
    BY <1>1, <1>5, <2>2, <2>4 DEF SlotInv, OneAsks
  <2>6. \A q \in Procs : BusyOf(ticket', q) = BusyOf(ticket, q)
    BY <1>5, <2>1, <2>2 DEF BusyOf, Generating, Asking
  <2>7. SlotInv(ticket', running, draining')
    BY <1>1, <2>5, <2>6 DEF SlotInv
  <2> QED  BY <1>1, <1>5, <2>2, <2>3, <2>7 DEF TurnKeeps
<1>6. CASE Claim(p, t)
  <2>1. CASE Queued = {}
    BY <1>2, <1>6, <2>1
  <2>2. CASE Queued # {}
    BY <1>3, <1>6, <2>2 DEF Claim
  <2> QED  BY <2>1, <2>2
<1>7. CASE Told(p, t) /\ ticket[p][t].job = NoJob
  BY <1>5, <1>7 DEF Told, Asking
<1>8. CASE ClaimError(p, t)
  BY <1>5, <1>8 DEF ClaimError, Asking
<1> QED  BY <1>4, <1>6, <1>7, <1>8


\* The generator, from the load of its report to its end.
LEMMA GeneratorKeeps ==
  ASSUME QueueInv, NEW p \in Procs, NEW t \in Tickets,
         \/ Load(p, t) \/ Mark(p, t) \/ Open(p, t) \/ Close(p, t) \/ Save(p, t)
         \/ Throw(p, t) \/ Excuse(p, t) \/ ExcuseFails(p, t)
  PROVE  TurnKeeps(p) /\ HeldInv(ticket', report', file')
<1> DEFINE j == ticket[p][t].job
<1>1. /\ ticket \in [Procs -> [Tickets -> TurnSet]] /\ TypeOK /\ HeldInv(ticket, report, file)
      /\ ticket[p][t] \in TurnSet
  BY DEF QueueInv, TypeOK, TurnSet
<1>2. ticket[p][t].at \in Generating
  BY DEF Load, Mark, Open, Close, Save, Throw, Excuse, ExcuseFails, Generating
<1>3. j \in Jobs /\ report[j].status = "processing"
  BY <1>1, <1>2 DEF HeldInv, TurnsHaveJobs, HeldIsProcessing, Holding
<1> HIDE DEF j
<1>4. ASSUME NEW at \in Generating, Turn(p, t, at), UNCHANGED <<running, draining>>,
             report'[j].status = "processing", \A k \in Jobs : k # j => report'[k].status = report[k].status,
             \A k \in Jobs : k # j => file'[k] = file[k],
             at = "save" => file'[j] = "whole"
      PROVE  TurnKeeps(p) /\ HeldInv(ticket', report', file')
  <2>1. at \in Stages /\ ticket' = [ticket EXCEPT ![p][t].at = at]
    BY <1>4 DEF Generating, Stages, Turn
  <2>2. ticket' \in [Procs -> [Tickets -> TurnSet]]
    BY <1>1, <2>1, TurnMoved
  <2>3. ticket'[p][t].job = j /\ ticket'[p][t].at = at
    BY <1>1, <2>1, TurnMoved DEF j
  <2>4. \A q \in Procs, u \in Tickets : q # p \/ u # t => ticket'[q][u] = ticket[q][u]
    BY <1>1, <2>1, TurnMoved
  <2>5. ticket[p][t].job = j
    BY DEF j
  <2> QED  BY <1>2, <1>3, <1>4, <2>2, <2>3, <2>4, <2>5, GoesOn
<1>5. ASSUME End(p, t), file' = file,
             \A k \in Jobs : k # j => report'[k].status = report[k].status,
             report'[j].status = "completed" => file[j] = "whole"
      PROVE  TurnKeeps(p) /\ HeldInv(ticket', report', file')
  BY <1>2, <1>3, <1>5, EndKeeps DEF j
<1>6. ASSUME NEW status \in Statuses, Write(j, status)
      PROVE  report'[j].status = status /\ \A k \in Jobs : k # j => report'[k].status = report[k].status
  BY <1>1, <1>3, <1>6 DEF Write, TypeOK
<1>7. /\ {"mark", "open", "write", "save", "excuse"} \subseteq Generating
      /\ {"processing", "completed", "failed"} \subseteq Statuses
  BY DEF Generating, Statuses
<1>8. CASE Load(p, t)
  <2> DEFINE x == [ticket[p][t] EXCEPT !.at = "mark", !.saw = "processing"]
  <2>1. /\ ticket' = [ticket EXCEPT ![p][t] = x]
        /\ UNCHANGED <<running, draining, report, file>>
    BY <1>1, <1>3, <1>8 DEF Load, j
  <2>2. x \in TurnSet /\ x.at = "mark" /\ x.job = j
    BY <1>1 DEF TurnSet, Stages, Statuses, j
  <2> HIDE DEF x
  <2>3. ticket' \in [Procs -> [Tickets -> TurnSet]] /\ ticket'[p][t] = x
    BY <1>1, <2>1, <2>2
  <2>4. \A q \in Procs, u \in Tickets : q # p \/ u # t => ticket'[q][u] = ticket[q][u]
    BY <1>1, <2>1
  <2>5. /\ ticket[p][t].job = j /\ ticket'[p][t].job = j /\ ticket'[p][t].at = "mark" /\ "mark" \in Generating
        /\ report'[j].status = "processing" /\ file' = file /\ report' = report /\ UNCHANGED <<running, draining>>
    BY <1>3, <1>7, <2>1, <2>2, <2>3 DEF j
  <2>6. ticket' \in [Procs -> [Tickets -> TurnSet]]
    BY <2>3
  <2> QED  BY <1>2, <1>3, <2>4, <2>5, <2>6, GoesOn
<1>9. CASE Mark(p, t)
  <2>1. Turn(p, t, "open") /\ UNCHANGED <<running, draining, file>> /\ (report' = report \/ Write(j, "processing"))
    BY <1>9 DEF Mark, j
  <2>2. report'[j].status = "processing" /\ \A k \in Jobs : k # j => report'[k].status = report[k].status
    BY <1>3, <1>6, <1>7, <2>1
  <2> QED  BY <1>4, <1>7, <2>1, <2>2
<1>10. CASE Open(p, t)
  <2>1. /\ Turn(p, t, "write") /\ UNCHANGED <<running, draining, report>>
        /\ \A k \in Jobs : k # j => file'[k] = file[k]
    BY <1>1, <1>10 DEF Open, TypeOK, j
  <2> QED  BY <1>3, <1>4, <1>7, <2>1
<1>11. CASE Close(p, t)
  <2>1. ticket[p][t].at = "write"
    BY <1>11 DEF Close
  <2>2. \A r \in Runs(j) : r = <<p, t>>
    <3>1. TAKE r \in Runs(j)
    <3>2. PICK q \in Procs, u \in Tickets : r = <<q, u>>
      BY DEF Runs
    <3>3. ticket[q][u].job = j /\ ticket[q][u].at \in Generating
      BY <3>2 DEF Runs
    <3>4. q = p /\ u = t
      BY <1>1, <1>2, <1>3, <3>3 DEF HeldInv, OneHolder, Holding, j
    <3> QED  BY <3>2, <3>4
  <2>3. {r \in Runs(j) : r # <<p, t>> /\ ticket[r[1]][r[2]].at = "write"} = {}
    BY <2>2
  <2>4. file' = [file EXCEPT ![j] = "whole"]
    BY <1>11, <2>3 DEF Close, j
  <2>5. file'[j] = "whole" /\ \A k \in Jobs : k # j => file'[k] = file[k]
    BY <1>1, <1>3, <2>4 DEF TypeOK
  <2>6. Turn(p, t, "save") /\ UNCHANGED <<running, draining, report>>
    BY <1>11 DEF Close
  <2> QED  BY <1>3, <1>4, <1>7, <2>5, <2>6
<1>12. CASE Save(p, t)
  <2>1. file[j] = "whole"
    BY <1>1, <1>12 DEF Save, HeldInv, SavedIsWhole, j
  <2>2. Write(j, "completed") /\ End(p, t) /\ file' = file
    BY <1>12 DEF Save, j
  <2> QED  BY <1>5, <1>6, <1>7, <2>1, <2>2
<1>13. CASE Throw(p, t)
  <2>1. Turn(p, t, "excuse") /\ UNCHANGED <<running, draining, report, file>>
    BY <1>13 DEF Throw
  <2> QED  BY <1>3, <1>4, <1>7, <2>1
<1>14. CASE Excuse(p, t)
  <2>1. Write(j, "failed") /\ End(p, t) /\ file' = file
    BY <1>14 DEF Excuse, j
  <2> QED  BY <1>5, <1>6, <1>7, <2>1
<1>15. CASE ExcuseFails(p, t)
  <2>1. End(p, t) /\ UNCHANGED <<report, file>>
    BY <1>15 DEF ExcuseFails
  <2> QED  BY <1>3, <1>5, <2>1
<1> QED  BY <1>8, <1>9, <1>10, <1>11, <1>12, <1>13, <1>14, <1>15


Working(p, t) == Work(p, t) \/ ClaimError(p, t) \/ Throw(p, t) \/ ExcuseFails(p, t)

\* A turn writes documents and files of the schema, and no document of a report
\* that is not stored.
LEMMA WorkTypes ==
  ASSUME QueueInv, NEW p \in Procs, NEW t \in Tickets, Working(p, t)
  PROVE  /\ report' \in [Jobs -> [status : Statuses, age : Nat, updated : Nat]]
         /\ file' \in [Jobs -> {"none", "partial", "whole"}]
         /\ errors' \in Nat /\ UNCHANGED <<request, home, up, kicked, now, made, crashes, retries>>
         /\ NotYetStored' /\ ticket[p][t].at # "free"
<1>1. /\ report \in [Jobs -> [status : Statuses, age : Nat, updated : Nat]]
      /\ file \in [Jobs -> {"none", "partial", "whole"}] /\ now \in Nat /\ errors \in Nat
  BY DEF QueueInv, TypeOK
<1>2. ticket[p][t].at # "free" /\ UNCHANGED <<request, home, up, kicked, now, made, crashes, retries>>
  BY DEF Working, Work, Claim, Told, Load, Mark, Open, Close, Save, Excuse, ClaimError, Throw, ExcuseFails,
         bounds, Generating
<1>3. errors' \in Nat
  BY <1>1 DEF Working, Work, Claim, Told, Load, Mark, Open, Close, Save, Excuse, ClaimError, Throw, ExcuseFails, bounds
<1>4. ASSUME NEW j \in Jobs, NEW status \in Statuses, Write(j, status)
      PROVE  /\ report' \in [Jobs -> [status : Statuses, age : Nat, updated : Nat]]
             /\ \A k \in Jobs : k # j => report'[k].status = report[k].status
  BY <1>1, <1>4 DEF Write
<1>5. ASSUME NEW j \in Jobs, NEW status \in Statuses, Write(j, status), report[j].status # "none"
      PROVE  NotYetStored'
  BY <1>2, <1>4, <1>5 DEF QueueInv, NotYetStored
<1>6. ticket[p][t].at \in Generating => ticket[p][t].job \in Jobs /\ report[ticket[p][t].job].status = "processing"
  BY DEF QueueInv, HeldInv, TurnsHaveJobs, HeldIsProcessing, Holding
<1>7. \/ report' = report
      \/ \E j \in Jobs, status \in Statuses : report[j].status # "none" /\ Write(j, status)
  <2>1. {"processing", "completed", "failed"} \subseteq Statuses
    BY DEF Statuses
  <2>2. CASE Claim(p, t)
    BY <2>1, <2>2 DEF Claim, Queued
  <2>3. CASE Mark(p, t) \/ Save(p, t) \/ Excuse(p, t)
    BY <1>6, <2>1, <2>3 DEF Mark, Save, Excuse, Generating
  <2>4. CASE Told(p, t) \/ Load(p, t) \/ Open(p, t) \/ Close(p, t) \/ ClaimError(p, t) \/ Throw(p, t) \/ ExcuseFails(p, t)
    BY <2>4 DEF Told, Load, Open, Close, ClaimError, Throw, ExcuseFails
  <2> QED  BY <2>2, <2>3, <2>4 DEF Working, Work
<1>8. report' \in [Jobs -> [status : Statuses, age : Nat, updated : Nat]]
  BY <1>1, <1>4, <1>7
<1>9. NotYetStored'
  <2>1. CASE report' = report
    BY <1>2, <2>1 DEF QueueInv, NotYetStored
  <2> QED  BY <1>5, <1>7, <2>1
<1>10. file' \in [Jobs -> {"none", "partial", "whole"}]
  <2>1. CASE Open(p, t)
    BY <1>1, <2>1 DEF Open
  <2>2. CASE Close(p, t)
    BY <1>1, <2>2 DEF Close
  <2>3. CASE ~Open(p, t) /\ ~Close(p, t)
    BY <1>1, <2>3 DEF Working, Work, Claim, Told, Load, Mark, Save, Excuse, ClaimError, Throw, ExcuseFails
  <2> QED  BY <2>1, <2>2, <2>3
<1> QED  BY <1>2, <1>3, <1>8, <1>9, <1>10

\* Every step of a turn keeps the invariant.
LEMMA WorkStep ==
  ASSUME QueueInv, NEW p \in Procs, NEW t \in Tickets, Working(p, t), part' = part, Scene'
  PROVE  QueueInv'
<1>1. TurnKeeps(p) /\ HeldInv(ticket', report', file')
  BY ClaimKeeps, GeneratorKeeps DEF Working, Work
<1>2. /\ report' \in [Jobs -> [status : Statuses, age : Nat, updated : Nat]]
      /\ file' \in [Jobs -> {"none", "partial", "whole"}]
      /\ errors' \in Nat /\ UNCHANGED <<request, home, up, kicked, now, made, crashes, retries>>
      /\ NotYetStored' /\ ticket[p][t].at # "free"
  BY WorkTypes
<1>3. draining' \subseteq up' /\ DownRests' /\ OthersRest'
  BY <1>1, <1>2, TurnRests
<1>4. TypeOK'
  BY <1>1, <1>2, <1>3 DEF QueueInv, TypeOK, TurnKeeps, TurnSet
<1>5. SceneHolds'
  BY <1>2 DEF QueueInv, SceneHolds
<1>6. HeldInv(ticket, report, file)' /\ SlotInv(ticket, running, draining)'
  BY <1>1 DEF TurnKeeps, HeldInv, TurnsHaveJobs, OneHolder, HeldIsProcessing, SavedIsWhole, SlotInv, OneAsks, BusyOf
<1> QED  BY <1>2, <1>3, <1>4, <1>5, <1>6 DEF QueueInv


\* So do the steps of a request, and the operator's retry.
LEMMA RequestStep ==
  ASSUME QueueInv, part' = part, Scene', NEW j \in Jobs,
         Count(j) \/ Insert(j) \/ Kick(j) \/ RowCount(j) \/ (\E p \in Procs : Retry(j, p))
  PROVE  QueueInv'
<1>1. /\ UNCHANGED <<file, home, up, draining, running, ticket, now, crashes, errors>>
      /\ retries' \in Nat /\ made' \in Nat
  BY DEF Count, Insert, Kick, RowCount, Retry, procVars, bounds, QueueInv, TypeOK
<1>2. /\ report \in [Jobs -> [status : Statuses, age : Nat, updated : Nat]] /\ now \in Nat
      /\ request \in [Jobs -> {"none", "counted", "stored", "kicked", "done"}]
      /\ HeldInv(ticket, report, file) /\ NotYetStored
  BY DEF QueueInv, TypeOK
<1>3. \A k \in Jobs : report[k].status # "processing" =>
        \A p \in Procs, t \in Tickets : ticket[p][t].at \in Holding => ticket[p][t].job # k
  BY <1>2 DEF HeldInv, HeldIsProcessing
<1>4. /\ report' \in [Jobs -> [status : Statuses, age : Nat, updated : Nat]]
      /\ request' \in [Jobs -> {"none", "counted", "stored", "kicked", "done"}]
      /\ NotYetStored'
      /\ \A k \in Jobs : \/ report'[k].status = report[k].status
                         \/ report'[k].status = "queued" /\ report[k].status # "processing"
  <2> DEFINE Docs == [status : Statuses, age : Nat, updated : Nat]
             Steps == {"none", "counted", "stored", "kicked", "done"}
  <2>1. CASE Count(j) \/ Kick(j)
    <3>1. report' = report /\ request[j] \in {"none", "stored"}
      BY <2>1 DEF Count, Kick
    <3>2. \E step \in {"counted", "kicked"} :
            request' = [request EXCEPT ![j] = step] /\ (step = "counted" => request[j] = "none")
      BY <2>1 DEF Count, Kick
    <3>3. request' \in [Jobs -> Steps]
      BY <1>2, <3>2
    <3>4. NotYetStored'
      BY <1>2, <3>1, <3>2 DEF NotYetStored
    <3> QED  BY <1>2, <3>1, <3>3, <3>4
  <2>2. CASE Insert(j)
    <3> DEFINE x == [status |-> "queued", age |-> made', updated |-> now]
    <3>1. x \in [status : Statuses, age : Nat, updated : Nat] /\ x.status = "queued"
      BY <1>1, <1>2 DEF Statuses
    <3>2. /\ report' = [report EXCEPT ![j] = x] /\ request' = [request EXCEPT ![j] = "stored"]
          /\ request[j] = "counted"
      BY <2>2 DEF Insert
    <3> HIDE DEF x
    <3>3. report' \in [Jobs -> Docs] /\ request' \in [Jobs -> Steps]
      BY <1>2, <3>1, <3>2
    <3>4. \A k \in Jobs : IF k = j THEN report'[k] = x ELSE report'[k] = report[k]
      BY <1>2, <3>2
    <3>5. NotYetStored'
      BY <1>2, <3>2, <3>4 DEF NotYetStored
    <3>6. report[j].status = "none"
      BY <1>2, <3>2 DEF NotYetStored
    <3> QED  BY <3>1, <3>3, <3>4, <3>5, <3>6
  <2>3. CASE RowCount(j)
    <3>1. /\ report' = [report EXCEPT ![j].status = report[j].status, ![j].updated = now]
          /\ request' = [request EXCEPT ![j] = "done"]
      BY <2>3 DEF RowCount, Write
    <3>2. report' \in [Jobs -> Docs] /\ request' \in [Jobs -> Steps]
      BY <1>2, <3>1
    <3>3. \A k \in Jobs : report'[k].status = report[k].status
      BY <1>2, <3>1
    <3>4. NotYetStored'
      BY <1>2, <3>1, <3>3 DEF NotYetStored
    <3> QED  BY <3>2, <3>3, <3>4
  <2>4. CASE \E p \in Procs : Retry(j, p)
    <3>1. /\ report' = [report EXCEPT ![j].status = "queued", ![j].updated = now]
          /\ request' = request /\ report[j].status = "failed"
      BY <2>4 DEF Retry, Write
    <3>2. report' \in [Jobs -> [status : Statuses, age : Nat, updated : Nat]]
      BY <1>2, <3>1 DEF Statuses
    <3>3. \A k \in Jobs : report'[k].status = IF k = j THEN "queued" ELSE report[k].status
      BY <1>2, <3>1
    <3>4. NotYetStored'
      BY <1>2, <3>1, <3>3 DEF NotYetStored
    <3> QED  BY <1>2, <3>1, <3>2, <3>3, <3>4
  <2> QED  BY <2>1, <2>2, <2>3, <2>4
<1>5. kicked' \subseteq up
  BY DEF Count, Insert, Kick, RowCount, Retry, procVars, QueueInv, TypeOK
<1>6. HeldInv(ticket, report', file)
  BY <1>2, <1>3, <1>4, OtherDocuments
<1>7. TypeOK'
  BY <1>1, <1>4, <1>5 DEF QueueInv, TypeOK
<1>8. SceneHolds' /\ DownRests' /\ OthersRest'
  BY <1>1 DEF QueueInv, SceneHolds, DownRests, OthersRest
<1>9. HeldInv(ticket, report, file)'
  BY <1>1, <1>6 DEF HeldInv, TurnsHaveJobs, OneHolder, HeldIsProcessing, SavedIsWhole
<1>10. SlotInv(ticket, running, draining)'
  BY <1>1 DEF QueueInv, SlotInv, OneAsks, BusyOf
<1> QED  BY <1>4, <1>7, <1>8, <1>9, <1>10 DEF QueueInv

\* A drain that a kick scheduled.
LEMMA DrainStep ==
  ASSUME QueueInv, part' = part, Scene', NEW p \in Procs, Drain(p)
  PROVE  QueueInv'
<1>1. /\ p \in kicked /\ kicked' = kicked \ {p} /\ Enter(p, running[p], ticket)
      /\ UNCHANGED <<report, file, request, home, up, now, made, crashes, errors, retries>>
  BY DEF Drain, bounds
<1>2. /\ ticket \in [Procs -> [Tickets -> TurnSet]] /\ running \in [Procs -> Nat]
      /\ SlotInv(ticket, running, draining) /\ HeldInv(ticket, report, file)
      /\ p \in up /\ (part = "recovery" => p \in Recoverers)
  BY <1>1 DEF QueueInv, TypeOK, TurnSet, SceneHolds, Scene
<1>3. /\ running' = running /\ AskedMore(ticket, ticket', p)
      /\ ticket' \in [Procs -> [Tickets -> TurnSet]] /\ draining' \subseteq draining \cup {p}
  BY <1>1, <1>2, EnterTurns
<1>4. [running EXCEPT ![p] = running[p]] = running /\ running[p] \in Nat
  BY <1>2
<1>5. SlotInv(ticket', running', draining')
  BY <1>1, <1>2, <1>4, EnterSlots
<1>6. HeldInv(ticket', report, file)
  BY <1>2, <1>3, AskingHoldsNothing
<1>7. \A q \in Procs : q # p => ticket'[q] = ticket[q]
  BY <1>2, <1>3, AskedElsewhere
<1>8. TypeOK'
  BY <1>1, <1>2, <1>3 DEF QueueInv, TypeOK, TurnSet
<1>9. SceneHolds' /\ DownRests' /\ OthersRest' /\ NotYetStored'
  BY <1>1, <1>2, <1>7 DEF QueueInv, SceneHolds, DownRests, OthersRest, NotYetStored
<1>10. HeldInv(ticket, report, file)'
  BY <1>1, <1>6 DEF HeldInv, TurnsHaveJobs, OneHolder, HeldIsProcessing, SavedIsWhole
<1>11. SlotInv(ticket, running, draining)'
  BY <1>5 DEF SlotInv, OneAsks, BusyOf
<1> QED  BY <1>8, <1>9, <1>10, <1>11 DEF QueueInv

\* A crash frees the turns of its process.
LEMMA CrashStep ==
  ASSUME QueueInv, part' = part, Scene', NEW p \in Procs, Crash(p)
  PROVE  QueueInv'
<1>1. /\ ticket \in [Procs -> [Tickets -> TurnSet]] /\ running \in [Procs -> Nat] /\ TypeOK
      /\ SlotInv(ticket, running, draining) /\ HeldInv(ticket, report, file)
  BY DEF QueueInv, TypeOK, TurnSet
<1>2. Idle \in TurnSet /\ Idle.at = "free" /\ Idle.job = NoJob
  BY DEF Idle, TurnSet, Stages, Statuses
<1>3. /\ ticket' \in [Procs -> [Tickets -> TurnSet]]
      /\ \A t \in Tickets : ticket'[p][t] = Idle
      /\ \A q \in Procs : q # p => ticket'[q] = ticket[q]
  BY <1>1, <1>2 DEF Crash
<1>4. /\ running' \in [Procs -> Nat] /\ running'[p] = 0
      /\ \A q \in Procs : q # p => running'[q] = running[q]
      /\ draining' = draining \ {p} /\ up' = up \ {p} /\ kicked' = kicked \ {p}
      /\ UNCHANGED <<report, file, home, now, made, errors, retries>> /\ crashes' \in Nat
  BY <1>1 DEF Crash, TypeOK
<1>5. /\ request' \in [Jobs -> {"none", "counted", "stored", "kicked", "done"}]
      /\ \A j \in Jobs : request'[j] \in {request[j], "done"}
  BY <1>1 DEF Crash, TypeOK
<1>6. TypeOK'
  BY <1>1, <1>3, <1>4, <1>5 DEF TypeOK, TurnSet
<1>7. SceneHolds' /\ DownRests' /\ OthersRest' /\ NotYetStored'
  BY <1>3, <1>4, <1>5 DEF QueueInv, SceneHolds, DownRests, OthersRest, NotYetStored
<1>8. HeldInv(ticket, report, file)'
  <2>1. \A q \in Procs, t \in Tickets :
          ticket'[q][t].at \in Holding \/ ticket'[q][t].at = "save" => ticket'[q][t] = ticket[q][t] /\ q # p
    BY <1>2, <1>3 DEF Holding, Generating
  <2>2. TurnsHaveJobs(ticket')
    BY <1>1, <1>2, <1>3 DEF HeldInv, TurnsHaveJobs, Generating
  <2>3. OneHolder(ticket') /\ HeldIsProcessing(ticket', report)
    BY <1>1, <2>1 DEF HeldInv, OneHolder, HeldIsProcessing
  <2>4. SavedIsWhole(ticket', report, file)
    BY <1>1, <2>1 DEF HeldInv, SavedIsWhole
  <2> QED  BY <1>4, <2>2, <2>3, <2>4 DEF HeldInv, TurnsHaveJobs, OneHolder, HeldIsProcessing, SavedIsWhole
<1>9. SlotInv(ticket', running', draining')
  <2>1. OneAsks(ticket', running', draining')
    BY <1>1, <1>2, <1>3, <1>4 DEF SlotInv, OneAsks, Asking
  <2>2. BusyOf(ticket', p) = {}
    BY <1>2, <1>3 DEF BusyOf, Generating
  <2>3. Cardinality(BusyOf(ticket', p)) = 0
    BY <2>2, FS_EmptySet
  <2>4. \A q \in Procs : q # p => BusyOf(ticket', q) = BusyOf(ticket, q)
    BY <1>3 DEF BusyOf
  <2> QED  BY <1>1, <1>4, <2>1, <2>3, <2>4 DEF SlotInv
<1>10. SlotInv(ticket, running, draining)'
  BY <1>9 DEF SlotInv, OneAsks, BusyOf
<1> QED  BY <1>6, <1>7, <1>8, <1>10 DEF QueueInv

\* A start puts stale jobs back in line.  Nothing is stale in the scene of several
\* processes; in the other one nobody else is at work.
LEMMA RestartStep ==
  ASSUME QueueInv, part' = part, Scene', NEW p \in Procs, Restart(p)
  PROVE  QueueInv'
<1>1. /\ p \notin up /\ up' = up \cup {p}
      /\ UNCHANGED <<file, request, home, draining, running, ticket, now, made, crashes, errors, retries>>
  BY DEF Restart, bounds
<1>2. /\ report \in [Jobs -> [status : Statuses, age : Nat, updated : Nat]] /\ now \in Nat
      /\ HeldInv(ticket, report, file) /\ NotYetStored /\ TypeOK
  BY DEF QueueInv, TypeOK
<1>3. ASSUME NEW j \in Jobs, Stale(j), p \in Recoverers
      PROVE  \A q \in Procs, t \in Tickets : ticket[q][t].at \in Holding => ticket[q][t].job # j
  <2>1. part # "beside"
    <3>1. now # 0
      BY <1>2, <1>3 DEF Stale
    <3> QED  BY <3>1 DEF QueueInv, SceneHolds, Scene
  <2>2. \A q \in Procs : q # p => q \notin Recoverers
    BY <1>3, RecoveryAssumption
  <2>3. \A q \in Procs, t \in Tickets : ticket[q][t] = Idle
    BY <1>1, <2>1, <2>2 DEF QueueInv, SceneHolds, DownRests, OthersRest
  <2> QED  BY <2>3 DEF Idle, Holding, Generating
<1>4. /\ report' \in [Jobs -> [status : Statuses, age : Nat, updated : Nat]]
      /\ \A k \in Jobs : \/ report'[k].status = report[k].status
                         \/ report'[k].status = "queued" /\ Stale(k) /\ p \in Recoverers
  <2>1. CASE p \in Recoverers
    <3>1. \A k \in Jobs : report'[k] = IF Stale(k) THEN [report[k] EXCEPT !.status = "queued", !.updated = now]
                                                  ELSE report[k]
      BY <2>1 DEF Restart
    <3>2. \A k \in Jobs :
            LET x == [report[k] EXCEPT !.status = "queued", !.updated = now]
            IN  x \in [status : Statuses, age : Nat, updated : Nat] /\ x.status = "queued"
      BY <1>2 DEF Statuses
    <3>3. report' = [k \in Jobs |-> report'[k]]
      BY <2>1 DEF Restart
    <3>4. \A k \in Jobs : report'[k] \in [status : Statuses, age : Nat, updated : Nat]
      BY <1>2, <3>1, <3>2
    <3>5. report' \in [Jobs -> [status : Statuses, age : Nat, updated : Nat]]
      BY <3>3, <3>4
    <3>6. \A k \in Jobs : \/ report'[k].status = report[k].status
                          \/ report'[k].status = "queued" /\ Stale(k)
      BY <3>1, <3>2
    <3> QED  BY <2>1, <3>5, <3>6
  <2>2. CASE p \notin Recoverers
    <3>1. report' = report
      BY <2>2 DEF Restart
    <3> QED  BY <1>2, <3>1
  <2> QED  BY <2>1, <2>2
<1>5. HeldInv(ticket, report', file)
  <2>1. file' = file /\ HeldInv(ticket, report, file)
    BY <1>1, <1>2
  <2> QED  BY <1>3, <1>4, <2>1, OtherDocuments
<1>6. NotYetStored'
  BY <1>1, <1>2, <1>4 DEF NotYetStored, Stale
<1>7. TypeOK'
  BY <1>1, <1>2, <1>4 DEF TypeOK, Restart
<1>8. SceneHolds' /\ DownRests' /\ OthersRest'
  BY <1>1 DEF QueueInv, SceneHolds, DownRests, OthersRest
<1>9. HeldInv(ticket, report, file)'
  BY <1>1, <1>5 DEF HeldInv, TurnsHaveJobs, OneHolder, HeldIsProcessing, SavedIsWhole
<1>10. SlotInv(ticket, running, draining)'
  BY <1>1 DEF QueueInv, SlotInv, OneAsks, BusyOf
<1> QED  BY <1>6, <1>7, <1>8, <1>9, <1>10 DEF QueueInv


\* Time that passes moves no turn.
LEMMA TickStep ==
  ASSUME QueueInv, part' = part, Scene', Tick
  PROVE  QueueInv'
<1>1. now' \in Nat /\ UNCHANGED <<report, file, request, home, up, kicked, draining, running, ticket, made, crashes, errors, retries>>
  BY DEF Tick, procVars, bounds, QueueInv, TypeOK
<1>2. TypeOK' /\ NotYetStored' /\ SceneHolds' /\ DownRests' /\ OthersRest'
  BY <1>1 DEF QueueInv, TypeOK, NotYetStored, SceneHolds, DownRests, OthersRest
<1>3. HeldInv(ticket, report, file)'
  BY <1>1 DEF QueueInv, HeldInv, TurnsHaveJobs, OneHolder, HeldIsProcessing, SavedIsWhole
<1>4. SlotInv(ticket, running, draining)'
  BY <1>1 DEF QueueInv, SlotInv, OneAsks, BusyOf
<1> QED  BY <1>2, <1>3, <1>4 DEF QueueInv

-----------------------------------------------------------------------------
(* The invariant of the queue in Upkeep.                                        *)

\* Nothing is under way at the start.
LEMMA QueueStarts == UpkeepInit => QueueInv
<1> SUFFICES ASSUME UpkeepInit PROVE QueueInv
  OBVIOUS
<1>1. Init /\ part \in {"beside", "recovery"} /\ (part = "recovery" => \A j \in Jobs : home[j] \in Recoverers)
  BY DEF UpkeepInit, BackgroundInit
<1>2. Idle \in TurnSet /\ Idle.at = "free" /\ Idle.job = NoJob
  BY DEF Idle, TurnSet, Stages, Statuses
<1>3. \A p \in Procs, t \in Tickets : ticket[p][t] = Idle
  BY <1>1 DEF Init
<1>4. TypeOK
  <2>1. ticket \in [Procs -> [Tickets -> TurnSet]]
    BY <1>1, <1>2 DEF Init
  <2>2. report \in [Jobs -> [status : Statuses, age : Nat, updated : Nat]]
    BY <1>1 DEF Init, Statuses
  <2> QED  BY <1>1, <2>1, <2>2 DEF Init, TypeOK, TurnSet
<1>5. NotYetStored /\ SceneHolds
  BY <1>1 DEF Init, NotYetStored, SceneHolds, Scene
<1>6. DownRests /\ OthersRest
  BY <1>3 DEF DownRests, OthersRest
<1>7. HeldInv(ticket, report, file)
  <2>1. TurnsHaveJobs(ticket) /\ OneHolder(ticket) /\ HeldIsProcessing(ticket, report)
    BY <1>2, <1>3 DEF TurnsHaveJobs, OneHolder, HeldIsProcessing, Holding, Generating
  <2>2. SavedIsWhole(ticket, report, file)
    BY <1>1, <1>2, <1>3 DEF SavedIsWhole, Init
  <2> QED  BY <2>1, <2>2 DEF HeldInv
<1>8. SlotInv(ticket, running, draining)
  <2>1. \A p \in Procs : BusyOf(ticket, p) = {}
    BY <1>2, <1>3 DEF BusyOf, Generating
  <2>2. \A p \in Procs : running[p] = 0 /\ Cardinality(BusyOf(ticket, p)) = 0
    BY <1>1, <2>1, FS_EmptySet DEF Init
  <2>3. OneAsks(ticket, running, draining)
    BY <1>2, <1>3 DEF OneAsks, Asking
  <2> QED  BY <2>2, <2>3 DEF SlotInv
<1> QED  BY <1>4, <1>5, <1>6, <1>7, <1>8 DEF QueueInv

\* Every step of the jobs, the processes and the rest of Upkeep keeps the invariant.
LEMMA QueueStep == QueueInv /\ [UpkeepNext]_upkeepVars => QueueInv'
<1> SUFFICES ASSUME QueueInv, [UpkeepNext]_upkeepVars PROVE QueueInv'
  OBVIOUS
<1>1. CASE UNCHANGED backgroundVars
  <2>1. UNCHANGED <<part, report, file, request, home, up, kicked, draining, running, ticket, now, made, crashes, errors, retries>>
    BY <1>1 DEF backgroundVars, vars
  <2>2. TypeOK' /\ NotYetStored' /\ SceneHolds' /\ DownRests' /\ OthersRest'
    BY <2>1 DEF QueueInv, TypeOK, NotYetStored, SceneHolds, Scene, DownRests, OthersRest
  <2>3. HeldInv(ticket, report, file)'
    BY <2>1 DEF QueueInv, HeldInv, TurnsHaveJobs, OneHolder, HeldIsProcessing, SavedIsWhole
  <2>4. SlotInv(ticket, running, draining)'
    BY <2>1 DEF QueueInv, SlotInv, OneAsks, BusyOf
  <2> QED  BY <2>2, <2>3, <2>4 DEF QueueInv
<1>2. CASE BackgroundNext
  <2>1. part' = part /\ Scene' /\ Next
    BY <1>2 DEF BackgroundNext, Queueing
  <2>2. ASSUME NEW j \in Jobs, Count(j) \/ Insert(j) \/ Kick(j) \/ RowCount(j) \/ (\E p \in Procs : Retry(j, p))
        PROVE  QueueInv'
    BY <2>1, <2>2, RequestStep
  <2>3. ASSUME NEW p \in Procs, Drain(p) \/ Crash(p) \/ Restart(p)
        PROVE  QueueInv'
    BY <2>1, <2>3, DrainStep, CrashStep, RestartStep
  <2>4. ASSUME NEW p \in Procs, NEW t \in Tickets, Working(p, t)
        PROVE  QueueInv'
    BY <2>1, <2>4, WorkStep
  <2>5. CASE Tick
    BY <2>1, <2>5, TickStep
  <2> QED  BY <2>1, <2>2, <2>3, <2>4, <2>5 DEF Next, Working
<1> QED  BY <1>1, <1>2 DEF UpkeepNext, Exporting, upkeepVars

\* Two generators of one report would need the turns that are one.
LEMMA QueueInvGives ==
  ASSUME QueueInv
  PROVE  TypeOK /\ OneRunPerJob /\ ConcurrencyHeld /\ CompletedIsWhole /\ RetryIsClean
<1>1. ASSUME NEW j \in Jobs PROVE Cardinality(Runs(j)) <= 1
  <2>1. \A r, s \in Runs(j) : r = s
    <3>1. TAKE r, s \in Runs(j)
    <3>2. PICK p \in Procs, t \in Tickets : r = <<p, t>>
      BY DEF Runs
    <3>3. PICK q \in Procs, u \in Tickets : s = <<q, u>>
      BY DEF Runs
    <3>4. /\ ticket[p][t].job = j /\ ticket[p][t].at \in Holding
          /\ ticket[q][u].job = j /\ ticket[q][u].at \in Holding
      BY <3>2, <3>3 DEF Runs, Holding
    <3> QED  BY <3>2, <3>3, <3>4 DEF QueueInv, HeldInv, OneHolder
  <2>2. CASE Runs(j) = {}
    BY <2>2, FS_EmptySet
  <2>3. ASSUME NEW r \in Runs(j) PROVE Cardinality(Runs(j)) <= 1
    <3>1. Runs(j) = {r}
      BY <2>1
    <3>2. Cardinality({r}) = 1
      BY FS_Singleton
    <3> QED  BY <3>1, <3>2
  <2> QED  BY <2>2, <2>3
<1>2. ConcurrencyHeld
  BY DEF QueueInv, SlotInv, BusyOf, ConcurrencyHeld, Busy
<1>3. RetryIsClean
  <2> SUFFICES ASSUME NEW j \in Jobs, report[j].status \in {"failed", "queued"}, NEW r \in Runs(j)
               PROVE  FALSE
    BY DEF RetryIsClean
  <2>1. PICK p \in Procs, t \in Tickets : r = <<p, t>>
    BY DEF Runs
  <2>2. ticket[p][t].job = j /\ ticket[p][t].at \in Holding
    BY <2>1 DEF Runs, Holding
  <2> QED  BY <2>2 DEF QueueInv, HeldInv, HeldIsProcessing
<1>4. TypeOK /\ CompletedIsWhole
  BY DEF QueueInv, HeldInv, SavedIsWhole, CompletedIsWhole
<1> QED  BY <1>1, <1>2, <1>3, <1>4 DEF OneRunPerJob

\* A report has one generator at a time, on any number of processes, and no process
\* has more than its slots (reportQueue.ts).
THEOREM QueueRunsApart == UpkeepSpec => []RunsApart
<1>1. UpkeepSpec => UpkeepInit /\ [][UpkeepNext]_upkeepVars
  BY PTL DEF UpkeepSpec
<1>2. QueueInv => RunsApart
  BY QueueInvGives DEF RunsApart
<1> QED  BY <1>1, <1>2, QueueStarts, QueueStep, PTL

\* A report that is offered is written to the end, and one that failed or waits has
\* nobody left that writes it (report.service.ts, reportQueue.ts).
THEOREM QueueFilesWhole == UpkeepSpec => []FilesWhole
<1>1. UpkeepSpec => UpkeepInit /\ [][UpkeepNext]_upkeepVars
  BY PTL DEF UpkeepSpec
<1>2. QueueInv => FilesWhole
  BY QueueInvGives DEF FilesWhole
<1> QED  BY <1>1, <1>2, QueueStarts, QueueStep, PTL

-----------------------------------------------------------------------------
(* The inductive invariant of the accounts behind the console.  What a request   *)
(* relies on holds until another crosses it: then all it is about is stray.      *)

Here(u) == row[u] \in {"active", "suspended"}
On(r, kind) == task[r].kind = kind
Ends(r) == task[r].kind \in {"delete", "close"}
StrayRow(u) == <<"row", u>> \in stray
StrayLogin(l) == <<"login", l>> \in stray
Broken(u) == <<"failed", u>> \in stray

\* What a request may look like.
TaskSet ==
  [kind : {"idle", "create", "update", "delete", "close", "signin", "space"},
   at : {"idle", "login", "row", "space", "home", "member", "audit", "sessions", "save", "members",
         "bind", "session", "undo"},
   row : Rows \cup {0}, login : Logins \cup {0},
   was : {"none", "active", "suspended"}, now : {"none", "active", "suspended"}]
TaskShape(k) ==
  /\ k.kind = "idle" => k = Desk!Idle
  /\ k.kind = "create" =>
       \/ k.at = "login" /\ k.row = 0 /\ k.login = 0
       \/ k.at = "row" /\ k.row = 0 /\ k.login \in Logins
       \/ k.at \in {"space", "home", "member", "audit"} /\ k.row \in Rows /\ k.login \in Logins
  /\ k.kind = "update" =>
       /\ k.row \in Rows /\ k.login \in Logins /\ {k.was, k.now} \subseteq {"active", "suspended"}
       /\ k.at \in {"sessions", "login", "save", "audit"} /\ (k.at = "sessions" => k.now = "suspended")
  /\ k.kind \in {"delete", "close"} =>
       /\ k.row \in Rows /\ k.login \in Logins
       /\ k.at \in {"login", "members", "space", "sessions", "row", "audit"}
       /\ k.kind = "close" => k.at # "audit"
  /\ k.kind = "signin" =>
       /\ k.login \in Logins
       /\ \/ k.at = "row" /\ k.row = 0
          \/ k.at \in {"bind", "session"} /\ k.row \in Rows /\ k.was \in {"active", "suspended"}
  /\ k.kind = "space" => k.at \in {"space", "member", "undo", "home"} /\ k.row \in Rows /\ k.login = 0
TasksTyped == task \in [Requests -> TaskSet] /\ \A r \in Requests : TaskShape(task[r])

\* A row or a login in use was made, and there is one of each at a time.
StoresTyped ==
  /\ login \in [Logins -> {"none", "on", "off", "gone"}]
  /\ row \in [Rows -> {"none", "active", "suspended", "gone"}]
  /\ uid \in [Rows -> Logins \cup {0}]
  /\ spaces \subseteq Rows /\ members \subseteq Rows /\ homes \subseteq Rows /\ sessions \subseteq Rows
  /\ \A u, v \in Rows : Here(u) /\ Here(v) => u = v
  /\ \A l, m \in Logins : {login[l], login[m]} \subseteq {"on", "off"} => l = m
RowsMade ==
  /\ \A u \in Rows : row[u] # "none" => uid[u] \in Logins
  /\ \A u \in Rows : uid[u] \in Logins => login[uid[u]] # "none"
  /\ \A r \in Requests : task[r].login \in Logins => login[task[r].login] # "none"
  /\ \A r \in Requests : task[r].row \in Rows => row[task[r].row] # "none"
  /\ \A u \in spaces \cup members \cup homes \cup sessions : row[u] # "none"
  /\ effects \subseteq {"create", "edit", "suspend", "reactivate", "delete"} \X Rows
  /\ \A e \in effects : e[2] \in Rows /\ row[e[2]] # "none"

\* Requests that cross lose all they are about.
Meets(r, s) ==
  \/ task[r].row = task[s].row /\ task[r].row # 0
  \/ task[r].login = task[s].login /\ task[r].login # 0
Lost(r) ==
  /\ task[r].row # 0 => StrayRow(task[r].row)
  /\ task[r].login # 0 => StrayLogin(task[r].login)
CrossInv ==
  \A r, s \in Requests : r # s /\ Meets(r, s) /\ (Desk!Clash(task[r].kind, task[s].kind) \/ Desk!Clash(task[s].kind, task[r].kind))
    => Lost(r) /\ Lost(s)

\* An account on its way: what is made so far stays.
CreateOf(r) ==
  On(r, "create") /\ task[r].at \in {"space", "home", "member", "audit"} =>
    /\ <<"create", task[r].row>> \in effects
    /\ ~Lost(r) =>
         /\ Here(task[r].row)
         /\ task[r].at # "space" => task[r].row \in spaces
         /\ task[r].at \in {"member", "audit"} => task[r].row \in homes
         /\ task[r].at = "audit" => task[r].row \in members

\* The login of an account that has no row yet is live, or is the login
\* of a row that no sign-in binds to another one.
NewLoginOf(r) ==
  On(r, "create") /\ task[r].at = "row" /\ ~StrayLogin(task[r].login) =>
    \/ login[task[r].login] = "on"
    \/ /\ login[task[r].login] = "off"
       /\ \E u \in Rows :
            /\ Here(u) /\ uid[u] = task[r].login
            /\ \A s \in Requests : ~(On(s, "signin") /\ task[s].at = "bind" /\ task[s].row = u)

\* A change of the status finds the row as it was read, and sessions stay ended.
UpdateOf(r) ==
  On(r, "update") =>
    /\ task[r].at = "audit" => <<Desk!Named(task[r]), task[r].row>> \in effects
    /\ ~Lost(r) =>
         /\ uid[task[r].row] = task[r].login
         /\ row[task[r].row] = IF task[r].at = "audit" THEN task[r].now ELSE task[r].was
         /\ task[r].now = "suspended" /\ task[r].at # "sessions" => task[r].row \notin sessions

\* It has switched the login by the time it saves the status.
SavingOf(r) ==
  /\ On(r, "update") /\ task[r].at = "save"
  /\ ~StrayRow(task[r].row) /\ ~StrayLogin(task[r].login) /\ ~Broken(task[r].row)
  => (task[r].now = "suspended" <=> login[task[r].login] = "off")

\* A deletion leaves nothing behind it.
EndOf(r) ==
  Ends(r) =>
    /\ task[r].at = "audit" => <<"delete", task[r].row>> \in effects
    /\ ~Lost(r) =>
         /\ uid[task[r].row] = task[r].login
         /\ task[r].at \in {"space", "sessions", "row", "audit"} => task[r].row \notin members \cup homes
         /\ task[r].at \in {"sessions", "row", "audit"} => task[r].row \notin spaces
         /\ task[r].at \in {"row", "audit"} => task[r].row \notin sessions
         /\ ~Broken(task[r].row) /\ task[r].at # "login" => login[task[r].login] = "gone"

\* The login it deletes belongs to no other row.
BoundOf(r) ==
  Ends(r) =>
    /\ task[r].at = "audit" => row[task[r].row] = "gone"
    /\ Here(task[r].row) => uid[task[r].row] = task[r].login \/ StrayLogin(uid[task[r].row])
    /\ ~StrayLogin(task[r].login) =>
         \A u \in Rows : Here(u) /\ uid[u] = task[r].login => u = task[r].row

\* A sign-in has a live login, and the row as it read it.
SignOf(r) ==
  On(r, "signin") =>
    /\ ~StrayLogin(task[r].login) => login[task[r].login] = "on"
    /\ ~Lost(r) /\ task[r].at # "row" => row[task[r].row] = task[r].was

\* A workspace is made for a row that is there, and that was not made with one.
SpaceOf(r) ==
  On(r, "space") /\ ~Lost(r) =>
    Here(task[r].row) /\ (Broken(task[r].row) \/ <<"create", task[r].row>> \notin audit)
OneMaker ==
  \A r, s \in Requests :
    /\ task[r].kind \in {"create", "space"} /\ task[s].kind \in {"create", "space"}
    /\ task[r].row = task[s].row /\ task[r].row \in Rows
    => r = s

RequestOf(r) ==
  CreateOf(r) /\ NewLoginOf(r) /\ UpdateOf(r) /\ SavingOf(r) /\ EndOf(r) /\ BoundOf(r) /\ SignOf(r) /\ SpaceOf(r)

\* What is under way to make up for what a row lacks.
Deleting(u) == \E r \in Requests : Ends(r) /\ task[r].row = u
Making(u) ==
  \E r \in Requests :
    /\ task[r].row = u
    /\ \/ On(r, "create") /\ task[r].at \in {"home", "member"}
       \/ On(r, "space") /\ task[r].at \in {"member", "undo"}
       \/ Ends(r) /\ task[r].at = "space"
Saving(u) == \E r \in Requests : On(r, "update") /\ task[r].at = "save" /\ task[r].row = u

\* A row, and the stores that belong to it.
GoneOf(u) ==
  ~StrayRow(u) /\ row[u] = "gone" =>
    u \notin spaces \cup members \cup homes \cup sessions /\ (Broken(u) \/ login[uid[u]] = "gone")
OutOf(u) == ~StrayRow(u) /\ row[u] = "suspended" => u \notin sessions
WholeOf(u) ==
  ~StrayRow(u) /\ ~Broken(u) /\ Here(u) /\ <<"create", u>> \in audit =>
    u \in spaces \cap members \cap homes \/ Deleting(u)
MemberOf(u) == ~StrayRow(u) /\ ~Broken(u) /\ u \in spaces => u \in members \/ Making(u)

\* The login of a row that nobody is deleting is as its status says, or will be.
AgreeOf(u) ==
  Here(u) /\ ~StrayRow(u) /\ ~StrayLogin(uid[u]) /\ ~Broken(u) =>
    \/ Deleting(u)
    \/ /\ login[uid[u]] \in {"on", "off"}
       /\ Saving(u) \/ <<"rebound", u>> \in stray \/ (row[u] = "suspended" <=> login[uid[u]] = "off")

RowOf(u) == GoneOf(u) /\ OutOf(u) /\ WholeOf(u) /\ MemberOf(u) /\ AgreeOf(u)

\* A change without its row in the audit log is under way, or was cut short.
Telling(e) ==
  \E r \in Requests :
    /\ task[r].row = e[2]
    /\ \/ e[1] = "create" /\ On(r, "create")
       \/ On(r, "update") /\ task[r].at = "audit" /\ e[1] = Desk!Named(task[r])
       \/ e[1] = "delete" /\ On(r, "delete") /\ task[r].at = "audit"
AuditInv ==
  /\ audit \subseteq effects
  /\ \A e \in effects \ audit : Broken(e[2]) \/ StrayRow(e[2]) \/ Telling(e)

ConsoleInv ==
  /\ TasksTyped /\ StoresTyped /\ RowsMade /\ CrossInv /\ OneMaker
  /\ \A r \in Requests : RequestOf(r)
  /\ \A u \in Rows : RowOf(u)
  /\ AuditInv
HIDE QueueAssumption
USE UpkeepAssumption DEF Desk!ConsoleAssumption

\* What a step of a request writes into the history.
Marked(r) ==
  /\ CrossInv' /\ stray \subseteq stray'
  /\ refusals' = refusals + 1 /\ task'[r].at # "undo" => <<"failed", task[r].row>> \in stray'
  /\ \A u \in Rows : row[u] = "suspended" /\ uid'[u] # uid[u] => <<"rebound", u>> \in stray'

\* One request moves.
Turned(r, k) ==
  /\ task' \in [Requests -> TaskSet] /\ task'[r] = k /\ TaskShape(k)
  /\ \A s \in Requests : s # r => task'[s] = task[s]
StoresSame == UNCHANGED <<login, row, uid, spaces, members, homes, sessions, audit, effects>>

\* Requests that cross before a step are lost after it.
LEMMA Apart ==
  ASSUME CrossInv, NEW r \in Requests, NEW s \in Requests, r # s,
         \/ task[r].row = task[s].row /\ task[r].row # 0
         \/ task[r].login = task[s].login /\ task[r].login # 0,
         Desk!Clash(task[r].kind, task[s].kind) \/ Desk!Clash(task[s].kind, task[r].kind)
  PROVE  Lost(r) /\ Lost(s)
BY DEF CrossInv, Meets

\* What is stray remains so, and with it the requests that are lost.
LEMMA StrayStays ==
  ASSUME NEW r \in Requests, Marked(r), NEW s \in Requests, task'[s] = task[s]
  PROVE  /\ Lost(s) => Lost(s)'
         /\ StrayRow(task[s].row) => StrayRow(task[s].row)'
         /\ StrayLogin(task[s].login) => StrayLogin(task[s].login)'
         /\ Broken(task[s].row) => Broken(task[s].row)'
         /\ \A kind : On(s, kind)' <=> On(s, kind)
         /\ Ends(s)' <=> Ends(s)
BY DEF Marked, Lost, StrayRow, StrayLogin, Broken, On, Ends

\* A request that goes on stays what it is.
LEMMA RequestGoesOn ==
  ASSUME NEW r \in Requests, TasksTyped, NEW at \in {"login", "row", "space", "home", "member", "audit", "sessions", "save",
           "members", "bind", "session", "undo"},
         task' = [task EXCEPT ![r].at = at], TaskShape([task[r] EXCEPT !.at = at])
  PROVE  /\ Turned(r, [task[r] EXCEPT !.at = at])
         /\ task'[r].at = at /\ task'[r].kind = task[r].kind /\ task'[r].row = task[r].row
         /\ task'[r].login = task[r].login /\ task'[r].was = task[r].was /\ task'[r].now = task[r].now
<1>1. task \in [Requests -> TaskSet]
  BY DEF TasksTyped
<1>2. [task[r] EXCEPT !.at = at] \in TaskSet
  BY <1>1 DEF TaskSet
<1>3. task' = [task EXCEPT ![r] = [task[r] EXCEPT !.at = at]]
  BY <1>1
<1>4. Turned(r, [task[r] EXCEPT !.at = at])
  BY <1>1, <1>2, <1>3 DEF Turned
<1> QED  BY <1>1, <1>2, <1>4 DEF Turned, TaskSet

\* While the stores stay as they are, so does what the other requests rely on.
LEMMA OthersSame ==
  ASSUME ConsoleInv, NEW r \in Requests, Marked(r), StoresSame, NEW s \in Requests, task'[s] = task[s],
         \A x \in Requests : x # r => task'[x] = task[x],
         task'[r].kind = "signin" /\ task'[r].at = "bind" => task'[r].login \in Logins /\ login[task'[r].login] = "on"
  PROVE  RequestOf(s)'
<1>1. RequestOf(s)
  BY DEF ConsoleInv
<1>2. UNCHANGED <<login, row, uid, spaces, members, homes, sessions, audit, effects>> /\ stray \subseteq stray'
  BY DEF StoresSame, Marked
<1>3. \A u \in Rows : Here(u)' <=> Here(u)
  BY <1>2 DEF Here
<1>4. CreateOf(s)' /\ NewLoginOf(s)'
  <2>1. CreateOf(s)'
    BY <1>1, <1>2, <1>3, StrayStays DEF RequestOf, CreateOf, Here
  <2>2. SUFFICES ASSUME (On(s, "create") /\ task[s].at = "row" /\ ~StrayLogin(task[s].login))'
                 PROVE  NewLoginOf(s)'
    BY <2>1 DEF NewLoginOf
  <2>3. On(s, "create") /\ task[s].at = "row" /\ ~StrayLogin(task[s].login) /\ NewLoginOf(s) /\ task[s].login \in Logins
    BY <1>1, <2>2, StrayStays DEF RequestOf, ConsoleInv, TasksTyped, TaskShape, On
  <2>4. CASE login[task[s].login] = "on"
    BY <1>2, <2>4 DEF NewLoginOf
  <2>5. CASE login[task[s].login] = "off"
    <3>1. PICK u \in Rows :
            /\ Here(u) /\ uid[u] = task[s].login
            /\ \A x \in Requests : ~(On(x, "signin") /\ task[x].at = "bind" /\ task[x].row = u)
      BY <2>3, <2>5 DEF NewLoginOf
    <3>2. \A l \in Logins : login[l] # "on"
      BY <2>3, <2>5 DEF ConsoleInv, StoresTyped
    <3>3. \A x \in Requests : ~(On(x, "signin") /\ task[x].at = "bind" /\ task[x].row = u)'
      BY <3>1, <3>2 DEF On
    <3> QED  BY <1>2, <1>3, <2>5, <3>1, <3>3 DEF NewLoginOf
  <2> QED  BY <2>1, <2>3, <2>4, <2>5 DEF NewLoginOf
<1>5. UpdateOf(s)' /\ SavingOf(s)'
  BY <1>1, <1>2, StrayStays DEF RequestOf, UpdateOf, SavingOf, Desk!Named
<1>6. EndOf(s)' /\ BoundOf(s)'
  <2>1. uid' = uid /\ \A l : <<"login", l>> \in stray => <<"login", l>> \in stray'
    BY <1>2
  <2>2. (StrayLogin(uid[task[s].row]) => StrayLogin(uid[task[s].row])')
    BY <2>1 DEF StrayLogin
  <2>3. task[s].row \in Rows \/ ~Ends(s)
    BY DEF ConsoleInv, TasksTyped, TaskShape, Ends
  <2>4. CASE Ends(s)
    <3>1. Here(task[s].row)' <=> Here(task[s].row)
      BY <1>3, <2>3, <2>4
    <3> QED  BY <1>1, <1>2, <1>3, <2>2, <2>4, <3>1, StrayStays DEF RequestOf, EndOf, BoundOf
  <2>5. CASE ~Ends(s)
    BY <2>5, StrayStays DEF EndOf, BoundOf
  <2> QED  BY <2>4, <2>5
<1>7. SignOf(s)' /\ SpaceOf(s)'
  BY <1>1, <1>2, <1>3, StrayStays DEF RequestOf, SignOf, SpaceOf, Here
<1> QED  BY <1>4, <1>5, <1>6, <1>7 DEF RequestOf

\* While the stores stay as they are, a row only needs its requests.
LEMMA RowsSame ==
  ASSUME ConsoleInv, NEW r \in Requests, Marked(r), StoresSame, NEW u \in Rows,
         Here(u) /\ Deleting(u) => Deleting(u)' \/ StrayRow(u)' \/ Broken(u)',
         Making(u) => Making(u)' \/ StrayRow(u)' \/ Broken(u)',
         Here(u) /\ Saving(u) => Saving(u)' \/ StrayRow(u)' \/ Broken(u)'
  PROVE  RowOf(u)'
<1>1. RowOf(u)
  BY DEF ConsoleInv
<1>2. UNCHANGED <<login, row, uid, spaces, members, homes, sessions, audit, effects>> /\ stray \subseteq stray'
  BY DEF StoresSame, Marked
<1>3. /\ Here(u)' <=> Here(u)
      /\ StrayRow(u) => StrayRow(u)'
      /\ StrayLogin(uid[u]) => StrayLogin(uid[u])'
      /\ Broken(u) => Broken(u)'
  BY <1>2 DEF Here, StrayRow, StrayLogin, Broken
<1>4. GoneOf(u)' /\ OutOf(u)'
  BY <1>1, <1>2, <1>3 DEF RowOf, GoneOf, OutOf
<1>5. WholeOf(u)' /\ MemberOf(u)'
  BY <1>1, <1>2, <1>3 DEF RowOf, WholeOf, MemberOf
<1>6. AgreeOf(u)'
  BY <1>1, <1>2, <1>3 DEF RowOf, AgreeOf
<1> QED  BY <1>4, <1>5, <1>6 DEF RowOf
\* The stores as they are, typed and made, but for the request that moves.
LEMMA StoresKept ==
  ASSUME ConsoleInv, NEW r \in Requests, Marked(r), StoresSame, NEW k, Turned(r, k),
         k.row \in Rows => row[k.row] # "none", k.login \in Logins => login[k.login] # "none"
  PROVE  TasksTyped' /\ StoresTyped' /\ RowsMade' /\ CrossInv' /\ audit' \subseteq effects'
<1>1. TasksTyped'
  BY DEF Turned, TasksTyped, ConsoleInv
<1>2. StoresTyped'
  BY DEF StoresSame, StoresTyped, ConsoleInv, Here
<1>3. RowsMade'
  BY DEF StoresSame, RowsMade, ConsoleInv, Turned
<1> QED  BY <1>1, <1>2, <1>3 DEF Marked, AuditInv, StoresSame, ConsoleInv

\* A request that begins, and a step of one that writes nothing.
LEMMA BeginKeeps ==
  ASSUME ConsoleInv, NEW r \in Requests, Marked(r), StoresSame, NEW k, Turned(r, k), task[r] = Desk!Idle,
         k.row \in Rows => row[k.row] # "none", k.login \in Logins => login[k.login] # "none",
         OneMaker', RequestOf(r)',
         k.kind = "signin" /\ k.at = "bind" => k.login \in Logins /\ login[k.login] = "on"
  PROVE  ConsoleInv'
<1>1. \A s \in Requests : s # r => task'[s] = task[s]
  BY DEF Turned
<1>2. ~On(r, "create") /\ ~On(r, "space") /\ ~Ends(r) /\ ~On(r, "update") /\ ~On(r, "delete")
  BY DEF Desk!Idle, On, Ends
<1>3. \A s \in Requests : RequestOf(s)'
  BY <1>1, OthersSame DEF Turned
<1>4. ASSUME NEW u \in Rows PROVE RowOf(u)'
  <2>1. Deleting(u) => Deleting(u)'
    BY <1>1, <1>2 DEF Deleting, Ends
  <2>2. Making(u) => Making(u)'
    BY <1>1, <1>2 DEF Making, Ends, On
  <2>3. Saving(u) => Saving(u)'
    BY <1>1, <1>2 DEF Saving, On
  <2> QED  BY <2>1, <2>2, <2>3, RowsSame
<1>5. AuditInv'
  <2>1. ASSUME NEW e \in effects, Telling(e) PROVE Telling(e)'
    BY <1>1, <1>2, <2>1 DEF Telling, On, Desk!Named
  <2>2. \A e \in effects : (Broken(e[2]) => Broken(e[2])') /\ (StrayRow(e[2]) => StrayRow(e[2])')
    BY DEF Broken, StrayRow, Marked
  <2> QED  BY <2>1, <2>2, StoresKept DEF AuditInv, StoresSame, ConsoleInv
<1> QED  BY <1>3, <1>4, <1>5, StoresKept DEF ConsoleInv

\* A request that ends with nothing left to do, or that leaves its row broken or stray.
LEMMA RequestEnds ==
  ASSUME ConsoleInv, NEW r \in Requests, Marked(r), StoresSame, Turned(r, Desk!Idle),
         \/ task[r].kind = "signin"
         \/ task[r].kind = "create" /\ task[r].at \in {"login", "row"}
         \/ task[r].kind = "update" /\ task[r].at = "save" /\ ~Here(task[r].row)
         \/ StrayRow(task[r].row) \/ <<"failed", task[r].row>> \in stray'
  PROVE  ConsoleInv'
<1>1. \A s \in Requests : s # r => task'[s] = task[s]
  BY DEF Turned
<1>2. task'[r] = Desk!Idle /\ Desk!Idle.kind = "idle" /\ Desk!Idle.row = 0 /\ Desk!Idle.login = 0 /\ 0 \notin Rows /\ 0 \notin Logins
  BY DEF Turned, Desk!Idle, Desk!NoRow, Desk!NoLogin
<1>3. \A s \in Requests : RequestOf(s)'
  <2>1. RequestOf(r)'
    BY <1>2 DEF RequestOf, CreateOf, NewLoginOf, UpdateOf, SavingOf, EndOf, BoundOf, SignOf, SpaceOf, On, Ends
  <2> QED  BY <1>1, <1>2, <2>1, OthersSame
<1>4. \A u \in Rows : (StrayRow(u) => StrayRow(u)') /\ (Broken(u) => Broken(u)')
  BY DEF StrayRow, Broken, Marked
<1>5. task[r].row \in Rows =>
        \/ task[r].kind = "signin"
        \/ task[r].kind = "update" /\ task[r].at = "save" /\ ~Here(task[r].row)
        \/ StrayRow(task[r].row) \/ <<"failed", task[r].row>> \in stray'
  BY DEF ConsoleInv, TasksTyped, TaskShape
<1>6. ASSUME NEW u \in Rows PROVE RowOf(u)'
  <2>1. Here(u) /\ Deleting(u) => Deleting(u)' \/ StrayRow(u)' \/ Broken(u)'
    BY <1>1, <1>4, <1>5 DEF Deleting, Ends, Broken
  <2>2. Making(u) => Making(u)' \/ StrayRow(u)' \/ Broken(u)'
    BY <1>1, <1>4, <1>5 DEF Making, Ends, On, Broken
  <2>3. Here(u) /\ Saving(u) => Saving(u)' \/ StrayRow(u)' \/ Broken(u)'
    BY <1>1, <1>4, <1>5 DEF Saving, On, Broken
  <2> QED  BY <2>1, <2>2, <2>3, RowsSame
<1>7. AuditInv'
  <2>1. ASSUME NEW e \in effects, Telling(e) PROVE Telling(e)' \/ StrayRow(e[2])' \/ Broken(e[2])'
    <3>1. e[2] \in Rows
      BY DEF ConsoleInv, RowsMade
    <3> QED  BY <1>1, <1>4, <1>5, <2>1, <3>1 DEF Telling, On, Desk!Named, Broken
  <2> QED  BY <1>2, <1>4, <2>1, StoresKept DEF AuditInv, StoresSame, ConsoleInv, RowsMade
<1>8. OneMaker'
  BY <1>1, <1>2 DEF OneMaker, ConsoleInv
<1> QED  BY <1>2, <1>3, <1>6, <1>7, <1>8, StoresKept DEF ConsoleInv

\* A request begins: what it read it has read just now.
LEMMA CreateBegins ==
  ASSUME ConsoleInv, NEW r \in Requests, Marked(r), Desk!Create(r)
  PROVE  ConsoleInv'
<1> DEFINE k == [Desk!Idle EXCEPT !.kind = "create", !.at = "login"]
<1>1. /\ task' = [task EXCEPT ![r] = k] /\ task[r] = Desk!Idle /\ StoresSame
      /\ k.kind = "create" /\ k.at = "login" /\ k.row = 0 /\ k.login = 0 /\ k \in TaskSet
  BY DEF Desk!Create, Desk!Begin, Desk!accounts, StoresSame, Desk!Idle, TaskSet, Desk!NoRow, Desk!NoLogin
<1> HIDE DEF k
<1>2. Turned(r, k)
  BY <1>1 DEF Turned, TaskShape, ConsoleInv, TasksTyped
<1>3. RequestOf(r)' /\ OneMaker'
  BY <1>1, <1>2 DEF Turned, RequestOf, CreateOf, NewLoginOf, UpdateOf, SavingOf, EndOf, BoundOf, SignOf, SpaceOf, On, Ends, OneMaker, ConsoleInv
<1> QED  BY <1>1, <1>2, <1>3, BeginKeeps

\* A change of a status begins with the row and the login as they are.
LEMMA UpdateBegins ==
  ASSUME ConsoleInv, NEW r \in Requests, Marked(r), Desk!Update(r)
  PROVE  ConsoleInv'
<1>1. PICK u \in Rows, next \in {"active", "suspended"} :
        /\ Here(u) /\ task[r] = Desk!Idle /\ StoresSame
        /\ task' = [task EXCEPT ![r] =
             [kind |-> "update", at |-> IF next = "suspended" THEN "sessions" ELSE "login",
              row |-> u, login |-> uid[u], was |-> row[u], now |-> next]]
  BY DEF Desk!Update, Desk!Begin, Desk!accounts, StoresSame, Desk!Existing, Desk!Present, Here
<1> DEFINE k == [kind |-> "update", at |-> IF next = "suspended" THEN "sessions" ELSE "login",
                 row |-> u, login |-> uid[u], was |-> row[u], now |-> next]
<1>2. uid[u] \in Logins /\ 0 \notin Rows /\ 0 \notin Logins
  BY <1>1 DEF ConsoleInv, RowsMade, Here
<1>3. /\ k.kind = "update" /\ k.at \in {"sessions", "login"} /\ (k.at = "sessions" <=> next = "suspended")
      /\ k.row = u /\ k.login = uid[u] /\ k.was = row[u] /\ k.now = next /\ k \in TaskSet
  BY <1>1, <1>2 DEF TaskSet, Here
<1> HIDE DEF k
<1>4. Turned(r, k)
  BY <1>1, <1>2, <1>3 DEF Turned, TaskShape, ConsoleInv, TasksTyped, k, Here
<1>5. RequestOf(r)' /\ OneMaker'
  BY <1>1, <1>3, <1>4 DEF Turned, StoresSame, RequestOf, CreateOf, NewLoginOf, UpdateOf, SavingOf, EndOf, BoundOf, SignOf, SpaceOf, On, Ends, OneMaker, ConsoleInv
<1>6. k.login \in Logins => login[k.login] # "none"
  BY <1>1, <1>2, <1>3 DEF ConsoleInv, RowsMade
<1> QED  BY <1>1, <1>3, <1>4, <1>5, <1>6, BeginKeeps DEF Here

\* A deletion begins at a row that is there.
LEMMA DeleteBegins ==
  ASSUME ConsoleInv, NEW r \in Requests, Marked(r), Desk!Delete(r) \/ Desk!Close(r)
  PROVE  ConsoleInv'
<1>1. PICK u \in Rows, kind \in {"delete", "close"} :
        /\ Here(u) /\ task[r] = Desk!Idle /\ StoresSame
        /\ task' = [task EXCEPT ![r] =
             [Desk!Idle EXCEPT !.kind = kind, !.at = "login", !.row = u, !.login = uid[u]]]
  BY DEF Desk!Delete, Desk!Close, Desk!Begin, Desk!accounts, StoresSame, Desk!Existing, Desk!Present, Here
<1> DEFINE k == [Desk!Idle EXCEPT !.kind = kind, !.at = "login", !.row = u, !.login = uid[u]]
<1>2. uid[u] \in Logins
  BY <1>1 DEF ConsoleInv, RowsMade, Here
<1>3. k.kind = kind /\ k.at = "login" /\ k.row = u /\ k.login = uid[u] /\ k \in TaskSet
  BY <1>1, <1>2 DEF TaskSet, Desk!Idle
<1> HIDE DEF k
<1>4. Turned(r, k)
  BY <1>1, <1>2, <1>3 DEF Turned, TaskShape, ConsoleInv, TasksTyped, k
<1>5. RequestOf(r)' /\ OneMaker'
  <2>1. \A v \in Rows : Here(v) => v = u
    BY <1>1 DEF ConsoleInv, StoresTyped
  <2> QED  BY <1>1, <1>3, <1>4, <2>1 DEF Turned, StoresSame, RequestOf, CreateOf, NewLoginOf, UpdateOf, SavingOf, EndOf, BoundOf, SignOf,
             SpaceOf, On, Ends, OneMaker, ConsoleInv, Here
<1>6. k.login \in Logins => login[k.login] # "none"
  BY <1>1, <1>2, <1>3 DEF ConsoleInv, RowsMade
<1> QED  BY <1>1, <1>3, <1>4, <1>5, <1>6, BeginKeeps DEF Here

\* A sign-in begins with a live login, and the row as it is.
LEMMA SignInBegins ==
  ASSUME ConsoleInv, NEW r \in Requests, Marked(r), Desk!SignIn(r)
  PROVE  ConsoleInv'
<1>1. PICK k \in TaskSet :
        /\ task[r] = Desk!Idle /\ StoresSame /\ task' = [task EXCEPT ![r] = k]
        /\ k.kind = "signin" /\ k.login \in Logins /\ login[k.login] = "on"
        /\ \/ k.at = "row" /\ k.row = 0
           \/ k.at \in {"bind", "session"} /\ k.row \in Rows /\ Here(k.row) /\ k.was = row[k.row]
  <2>1. PICK l \in Logins :
          /\ login[l] = "on"
          /\ IF Desk!Existing = {}
             THEN Desk!Begin(r, [Desk!Idle EXCEPT !.kind = "signin", !.at = "row", !.login = l])
             ELSE \E u \in Desk!Existing :
                    Desk!Begin(r, [Desk!Idle EXCEPT !.kind = "signin", !.row = u, !.login = l, !.was = row[u],
                                   !.at = IF uid[u] = l THEN "session" ELSE "bind"])
    BY DEF Desk!SignIn, Desk!Enabled
  <2>2. StoresSame
    BY DEF Desk!SignIn, Desk!accounts, StoresSame
  <2>3. CASE Desk!Existing = {}
    <3> DEFINE k == [Desk!Idle EXCEPT !.kind = "signin", !.at = "row", !.login = l]
    <3>1. k \in TaskSet /\ k.kind = "signin" /\ k.login = l /\ k.at = "row" /\ k.row = 0
      BY DEF TaskSet, Desk!Idle, Desk!NoRow, Desk!NoLogin
    <3>2. task[r] = Desk!Idle /\ task' = [task EXCEPT ![r] = k]
      BY <2>1, <2>3 DEF Desk!Begin
    <3> QED  BY <2>1, <2>2, <3>1, <3>2
  <2>4. CASE Desk!Existing # {}
    <3>1. PICK u \in Desk!Existing :
            Desk!Begin(r, [Desk!Idle EXCEPT !.kind = "signin", !.row = u, !.login = l, !.was = row[u],
                           !.at = IF uid[u] = l THEN "session" ELSE "bind"])
      BY <2>1, <2>4
    <3>2. u \in Rows /\ Here(u)
      BY DEF Desk!Existing, Desk!Present, Here
    <3> DEFINE k == [Desk!Idle EXCEPT !.kind = "signin", !.row = u, !.login = l, !.was = row[u],
                     !.at = IF uid[u] = l THEN "session" ELSE "bind"]
    <3>3. /\ k \in TaskSet /\ k.kind = "signin" /\ k.login = l /\ k.at \in {"bind", "session"}
          /\ k.row = u /\ k.was = row[u]
      BY <3>2 DEF TaskSet, Desk!Idle, Here
    <3>4. task[r] = Desk!Idle /\ task' = [task EXCEPT ![r] = k]
      BY <3>1 DEF Desk!Begin
    <3> QED  BY <2>1, <2>2, <3>2, <3>3, <3>4
  <2> QED  BY <2>3, <2>4
<1>2. Turned(r, k)
  BY <1>1 DEF Turned, TaskShape, ConsoleInv, TasksTyped, Here
<1>3. RequestOf(r)' /\ OneMaker'
  BY <1>1, <1>2 DEF Turned, StoresSame, RequestOf, CreateOf, NewLoginOf, UpdateOf, SavingOf, EndOf, BoundOf, SignOf,
    SpaceOf, On, Ends, OneMaker, ConsoleInv
<1> QED  BY <1>1, <1>2, <1>3, BeginKeeps DEF Here

\* A workspace is begun for an account that has none, and by nobody else.
LEMMA OwnSpaceBegins ==
  ASSUME ConsoleInv, NEW r \in Requests, Marked(r), Desk!OwnSpace(r)
  PROVE  ConsoleInv'
<1>1. PICK u \in Rows :
        /\ Here(u) /\ u \notin spaces /\ task[r] = Desk!Idle /\ StoresSame
        /\ \A s \in Requests : task[s].row = u => task[s].kind \notin {"create", "space"}
        /\ task' = [task EXCEPT ![r] = [Desk!Idle EXCEPT !.kind = "space", !.at = "space", !.row = u]]
  BY DEF Desk!OwnSpace, Desk!Begin, Desk!accounts, StoresSame, Desk!Existing, Desk!Present, Here
<1> DEFINE k == [Desk!Idle EXCEPT !.kind = "space", !.at = "space", !.row = u]
<1>2. k.kind = "space" /\ k.at = "space" /\ k.row = u /\ k.login = 0 /\ k \in TaskSet
  BY <1>1 DEF TaskSet, Desk!Idle, Desk!NoLogin
<1> HIDE DEF k
<1>3. Turned(r, k)
  BY <1>1, <1>2 DEF Turned, TaskShape, ConsoleInv, TasksTyped, k
<1>4. OneMaker'
  BY <1>1, <1>2, <1>3 DEF Turned, OneMaker, ConsoleInv
<1>5. task'[r] = k /\ \A s \in Requests : s # r => task'[s] = task[s]
  BY <1>3 DEF Turned
<1>6. ASSUME ~StrayRow(u)', ~Broken(u)', <<"create", u>> \in audit PROVE FALSE
  <2>1. ~StrayRow(u) /\ ~Broken(u)
    BY <1>6 DEF StrayRow, Broken, Marked
  <2>2. PICK s \in Requests : Ends(s) /\ task[s].row = u
    BY <1>1, <1>6, <2>1 DEF ConsoleInv, RowOf, WholeOf, Deleting
  <2>3. s # r
    BY <1>1, <2>2 DEF Ends, Desk!Idle
  <2>4. Meets(s, r)' /\ Desk!Clash(task'[s].kind, task'[r].kind)
    BY <1>2, <1>5, <2>2, <2>3 DEF Meets, Desk!Clash, Ends
  <2>5. Lost(r)'
    BY <2>3, <2>4 DEF Marked, CrossInv
  <2> QED  BY <1>2, <1>5, <1>6, <2>5 DEF Lost, StrayRow
<1>8. SpaceOf(r)'
  <2>1. Here(u)' /\ audit' = audit /\ task'[r].row = u
    BY <1>1, <1>2, <1>5 DEF StoresSame, Here
  <2>2. StrayRow(u)' => Lost(r)'
    BY <1>2, <1>5 DEF Lost, StrayRow, StrayLogin
  <2> QED  BY <1>6, <2>1, <2>2 DEF SpaceOf, Broken
<1>7. RequestOf(r)'
  BY <1>2, <1>5, <1>8 DEF RequestOf, CreateOf, NewLoginOf, UpdateOf, SavingOf, EndOf, BoundOf, SignOf, On, Ends
<1> QED  BY <1>1, <1>2, <1>3, <1>4, <1>7, BeginKeeps DEF Here

\* What does not change, and what only grows, when one request moves.
Others(r) == \A s \in Requests : s # r => task'[s] = task[s]
More ==
  \A v : /\ StrayRow(v) => StrayRow(v)'
         /\ StrayLogin(v) => StrayLogin(v)'
         /\ Broken(v) => Broken(v)'

\* A request that goes on is what it was, and so is what is under way at the rows it is not about.
LEMMA Moves ==
  ASSUME ConsoleInv, NEW r \in Requests, Marked(r),
         NEW at \in {"login", "row", "space", "home", "member", "audit", "sessions", "save", "members", "bind", "session", "undo"},
         task' = [task EXCEPT ![r].at = at], TaskShape([task[r] EXCEPT !.at = at]), task[r].at # "audit"
  PROVE  /\ task'[r].at = at /\ task'[r].kind = task[r].kind /\ task'[r].row = task[r].row
         /\ task'[r].login = task[r].login /\ task'[r].was = task[r].was /\ task'[r].now = task[r].now
         /\ Others(r) /\ More /\ (Lost(r) => Lost(r)')
         /\ TasksTyped' /\ CrossInv' /\ OneMaker'
         /\ \A e : Telling(e) => Telling(e)'
         /\ \A v : Deleting(v) => Deleting(v)'
         /\ \A v : v # task[r].row => (Making(v) => Making(v)') /\ (Saving(v) => Saving(v)')
<1>1. /\ Turned(r, [task[r] EXCEPT !.at = at])
      /\ task'[r].at = at /\ task'[r].kind = task[r].kind /\ task'[r].row = task[r].row
      /\ task'[r].login = task[r].login /\ task'[r].was = task[r].was /\ task'[r].now = task[r].now
  BY RequestGoesOn DEF ConsoleInv
<1>2. Others(r) /\ More
  BY <1>1 DEF Turned, Others, More, Marked, StrayRow, StrayLogin, Broken
<1>3. TasksTyped' /\ CrossInv'
  BY <1>1 DEF Turned, TasksTyped, ConsoleInv, Marked
<1>4. OneMaker'
  BY <1>1, <1>2 DEF OneMaker, ConsoleInv, Others
<1>5. Lost(r) => Lost(r)'
  BY <1>1, <1>2 DEF Lost, More
<1>6. ASSUME NEW e, Telling(e) PROVE Telling(e)'
  BY <1>1, <1>2, <1>6 DEF Telling, On, Others, Desk!Named
<1>7. ASSUME NEW v, Deleting(v) PROVE Deleting(v)'
  BY <1>1, <1>2, <1>7 DEF Deleting, Ends, Others
<1>8. ASSUME NEW v, v # task[r].row PROVE (Making(v) => Making(v)') /\ (Saving(v) => Saving(v)')
  BY <1>1, <1>2, <1>8 DEF Making, Saving, On, Ends, Others
<1> QED  BY <1>1, <1>2, <1>3, <1>4, <1>5, <1>6, <1>7, <1>8

\* A request that ends leaves the others and the rows it is not about.
LEMMA Finishes ==
  ASSUME ConsoleInv, NEW r \in Requests, Marked(r), task' = [task EXCEPT ![r] = Desk!Idle]
  PROVE  /\ task'[r] = Desk!Idle /\ Others(r) /\ More
         /\ TasksTyped' /\ CrossInv' /\ OneMaker' /\ RequestOf(r)'
         /\ \A e : e[2] # task[r].row => (Telling(e) => Telling(e)')
         /\ \A v : v # task[r].row => (Deleting(v) => Deleting(v)') /\ (Making(v) => Making(v)') /\ (Saving(v) => Saving(v)')
<1>1. /\ Desk!Idle \in TaskSet /\ Desk!Idle.kind = "idle" /\ Desk!Idle.row = 0 /\ 0 \notin Rows
      /\ TaskShape(Desk!Idle)
  BY DEF Desk!Idle, TaskSet, TaskShape, Desk!NoRow, Desk!NoLogin
<1>2. task'[r] = Desk!Idle /\ Others(r) /\ Turned(r, Desk!Idle)
  BY <1>1 DEF Turned, Others, ConsoleInv, TasksTyped
<1>3. More /\ CrossInv'
  BY DEF More, Marked, StrayRow, StrayLogin, Broken
<1>4. TasksTyped'
  BY <1>2 DEF Turned, TasksTyped, ConsoleInv
<1>5. OneMaker'
  BY <1>1, <1>2 DEF OneMaker, ConsoleInv, Others
<1>6. RequestOf(r)'
  BY <1>1, <1>2 DEF RequestOf, CreateOf, NewLoginOf, UpdateOf, SavingOf, EndOf, BoundOf, SignOf, SpaceOf, On, Ends
<1>7. ASSUME NEW e, e[2] # task[r].row, Telling(e) PROVE Telling(e)'
  BY <1>2, <1>7 DEF Telling, On, Others, Desk!Named
<1>8. ASSUME NEW v, v # task[r].row
      PROVE  (Deleting(v) => Deleting(v)') /\ (Making(v) => Making(v)') /\ (Saving(v) => Saving(v)')
  BY <1>2, <1>8 DEF Deleting, Making, Saving, On, Ends, Others
<1> QED  BY <1>2, <1>3, <1>4, <1>5, <1>6, <1>7, <1>8

\* What another request relies on: the row, the login and the stores it has written;
\* a deletion only on what is gone.
Untouched(s) ==
  /\ Ends(s) \/ On(s, "update") => uid'[task[s].row] = uid[task[s].row]
  /\ task[s].row \in Rows /\ ~Ends(s) =>
       /\ Here(task[s].row) => row'[task[s].row] \in {"active", "suspended"}
       /\ On(s, "update") \/ On(s, "signin") => row'[task[s].row] = row[task[s].row]
  /\ task[s].login \in Logins /\ ~On(s, "create") =>
       \/ login'[task[s].login] = login[task[s].login]
       \/ Ends(s) /\ login'[task[s].login] = "gone"
  /\ On(s, "create") =>
       /\ task[s].row \in spaces => task[s].row \in spaces'
       /\ task[s].row \in homes => task[s].row \in homes'
       /\ task[s].row \in members => task[s].row \in members'
  /\ Ends(s) =>
       /\ task[s].row \in spaces' => task[s].row \in spaces
       /\ task[s].row \in homes' => task[s].row \in homes
       /\ task[s].row \in members' => task[s].row \in members
  /\ Ends(s) \/ On(s, "update") => (task[s].row \in sessions' => task[s].row \in sessions)
  /\ On(s, "space") => (<<"create", task[s].row>> \in audit' => <<"create", task[s].row>> \in audit)

\* It keeps what it relies on, or it is lost.
LEMMA OthersKeep ==
  ASSUME ConsoleInv, NEW s \in Requests, task'[s] = task[s], More, effects \subseteq effects',
         Lost(s) \/ Untouched(s), NewLoginOf(s)', BoundOf(s)'
  PROVE  RequestOf(s)'
<1>1. RequestOf(s) /\ TaskShape(task[s]) /\ 0 \notin Rows /\ 0 \notin Logins
  BY DEF ConsoleInv, TasksTyped
<1>2. /\ \A kind : On(s, kind)' <=> On(s, kind)
      /\ Ends(s)' <=> Ends(s)
      /\ Lost(s) => Lost(s)'
      /\ StrayRow(task[s].row) => StrayRow(task[s].row)'
      /\ StrayLogin(task[s].login) => StrayLogin(task[s].login)'
      /\ Broken(task[s].row) => Broken(task[s].row)'
  BY DEF More, On, Ends, Lost, StrayRow, StrayLogin, Broken
<1>3. CASE Lost(s)
  <2>1. CreateOf(s)'
    BY <1>1, <1>2, <1>3 DEF RequestOf, CreateOf
  <2>2. UpdateOf(s)' /\ SavingOf(s)'
    BY <1>1, <1>2, <1>3 DEF RequestOf, UpdateOf, SavingOf, Desk!Named, TaskShape, On, Lost
  <2>3. EndOf(s)'
    BY <1>1, <1>2, <1>3 DEF RequestOf, EndOf
  <2>4. SignOf(s)' /\ SpaceOf(s)'
    BY <1>1, <1>2, <1>3 DEF RequestOf, SignOf, SpaceOf, TaskShape, On, Lost
  <2> QED  BY <2>1, <2>2, <2>3, <2>4 DEF RequestOf
<1>4. CASE Untouched(s)
  <2>1. CreateOf(s)'
    BY <1>1, <1>2, <1>4 DEF RequestOf, CreateOf, Untouched, TaskShape, On, Here, Ends
  <2>2. UpdateOf(s)' /\ SavingOf(s)'
    BY <1>1, <1>2, <1>4 DEF RequestOf, UpdateOf, SavingOf, Desk!Named, Untouched, TaskShape, On, Ends
  <2>3. EndOf(s)'
    BY <1>1, <1>2, <1>4 DEF RequestOf, EndOf, Untouched, TaskShape, Ends, On
  <2>4. SignOf(s)' /\ SpaceOf(s)'
    BY <1>1, <1>2, <1>4 DEF RequestOf, SignOf, SpaceOf, Untouched, TaskShape, On, Here, Ends
  <2> QED  BY <2>1, <2>2, <2>3, <2>4 DEF RequestOf
<1> QED  BY <1>3, <1>4

\* While no bond between row and login changes, and no row comes or goes.
LEMMA BondsStay ==
  ASSUME ConsoleInv, NEW s \in Requests, task'[s] = task[s], More, UNCHANGED uid,
         \A v \in Rows : (Here(v)' <=> Here(v)) /\ (row[v] = "gone" => row'[v] = "gone"),
         On(s, "create") /\ task[s].login \in Logins => StrayLogin(task[s].login)' \/ login'[task[s].login] = login[task[s].login],
         \A x \in Requests : task'[x].kind = "signin" /\ task'[x].at = "bind" => task'[x] = task[x]
  PROVE  NewLoginOf(s)' /\ BoundOf(s)'
<1>1. RequestOf(s) /\ TaskShape(task[s]) /\ 0 \notin Rows /\ 0 \notin Logins
  BY DEF ConsoleInv, TasksTyped
<1>2. /\ On(s, "create")' <=> On(s, "create")
      /\ Ends(s)' <=> Ends(s)
      /\ StrayLogin(task[s].login) => StrayLogin(task[s].login)'
      /\ \A u \in Rows : (Here(u)' <=> Here(u)) /\ (StrayLogin(uid[u]) => StrayLogin(uid[u])')
  BY DEF More, On, Ends, StrayLogin
<1>3. NewLoginOf(s)'
  <2>1. SUFFICES ASSUME On(s, "create"), task[s].at = "row", ~StrayLogin(task[s].login)'
                 PROVE  NewLoginOf(s)'
    BY <1>2 DEF NewLoginOf
  <2>2. /\ ~StrayLogin(task[s].login) /\ NewLoginOf(s) /\ task[s].login \in Logins
        /\ login'[task[s].login] = login[task[s].login]
    BY <1>1, <1>2, <2>1 DEF RequestOf, TaskShape, On, StrayLogin
  <2>3. CASE login[task[s].login] = "on"
    BY <2>2, <2>3 DEF NewLoginOf
  <2>4. CASE login[task[s].login] # "on"
    <3>1. PICK u \in Rows :
            /\ login[task[s].login] = "off" /\ Here(u) /\ uid[u] = task[s].login
            /\ \A x \in Requests : ~(On(x, "signin") /\ task[x].at = "bind" /\ task[x].row = u)
      BY <2>1, <2>2, <2>4 DEF NewLoginOf
    <3>2. \A x \in Requests : ~(On(x, "signin") /\ task[x].at = "bind" /\ task[x].row = u)'
      BY <3>1 DEF On
    <3>3. Here(u)' /\ uid'[u] = task'[s].login /\ login'[task'[s].login] = "off"
      BY <1>2, <2>2, <3>1
    <3> QED  BY <3>2, <3>3 DEF NewLoginOf
  <2> QED  BY <2>3, <2>4
<1>4. BoundOf(s)'
  BY <1>1, <1>2 DEF RequestOf, BoundOf, TaskShape, Ends
<1> QED  BY <1>3, <1>4

\* A row whose stores stay as they are.
LEMMA RowKeeps ==
  ASSUME ConsoleInv, NEW v \in Rows, More, row'[v] = row[v], uid'[v] = uid[v],
         uid[v] \in Logins /\ Here(v) => login'[uid[v]] = login[uid[v]] \/ StrayLogin(uid[v])',
         uid[v] \in Logins /\ login[uid[v]] = "gone" => login'[uid[v]] = "gone",
         v \in spaces' <=> v \in spaces, v \in members' <=> v \in members,
         v \in homes' <=> v \in homes, v \in sessions' <=> v \in sessions,
         <<"create", v>> \in audit' => <<"create", v>> \in audit,
         <<"rebound", v>> \in stray => <<"rebound", v>> \in stray',
         Here(v) /\ Deleting(v) => Deleting(v)' \/ StrayRow(v)' \/ Broken(v)',
         Making(v) => Making(v)' \/ StrayRow(v)' \/ Broken(v)',
         Here(v) /\ Saving(v) => Saving(v)' \/ StrayRow(v)' \/ Broken(v)'
  PROVE  RowOf(v)'
<1>1. RowOf(v) /\ (row[v] # "none" => uid[v] \in Logins)
  BY DEF ConsoleInv, RowsMade
<1>2. /\ Here(v)' <=> Here(v)
      /\ StrayRow(v) => StrayRow(v)'
      /\ StrayLogin(uid[v]) => StrayLogin(uid[v])'
      /\ Broken(v) => Broken(v)'
  BY DEF Here, StrayRow, StrayLogin, Broken, More
<1>3. GoneOf(v)' /\ OutOf(v)'
  BY <1>1, <1>2 DEF RowOf, GoneOf, OutOf
<1>4. WholeOf(v)' /\ MemberOf(v)'
  BY <1>1, <1>2 DEF RowOf, WholeOf, MemberOf
<1>5. AgreeOf(v)'
  BY <1>1, <1>2 DEF RowOf, AgreeOf, Here
<1> QED  BY <1>3, <1>4, <1>5 DEF RowOf

\* The changes under way, while nothing is done or logged.
LEMMA AuditKeeps ==
  ASSUME ConsoleInv, More, UNCHANGED <<effects, audit>>,
         \A e \in effects : Telling(e) => Telling(e)' \/ StrayRow(e[2])' \/ Broken(e[2])'
  PROVE  AuditInv'
<1>1. \A v : (StrayRow(v) => StrayRow(v)') /\ (Broken(v) => Broken(v)')
  BY DEF More
<1> QED  BY <1>1 DEF AuditInv, ConsoleInv, StrayRow, Broken

\* A step that concerns the row u, put together.
LEMMA Assembled ==
  ASSUME ConsoleInv, NEW r \in Requests, NEW u, Others(r), More, effects \subseteq effects',
         TasksTyped', StoresTyped', RowsMade', CrossInv', OneMaker', RequestOf(r)', u \in Rows => RowOf(u)', AuditInv',
         \A s \in Requests : s # r => (Lost(s) \/ Untouched(s)) /\ NewLoginOf(s)' /\ BoundOf(s)',
         \A v : <<"rebound", v>> \in stray => <<"rebound", v>> \in stray',
         \A v \in Rows : v # u =>
           /\ row'[v] = row[v] /\ uid'[v] = uid[v]
           /\ uid[v] \in Logins /\ Here(v) => login'[uid[v]] = login[uid[v]] \/ StrayLogin(uid[v])'
           /\ uid[v] \in Logins /\ login[uid[v]] = "gone" => login'[uid[v]] = "gone"
           /\ v \in spaces' <=> v \in spaces
           /\ v \in members' <=> v \in members
           /\ v \in homes' <=> v \in homes
           /\ v \in sessions' <=> v \in sessions
           /\ <<"create", v>> \in audit' => <<"create", v>> \in audit
           /\ Deleting(v) => Deleting(v)'
           /\ Making(v) => Making(v)'
           /\ Saving(v) => Saving(v)'
  PROVE  ConsoleInv'
<1>1. ASSUME NEW s \in Requests PROVE RequestOf(s)'
  <2>1. s # r => task'[s] = task[s]
    BY DEF Others
  <2> QED  BY <2>1, OthersKeep
<1>2. ASSUME NEW v \in Rows PROVE RowOf(v)'
  BY RowKeeps
<1> QED  BY <1>1, <1>2 DEF ConsoleInv

\* The same for a step that leaves rows and logins alone.
LEMMA StoresStep ==
  ASSUME ConsoleInv, NEW r \in Requests, NEW u \in Rows, Marked(r), Others(r), More,
         UNCHANGED <<login, row, uid>>, effects \subseteq effects', effects' \subseteq effects \cup ({"create", "edit", "suspend", "reactivate", "delete"} \X {u}), row[u] # "none",
         spaces' \subseteq spaces \cup {u}, members' \subseteq members \cup {u},
         homes' \subseteq homes \cup {u}, sessions' \subseteq sessions \cup {u},
         TasksTyped', OneMaker', RequestOf(r)', RowOf(u)', AuditInv',
         task'[r] = Desk!Idle \/ (task'[r].row = u /\ task'[r].login = task[r].login /\ task'[r].at # "bind"),
         \A s \in Requests : s # r => Lost(s) \/ Untouched(s),
         \A v \in Rows : v # u =>
           /\ v \in spaces' <=> v \in spaces
           /\ v \in members' <=> v \in members
           /\ v \in homes' <=> v \in homes
           /\ v \in sessions' <=> v \in sessions
           /\ <<"create", v>> \in audit' => <<"create", v>> \in audit
           /\ Deleting(v) => Deleting(v)'
           /\ Making(v) => Making(v)'
           /\ Saving(v) => Saving(v)'
  PROVE  ConsoleInv'
<1>1. CrossInv' /\ \A v : <<"rebound", v>> \in stray => <<"rebound", v>> \in stray'
  BY DEF Marked
<1>2. Desk!Idle.kind = "idle" /\ Desk!Idle.row = 0 /\ Desk!Idle.login = 0 /\ 0 \notin Rows /\ 0 \notin Logins
  BY DEF Desk!Idle, Desk!NoRow, Desk!NoLogin
<1>3. StoresTyped'
  BY DEF ConsoleInv, StoresTyped, Here
<1>4. RowsMade'
  <2>1. ASSUME NEW s \in Requests
        PROVE  /\ task'[s].row \in Rows => row'[task'[s].row] # "none"
               /\ task'[s].login \in Logins => login'[task'[s].login] # "none"
    BY <1>2 DEF ConsoleInv, RowsMade, Others
  <2> QED  BY <2>1 DEF ConsoleInv, RowsMade
<1>5. ASSUME NEW s \in Requests, s # r PROVE NewLoginOf(s)' /\ BoundOf(s)'
  <2>1. task'[s] = task[s] /\ \A x \in Requests : task'[x].kind = "signin" /\ task'[x].at = "bind" => task'[x] = task[x]
    BY <1>2, <1>5 DEF Others
  <2>2. \A v \in Rows : Here(v)' <=> Here(v)
    BY DEF Here
  <2> QED  BY <2>1, <2>2, BondsStay
<1> QED  BY <1>1, <1>3, <1>4, <1>5, Assembled

\* A request that only looks at rows, logins and workspaces.
LEMMA Alike ==
  ASSUME NEW s \in Requests, UNCHANGED <<login, row, uid, spaces, homes, members>>,
         Ends(s) \/ On(s, "update") => (task[s].row \in sessions' => task[s].row \in sessions),
         On(s, "space") => (<<"create", task[s].row>> \in audit' => <<"create", task[s].row>> \in audit)
  PROVE  Untouched(s)
BY DEF Untouched, Here

\* A request at another login is untouched by what happens to this one.
LEMMA AlikeButLogin ==
  ASSUME NEW s \in Requests, UNCHANGED <<row, uid, spaces, homes, members, sessions, audit>>,
         task[s].login \in Logins /\ ~On(s, "create") =>
           \/ login'[task[s].login] = login[task[s].login]
           \/ Ends(s) /\ login'[task[s].login] = "gone"
  PROVE  Untouched(s)
BY DEF Untouched, Here

\* A row whose bond and status stay as they are.
LEMMA AgreeKeeps ==
  ASSUME ConsoleInv, NEW r \in Requests, NEW u \in Rows, Marked(r), More, UNCHANGED <<login, row, uid>>,
         Here(u) /\ Deleting(u) => Deleting(u)' \/ StrayRow(u)' \/ Broken(u)',
         Here(u) /\ Saving(u) => Saving(u)' \/ StrayRow(u)' \/ Broken(u)'
  PROVE  AgreeOf(u)'
BY DEF ConsoleInv, RowOf, AgreeOf, More, Here, Marked, StrayLogin

\* A workspace, its home and its Membership are made by one request at a row; a deletion
\* of the row is crossed by it.
LEMMA MakersApart ==
  ASSUME ConsoleInv, NEW r \in Requests, task[r].kind \in {"create", "space"}, task[r].row \in Rows,
         NEW s \in Requests, s # r, task[s].row = task[r].row
  PROVE  /\ ~On(s, "create") /\ ~On(s, "space")
         /\ Ends(s) => Lost(s)
<1>1. ~On(s, "create") /\ ~On(s, "space")
  BY DEF ConsoleInv, OneMaker, On
<1>2. Ends(s) => Lost(s)
  BY Apart DEF ConsoleInv, Ends, Desk!Clash
<1> QED  BY <1>1, <1>2

\* The workspace of a new admin: its Membership is on the way.
LEMMA CreateSpaceKeeps ==
  ASSUME ConsoleInv, NEW r \in Requests, Marked(r), Desk!CreateSpace(r)
  PROVE  ConsoleInv'
<1> DEFINE u == task[r].row
<1>1. /\ On(r, "create") /\ task[r].at = "space" /\ u \in Rows /\ task' = [task EXCEPT ![r].at = "home"]
      /\ spaces' = spaces \cup {u} /\ UNCHANGED <<login, row, uid, members, homes, sessions, audit, effects>>
  BY DEF Desk!CreateSpace, Desk!At, Desk!To, On, ConsoleInv, TasksTyped, TaskShape
<1>2. /\ task'[r].at = "home" /\ task'[r].kind = "create" /\ task'[r].row = u /\ task'[r].login = task[r].login
      /\ Others(r) /\ More /\ (Lost(r) => Lost(r)') /\ TasksTyped' /\ OneMaker'
      /\ \A e : Telling(e) => Telling(e)'
      /\ \A v : Deleting(v) => Deleting(v)'
      /\ \A v : v # u => (Making(v) => Making(v)') /\ (Saving(v) => Saving(v)')
  <2>1. TaskShape([task[r] EXCEPT !.at = "home"])
    BY <1>1 DEF ConsoleInv, TasksTyped, TaskShape, TaskSet, On
  <2> QED  BY <1>1, <2>1, Moves DEF On
<1>3. ASSUME NEW s \in Requests, s # r PROVE Lost(s) \/ Untouched(s)
  BY <1>1, <1>3, MakersApart DEF Untouched, Here, On
<1>4. RequestOf(r)'
  <2>1. RequestOf(r) /\ On(r, "create")' /\ ~Ends(r)' /\ ~On(r, "update")' /\ ~On(r, "signin")' /\ ~On(r, "space")'
    BY <1>1, <1>2 DEF ConsoleInv, On, Ends
  <2> QED  BY <1>1, <1>2, <2>1 DEF RequestOf, CreateOf, NewLoginOf, UpdateOf, SavingOf, EndOf, BoundOf, SignOf, SpaceOf, Here
<1>5. RowOf(u)'
  <2>1. RowOf(u) /\ RequestOf(r) /\ Making(u)'
    BY <1>1, <1>2 DEF ConsoleInv, Making, On
  <2>2. GoneOf(u)' /\ OutOf(u)'
    BY <1>1, <1>2, <2>1 DEF RowOf, GoneOf, OutOf, RequestOf, CreateOf, Here, Lost, More
  <2>3. WholeOf(u)' /\ MemberOf(u)'
    BY <1>1, <1>2, <2>1 DEF RowOf, WholeOf, MemberOf, More, Here
  <2>4. Saving(u) => Saving(u)'
    BY <1>1, <1>2 DEF Saving, On, Others
  <2>5. AgreeOf(u)'
    BY <1>1, <1>2, <2>4, AgreeKeeps
  <2> QED  BY <2>2, <2>3, <2>5 DEF RowOf
<1>6. AuditInv'
  BY <1>1, <1>2, AuditKeeps
<1>7. row[u] # "none"
  BY <1>1 DEF ConsoleInv, RowsMade
<1> QED  BY <1>1, <1>2, <1>3, <1>4, <1>5, <1>6, <1>7, StoresStep

\* Its home is set, unless the row is gone.
LEMMA CreateHomeKeeps ==
  ASSUME ConsoleInv, NEW r \in Requests, Marked(r), Desk!CreateHome(r)
  PROVE  ConsoleInv'
<1> DEFINE u == task[r].row
<1>1. On(r, "create") /\ task[r].at = "home" /\ u \in Rows /\ RequestOf(r)
  BY DEF Desk!CreateHome, Desk!At, On, ConsoleInv, TasksTyped, TaskShape
<1>2. CASE ~Here(u) /\ task' = [task EXCEPT ![r] = Desk!Idle] /\ StoresSame
  <2>1. StrayRow(u)
    BY <1>1, <1>2 DEF RequestOf, CreateOf, Lost
  <2>2. Turned(r, Desk!Idle)
    BY <1>2, Finishes DEF Turned, ConsoleInv, TasksTyped, Desk!Idle, TaskSet, TaskShape, Desk!NoRow, Desk!NoLogin
  <2> QED  BY <1>2, <2>1, <2>2, RequestEnds
<1>3. CASE /\ Here(u) /\ task' = [task EXCEPT ![r].at = "member"] /\ homes' = homes \cup {u}
           /\ UNCHANGED <<login, row, uid, spaces, members, sessions, audit, effects>>
  <2>1. /\ task'[r].at = "member" /\ task'[r].kind = "create" /\ task'[r].row = u /\ task'[r].login = task[r].login
        /\ Others(r) /\ More /\ (Lost(r) => Lost(r)') /\ TasksTyped' /\ OneMaker'
        /\ \A e : Telling(e) => Telling(e)'
        /\ \A v : Deleting(v) => Deleting(v)'
        /\ \A v : v # u => (Making(v) => Making(v)') /\ (Saving(v) => Saving(v)')
    <3>1. TaskShape([task[r] EXCEPT !.at = "member"])
      BY <1>1 DEF ConsoleInv, TasksTyped, TaskShape, TaskSet, On
    <3> QED  BY <1>1, <1>3, <3>1, Moves DEF On
  <2>2. ASSUME NEW s \in Requests, s # r PROVE Lost(s) \/ Untouched(s)
    BY <1>1, <1>3, <2>2, MakersApart DEF Untouched, Here, On
  <2>3. RequestOf(r)'
    <3>1. On(r, "create")' /\ ~Ends(r)' /\ ~On(r, "update")' /\ ~On(r, "signin")' /\ ~On(r, "space")'
      BY <2>1 DEF On, Ends
    <3> QED  BY <1>1, <1>3, <2>1, <3>1 DEF RequestOf, CreateOf, NewLoginOf, UpdateOf, SavingOf, EndOf, BoundOf, SignOf, SpaceOf, Here
  <2>4. RowOf(u)'
    <3>1. RowOf(u) /\ Making(u)'
      BY <1>1, <2>1 DEF ConsoleInv, Making, On
    <3>2. GoneOf(u)' /\ OutOf(u)'
      BY <1>3, <2>1, <3>1 DEF RowOf, GoneOf, OutOf, Here, More
    <3>3. WholeOf(u)' /\ MemberOf(u)'
      BY <1>3, <2>1, <3>1 DEF RowOf, WholeOf, MemberOf, More, Here
    <3>4. Saving(u) => Saving(u)'
      BY <1>1, <2>1 DEF Saving, On, Others
    <3> QED  BY <1>1, <1>3, <2>1, <3>2, <3>3, <3>4, AgreeKeeps DEF RowOf
  <2>5. AuditInv'
    BY <1>3, <2>1, AuditKeeps
  <2>6. row[u] # "none"
    BY <1>1, <1>3 DEF ConsoleInv, RowsMade
  <2> QED  BY <1>1, <1>3, <2>1, <2>2, <2>3, <2>4, <2>5, <2>6, StoresStep
<1> QED  BY <1>2, <1>3 DEF Desk!CreateHome, Desk!At, Desk!Refused, Desk!End, Desk!To, Desk!Present, Desk!accounts, StoresSame, Here

\* The owner's Membership completes it.
LEMMA CreateMemberKeeps ==
  ASSUME ConsoleInv, NEW r \in Requests, Marked(r), Desk!CreateMember(r)
  PROVE  ConsoleInv'
<1> DEFINE u == task[r].row
<1>1. /\ On(r, "create") /\ task[r].at = "member" /\ u \in Rows /\ task' = [task EXCEPT ![r].at = "audit"]
      /\ members' = members \cup {u} /\ UNCHANGED <<login, row, uid, spaces, homes, sessions, audit, effects>>
  BY DEF Desk!CreateMember, Desk!At, Desk!To, On, ConsoleInv, TasksTyped, TaskShape
<1>2. /\ task'[r].at = "audit" /\ task'[r].kind = "create" /\ task'[r].row = u /\ task'[r].login = task[r].login
      /\ Others(r) /\ More /\ (Lost(r) => Lost(r)') /\ TasksTyped' /\ OneMaker'
      /\ \A e : Telling(e) => Telling(e)'
      /\ \A v : Deleting(v) => Deleting(v)'
      /\ \A v : v # u => (Making(v) => Making(v)') /\ (Saving(v) => Saving(v)')
  <2>1. TaskShape([task[r] EXCEPT !.at = "audit"])
    BY <1>1 DEF ConsoleInv, TasksTyped, TaskShape, TaskSet, On
  <2> QED  BY <1>1, <2>1, Moves DEF On
<1>3. ASSUME NEW s \in Requests, s # r PROVE Lost(s) \/ Untouched(s)
  BY <1>1, <1>3, MakersApart DEF Untouched, Here, On
<1>4. RequestOf(r)'
  <2>1. RequestOf(r) /\ On(r, "create")' /\ ~Ends(r)' /\ ~On(r, "update")' /\ ~On(r, "signin")' /\ ~On(r, "space")'
    BY <1>1, <1>2 DEF ConsoleInv, On, Ends
  <2> QED  BY <1>1, <1>2, <2>1 DEF RequestOf, CreateOf, NewLoginOf, UpdateOf, SavingOf, EndOf, BoundOf, SignOf, SpaceOf, Here
<1>5. RowOf(u)'
  <2>1. RowOf(u) /\ RequestOf(r)
    BY <1>1 DEF ConsoleInv
  <2>2. GoneOf(u)' /\ OutOf(u)'
    BY <1>1, <1>2, <2>1 DEF RowOf, GoneOf, OutOf, RequestOf, CreateOf, Here, Lost, More
  <2>3. WholeOf(u)' /\ MemberOf(u)'
    BY <1>1, <1>2, <2>1 DEF RowOf, WholeOf, MemberOf, More, Here
  <2>4. Saving(u) => Saving(u)'
    BY <1>1, <1>2 DEF Saving, On, Others
  <2> QED  BY <1>1, <1>2, <2>2, <2>3, <2>4, AgreeKeeps DEF RowOf
<1>6. AuditInv'
  BY <1>1, <1>2, AuditKeeps
<1>7. row[u] # "none"
  BY <1>1 DEF ConsoleInv, RowsMade
<1> QED  BY <1>1, <1>2, <1>3, <1>4, <1>5, <1>6, <1>7, StoresStep

\* The change is written down, and it did take place.
LEMMA LogCreateKeeps ==
  ASSUME ConsoleInv, NEW r \in Requests, Marked(r), Desk!LogCreate(r)
  PROVE  ConsoleInv'
<1>1. PICK u \in Rows :
      /\ On(r, "create") /\ task[r].at = "audit" /\ u = task[r].row /\ task' = [task EXCEPT ![r] = Desk!Idle]
      /\ audit' = audit \cup {<<"create", u>>}
      /\ UNCHANGED <<login, row, uid, spaces, members, homes, sessions, effects>>
  BY DEF Desk!LogCreate, Desk!Log, Desk!At, Desk!End, On, ConsoleInv, TasksTyped, TaskShape
<1>2. /\ task'[r] = Desk!Idle /\ Others(r) /\ More /\ TasksTyped' /\ OneMaker' /\ RequestOf(r)'
      /\ \A v : v # u => (Deleting(v) => Deleting(v)') /\ (Making(v) => Making(v)') /\ (Saving(v) => Saving(v)')
  BY <1>1, Finishes
<1>3. ASSUME NEW s \in Requests, s # r PROVE Lost(s) \/ Untouched(s)
  BY <1>1, <1>3, MakersApart DEF Untouched, Here, On
<1>4. RequestOf(r) /\ RowOf(u)
  BY <1>1 DEF ConsoleInv
<1>5. (Deleting(u) => Deleting(u)') /\ (Making(u) => Making(u)') /\ (Saving(u) => Saving(u)')
  BY <1>1, <1>2 DEF Deleting, Making, Saving, On, Ends, Others
<1>6. RowOf(u)'
  <2>1. GoneOf(u)' /\ OutOf(u)'
    BY <1>1, <1>2, <1>4 DEF RowOf, GoneOf, OutOf, Here, More
  <2>2. WholeOf(u)' /\ MemberOf(u)'
    BY <1>1, <1>2, <1>4, <1>5 DEF RowOf, WholeOf, MemberOf, RequestOf, CreateOf, Lost, More, Here
  <2> QED  BY <1>1, <1>2, <1>5, <2>1, <2>2, AgreeKeeps DEF RowOf
<1>7. AuditInv'
  <2>1. <<"create", u>> \in effects
    BY <1>1, <1>4 DEF RequestOf, CreateOf
  <2>2. ASSUME NEW e \in effects \ audit', Telling(e) PROVE Telling(e)'
    <3>1. e = <<e[1], e[2]>> /\ e # <<"create", u>>
      BY <1>1 DEF ConsoleInv, RowsMade
    <3> QED  BY <1>1, <1>2, <2>2, <3>1 DEF Telling, On, Others, Desk!Named
  <2> QED  BY <1>1, <1>2, <2>1, <2>2 DEF AuditInv, ConsoleInv, More, StrayRow, Broken
<1>8. row[u] # "none"
  BY <1>1 DEF ConsoleInv, RowsMade
<1> QED  BY <1>1, <1>2, <1>3, <1>6, <1>7, <1>8, StoresStep

\* A workspace of one's own: its Membership is on the way, or will be undone.
LEMMA OwnSpaceRowKeeps ==
  ASSUME ConsoleInv, NEW r \in Requests, Marked(r), Desk!OwnSpaceRow(r)
  PROVE  ConsoleInv'
<1>1. PICK u \in Rows :
      /\ On(r, "space") /\ task[r].at = "space" /\ u = task[r].row /\ task' = [task EXCEPT ![r].at = "member"]
      /\ spaces' = spaces \cup {u} /\ UNCHANGED <<login, row, uid, members, homes, sessions, audit, effects>>
  BY DEF Desk!OwnSpaceRow, Desk!At, Desk!To, On, ConsoleInv, TasksTyped, TaskShape
<1>2. /\ task'[r].at = "member" /\ task'[r].kind = task[r].kind /\ task'[r].row = u /\ task'[r].login = task[r].login
      /\ Others(r) /\ More /\ (Lost(r) => Lost(r)') /\ TasksTyped' /\ OneMaker'
      /\ \A e : Telling(e) => Telling(e)'
      /\ \A v : Deleting(v) => Deleting(v)'
      /\ \A v : v # u => (Making(v) => Making(v)') /\ (Saving(v) => Saving(v)')
  <2>1. TaskShape([task[r] EXCEPT !.at = "member"])
    BY <1>1 DEF ConsoleInv, TasksTyped, TaskShape, TaskSet, On, Ends
  <2> QED  BY <1>1, <2>1, Moves DEF On, Ends
<1>3. ASSUME NEW s \in Requests, s # r PROVE Lost(s) \/ Untouched(s)
  BY <1>1, <1>3, MakersApart DEF Untouched, Here, On
<1>4. RequestOf(r)'
  <2>1. RequestOf(r) /\ On(r, "space")' /\ ~Ends(r)' /\ ~On(r, "create")' /\ ~On(r, "update")' /\ ~On(r, "signin")'
    BY <1>1, <1>2 DEF ConsoleInv, On, Ends
  <2>2. (Broken(u) => Broken(u)') /\ (Here(u)' <=> Here(u))
    BY <1>1, <1>2 DEF More, Here
  <2>3. SpaceOf(r)'
    BY <1>1, <1>2, <2>1, <2>2 DEF RequestOf, SpaceOf
  <2> QED  BY <2>1, <2>3 DEF RequestOf, CreateOf, NewLoginOf, UpdateOf, SavingOf, EndOf, BoundOf, SignOf, SpaceOf
<1>5. RowOf(u)'
  <2>1. RowOf(u) /\ RequestOf(r) /\ Making(u)' /\ (StrayRow(u) => StrayRow(u)')
    BY <1>1, <1>2 DEF ConsoleInv, Making, On, More
  <2>2. GoneOf(u)' /\ OutOf(u)'
    <3>1. Here(u) \/ StrayRow(u)
      BY <1>1, <2>1 DEF RequestOf, SpaceOf, Lost, ConsoleInv, TasksTyped, TaskShape, On
    <3> QED  BY <1>1, <1>2, <2>1, <3>1 DEF RowOf, GoneOf, OutOf, Here, More
  <2>3. WholeOf(u)' /\ MemberOf(u)'
    BY <1>1, <1>2, <2>1 DEF RowOf, WholeOf, MemberOf, More, Here
  <2>4. Saving(u) => Saving(u)'
    BY <1>1, <1>2 DEF Saving, On, Others
  <2> QED  BY <1>1, <1>2, <2>2, <2>3, <2>4, AgreeKeeps DEF RowOf
<1>6. AuditInv'
  BY <1>1, <1>2, AuditKeeps
<1>7. row[u] # "none"
  BY <1>1 DEF ConsoleInv, RowsMade
<1> QED  BY <1>1, <1>2, <1>3, <1>4, <1>5, <1>6, <1>7, StoresStep

\* Its Membership is made, or the workspace goes again.
LEMMA OwnSpaceMemberKeeps ==
  ASSUME ConsoleInv, NEW r \in Requests, Marked(r), Desk!OwnSpaceMember(r)
  PROVE  ConsoleInv'
<1>1. PICK u \in Rows, at \in {"home", "undo"} :
      /\ On(r, "space") /\ task[r].at = "member" /\ u = task[r].row /\ task' = [task EXCEPT ![r].at = at]
      /\ members' = (IF at = "home" THEN members \cup {u} ELSE members)
      /\ UNCHANGED <<login, row, uid, spaces, homes, sessions, audit, effects>>
  BY DEF Desk!OwnSpaceMember, Desk!At, Desk!To, On, ConsoleInv, TasksTyped, TaskShape
<1>2. /\ task'[r].at = at /\ task'[r].kind = task[r].kind /\ task'[r].row = u /\ task'[r].login = task[r].login
      /\ Others(r) /\ More /\ (Lost(r) => Lost(r)') /\ TasksTyped' /\ OneMaker'
      /\ \A e : Telling(e) => Telling(e)'
      /\ \A v : Deleting(v) => Deleting(v)'
      /\ \A v : v # u => (Making(v) => Making(v)') /\ (Saving(v) => Saving(v)')
  <2>1. TaskShape([task[r] EXCEPT !.at = at])
    BY <1>1 DEF ConsoleInv, TasksTyped, TaskShape, TaskSet, On, Ends
  <2> QED  BY <1>1, <2>1, Moves DEF On, Ends
<1>3. ASSUME NEW s \in Requests, s # r PROVE Lost(s) \/ Untouched(s)
  BY <1>1, <1>3, MakersApart DEF Untouched, Here, On
<1>4. RequestOf(r)'
  <2>1. RequestOf(r) /\ On(r, "space")' /\ ~Ends(r)' /\ ~On(r, "create")' /\ ~On(r, "update")' /\ ~On(r, "signin")'
    BY <1>1, <1>2 DEF ConsoleInv, On, Ends
  <2>2. (Broken(u) => Broken(u)') /\ (Here(u)' <=> Here(u))
    BY <1>1, <1>2 DEF More, Here
  <2>3. SpaceOf(r)'
    BY <1>1, <1>2, <2>1, <2>2 DEF RequestOf, SpaceOf
  <2> QED  BY <2>1, <2>3 DEF RequestOf, CreateOf, NewLoginOf, UpdateOf, SavingOf, EndOf, BoundOf, SignOf, SpaceOf
<1>5. RowOf(u)'
  <2>1. RowOf(u) /\ RequestOf(r) /\ (StrayRow(u) => StrayRow(u)') /\ (at = "undo" => Making(u)')
    BY <1>1, <1>2 DEF ConsoleInv, Making, On, More
  <2>2. GoneOf(u)' /\ OutOf(u)'
    <3>1. Here(u) \/ StrayRow(u)
      BY <1>1, <2>1 DEF RequestOf, SpaceOf, Lost, ConsoleInv, TasksTyped, TaskShape, On
    <3> QED  BY <1>1, <1>2, <2>1, <3>1 DEF RowOf, GoneOf, OutOf, Here, More
  <2>3. WholeOf(u)' /\ MemberOf(u)'
    BY <1>1, <1>2, <2>1 DEF RowOf, WholeOf, MemberOf, More, Here
  <2>4. Saving(u) => Saving(u)'
    BY <1>1, <1>2 DEF Saving, On, Others
  <2> QED  BY <1>1, <1>2, <2>2, <2>3, <2>4, AgreeKeeps DEF RowOf
<1>6. AuditInv'
  BY <1>1, <1>2, AuditKeeps
<1>7. row[u] # "none"
  BY <1>1 DEF ConsoleInv, RowsMade
<1> QED  BY <1>1, <1>2, <1>3, <1>4, <1>5, <1>6, <1>7, StoresStep

\* A workspace without a Membership goes.
LEMMA UndoSpaceKeeps ==
  ASSUME ConsoleInv, NEW r \in Requests, Marked(r), Desk!UndoSpace(r)
  PROVE  ConsoleInv'
<1>1. PICK u \in Rows :
      /\ On(r, "space") /\ task[r].at = "undo" /\ u = task[r].row /\ task' = [task EXCEPT ![r] = Desk!Idle]
      /\ spaces' = spaces \ {u} /\ UNCHANGED <<login, row, uid, members, homes, sessions, audit, effects>>
  BY DEF Desk!UndoSpace, Desk!At, Desk!End, On, ConsoleInv, TasksTyped, TaskShape
<1>2. /\ task'[r] = Desk!Idle /\ Others(r) /\ More /\ TasksTyped' /\ OneMaker' /\ RequestOf(r)'
      /\ \A e : e[2] # u => (Telling(e) => Telling(e)')
      /\ \A v : v # u => (Deleting(v) => Deleting(v)') /\ (Making(v) => Making(v)') /\ (Saving(v) => Saving(v)')
  BY <1>1, Finishes
<1>3. ASSUME NEW s \in Requests, s # r PROVE Lost(s) \/ Untouched(s)
  BY <1>1, <1>3, MakersApart DEF Untouched, Here, On
<1>4. (Deleting(u) => Deleting(u)') /\ (Saving(u) => Saving(u)') /\ \A e : Telling(e) => Telling(e)'
  <2>1. (Deleting(u) => Deleting(u)') /\ (Saving(u) => Saving(u)')
    BY <1>1, <1>2 DEF Deleting, Saving, On, Ends, Others
  <2> QED  BY <1>1, <1>2, <2>1 DEF Telling, On, Others, Desk!Named
<1>5. RowOf(u)'
  <2>1. RowOf(u) /\ RequestOf(r) /\ (StrayRow(u) => StrayRow(u)')
    BY <1>1, <1>2 DEF ConsoleInv, More
  <2>2. GoneOf(u)' /\ OutOf(u)' /\ MemberOf(u)'
    BY <1>1, <1>2, <2>1 DEF RowOf, GoneOf, OutOf, MemberOf, Here, More
  <2>3. WholeOf(u)'
    <3>1. StrayRow(u) \/ Broken(u) \/ <<"create", u>> \notin audit
      BY <1>1, <2>1 DEF RequestOf, SpaceOf, Lost, ConsoleInv, TasksTyped, TaskShape, On
    <3> QED  BY <1>1, <1>2, <3>1 DEF WholeOf, More
  <2> QED  BY <1>1, <1>2, <1>4, <2>2, <2>3, AgreeKeeps DEF RowOf
<1>6. AuditInv'
  BY <1>1, <1>2, <1>4, AuditKeeps
<1>7. row[u] # "none"
  BY <1>1 DEF ConsoleInv, RowsMade
<1> QED  BY <1>1, <1>2, <1>3, <1>5, <1>6, <1>7, StoresStep

\* Its home is set, when the account is still there.
LEMMA OwnSpaceHomeKeeps ==
  ASSUME ConsoleInv, NEW r \in Requests, Marked(r), Desk!OwnSpaceHome(r)
  PROVE  ConsoleInv'
<1>1. PICK u \in Rows :
      /\ On(r, "space") /\ task[r].at = "home" /\ u = task[r].row /\ task' = [task EXCEPT ![r] = Desk!Idle]
      /\ homes' = (IF Here(u) THEN homes \cup {u} ELSE homes)
      /\ UNCHANGED <<login, row, uid, spaces, members, sessions, audit, effects>>
  BY DEF Desk!OwnSpaceHome, Desk!At, Desk!End, Desk!Present, Here, On, ConsoleInv, TasksTyped, TaskShape
<1>2. /\ task'[r] = Desk!Idle /\ Others(r) /\ More /\ TasksTyped' /\ OneMaker' /\ RequestOf(r)'
      /\ \A e : e[2] # u => (Telling(e) => Telling(e)')
      /\ \A v : v # u => (Deleting(v) => Deleting(v)') /\ (Making(v) => Making(v)') /\ (Saving(v) => Saving(v)')
  BY <1>1, Finishes
<1>3. ASSUME NEW s \in Requests, s # r PROVE Lost(s) \/ Untouched(s)
  BY <1>1, <1>3, MakersApart DEF Untouched, Here, On
<1>4. /\ (Deleting(u) => Deleting(u)') /\ (Saving(u) => Saving(u)') /\ (Making(u) => Making(u)')
      /\ \A e : Telling(e) => Telling(e)'
  <2>1. (Deleting(u) => Deleting(u)') /\ (Saving(u) => Saving(u)')
    BY <1>1, <1>2 DEF Deleting, Saving, On, Ends, Others
  <2>2. Making(u) => Making(u)'
    BY <1>1, <1>2 DEF Making, On, Ends, Others
  <2> QED  BY <1>1, <1>2, <2>1, <2>2 DEF Telling, On, Others, Desk!Named
<1>5. RowOf(u)'
  <2>1. RowOf(u) /\ (Here(u)' <=> Here(u))
    BY <1>1 DEF ConsoleInv, Here
  <2>2. GoneOf(u)' /\ OutOf(u)'
    BY <1>1, <1>2, <2>1 DEF RowOf, GoneOf, OutOf, Here, More
  <2>3. WholeOf(u)' /\ MemberOf(u)'
    BY <1>1, <1>2, <1>4, <2>1 DEF RowOf, WholeOf, MemberOf, More
  <2> QED  BY <1>1, <1>2, <1>4, <2>2, <2>3, AgreeKeeps DEF RowOf
<1>6. AuditInv'
  BY <1>1, <1>2, <1>4, AuditKeeps
<1>7. row[u] # "none"
  BY <1>1 DEF ConsoleInv, RowsMade
<1> QED  BY <1>1, <1>2, <1>3, <1>5, <1>6, <1>7, StoresStep

\* Whatever else is about a row that is being deleted is lost, another deletion of it aside.
LEMMA EndersApart ==
  ASSUME ConsoleInv, NEW r \in Requests, Ends(r), task[r].row \in Rows,
         NEW s \in Requests, s # r, task[s].row = task[r].row, task[s].kind \in {"create", "space", "signin", "update"}
  PROVE  Lost(s)
BY Apart DEF ConsoleInv, Ends, Desk!Clash

\* A deletion takes the Memberships and the home first.
LEMMA DeleteMembersKeeps ==
  ASSUME ConsoleInv, NEW r \in Requests, Marked(r), Desk!DeleteMembers(r)
  PROVE  ConsoleInv'
<1>1. PICK u \in Rows :
      /\ Ends(r) /\ task[r].at = "members" /\ u = task[r].row /\ task' = [task EXCEPT ![r].at = "space"]
      /\ members' = members \ {u} /\ homes' = homes \ {u}
      /\ UNCHANGED <<login, row, uid, spaces, sessions, audit, effects>>
  BY DEF Desk!DeleteMembers, Desk!Ending, Desk!To, Ends, ConsoleInv, TasksTyped, TaskShape
<1>2. /\ task'[r].at = "space" /\ task'[r].kind = task[r].kind /\ task'[r].row = u /\ task'[r].login = task[r].login
      /\ Others(r) /\ More /\ (Lost(r) => Lost(r)') /\ TasksTyped' /\ OneMaker'
      /\ \A e : Telling(e) => Telling(e)'
      /\ \A v : Deleting(v) => Deleting(v)'
      /\ \A v : v # u => (Making(v) => Making(v)') /\ (Saving(v) => Saving(v)')
  <2>1. TaskShape([task[r] EXCEPT !.at = "space"])
    BY <1>1 DEF ConsoleInv, TasksTyped, TaskShape, TaskSet, On, Ends
  <2> QED  BY <1>1, <2>1, Moves DEF On, Ends
<1>3. ASSUME NEW s \in Requests, s # r PROVE Lost(s) \/ Untouched(s)
  BY <1>1, <1>3, EndersApart DEF Untouched, Here, On, Ends
<1>4. RequestOf(r)'
  <2>1. RequestOf(r) /\ Ends(r)' /\ ~On(r, "create")' /\ ~On(r, "update")' /\ ~On(r, "signin")' /\ ~On(r, "space")'
    BY <1>1, <1>2 DEF ConsoleInv, On, Ends
  <2>2. (Broken(u) => Broken(u)') /\ (Here(u)' <=> Here(u)) /\ \A v \in Rows : Here(v)' <=> Here(v)
    BY <1>1, <1>2 DEF More, Here
  <2>3. EndOf(r)'
    BY <1>1, <1>2, <2>1, <2>2 DEF RequestOf, EndOf
  <2>4. BoundOf(r)'
    BY <1>1, <1>2, <2>1, <2>2 DEF RequestOf, BoundOf, More, StrayLogin
  <2> QED  BY <2>1, <2>3, <2>4 DEF RequestOf, CreateOf, NewLoginOf, UpdateOf, SavingOf, EndOf, BoundOf, SignOf, SpaceOf
<1>5. RowOf(u)'
  <2>1. RowOf(u) /\ RequestOf(r) /\ Deleting(u)' /\ (Here(u)' <=> Here(u))
    BY <1>1, <1>2 DEF ConsoleInv, Deleting, Ends, Here
  <2>2. GoneOf(u)' /\ OutOf(u)'
    BY <1>1, <1>2, <2>1 DEF RowOf, GoneOf, OutOf, More
  <2>3. WholeOf(u)'
    BY <2>1 DEF WholeOf
  <2>4. MemberOf(u)'
    BY <1>1, <1>2 DEF MemberOf, Making, Ends
  <2>5. Saving(u) => Saving(u)'
    BY <1>1, <1>2 DEF Saving, On, Ends, Others
  <2> QED  BY <1>1, <1>2, <2>1, <2>2, <2>3, <2>4, <2>5, AgreeKeeps DEF RowOf
<1>6. AuditInv'
  BY <1>1, <1>2, AuditKeeps
<1>7. row[u] # "none"
  BY <1>1 DEF ConsoleInv, RowsMade
<1> QED  BY <1>1, <1>2, <1>3, <1>4, <1>5, <1>6, <1>7, StoresStep

\* Then the workspace.
LEMMA DeleteSpaceKeeps ==
  ASSUME ConsoleInv, NEW r \in Requests, Marked(r), Desk!DeleteSpace(r)
  PROVE  ConsoleInv'
<1>1. PICK u \in Rows :
      /\ Ends(r) /\ task[r].at = "space" /\ u = task[r].row /\ task' = [task EXCEPT ![r].at = "sessions"]
      /\ spaces' = spaces \ {u}
      /\ UNCHANGED <<login, row, uid, members, homes, sessions, audit, effects>>
  BY DEF Desk!DeleteSpace, Desk!Ending, Desk!To, Ends, ConsoleInv, TasksTyped, TaskShape
<1>2. /\ task'[r].at = "sessions" /\ task'[r].kind = task[r].kind /\ task'[r].row = u /\ task'[r].login = task[r].login
      /\ Others(r) /\ More /\ (Lost(r) => Lost(r)') /\ TasksTyped' /\ OneMaker'
      /\ \A e : Telling(e) => Telling(e)'
      /\ \A v : Deleting(v) => Deleting(v)'
      /\ \A v : v # u => (Making(v) => Making(v)') /\ (Saving(v) => Saving(v)')
  <2>1. TaskShape([task[r] EXCEPT !.at = "sessions"])
    BY <1>1 DEF ConsoleInv, TasksTyped, TaskShape, TaskSet, On, Ends
  <2> QED  BY <1>1, <2>1, Moves DEF On, Ends
<1>3. ASSUME NEW s \in Requests, s # r PROVE Lost(s) \/ Untouched(s)
  BY <1>1, <1>3, EndersApart DEF Untouched, Here, On, Ends
<1>4. RequestOf(r)'
  <2>1. RequestOf(r) /\ Ends(r)' /\ ~On(r, "create")' /\ ~On(r, "update")' /\ ~On(r, "signin")' /\ ~On(r, "space")'
    BY <1>1, <1>2 DEF ConsoleInv, On, Ends
  <2>2. (Broken(u) => Broken(u)') /\ (Here(u)' <=> Here(u)) /\ \A v \in Rows : Here(v)' <=> Here(v)
    BY <1>1, <1>2 DEF More, Here
  <2>3. EndOf(r)'
    BY <1>1, <1>2, <2>1, <2>2 DEF RequestOf, EndOf
  <2>4. BoundOf(r)'
    BY <1>1, <1>2, <2>1, <2>2 DEF RequestOf, BoundOf, More, StrayLogin
  <2> QED  BY <2>1, <2>3, <2>4 DEF RequestOf, CreateOf, NewLoginOf, UpdateOf, SavingOf, EndOf, BoundOf, SignOf, SpaceOf
<1>5. RowOf(u)'
  <2>1. RowOf(u) /\ RequestOf(r) /\ Deleting(u)' /\ (Here(u)' <=> Here(u))
    BY <1>1, <1>2 DEF ConsoleInv, Deleting, Ends, Here
  <2>2. GoneOf(u)' /\ OutOf(u)'
    BY <1>1, <1>2, <2>1 DEF RowOf, GoneOf, OutOf, More
  <2>3. WholeOf(u)'
    BY <2>1 DEF WholeOf
  <2>4. MemberOf(u)'
    BY <1>1 DEF MemberOf
  <2>5. Saving(u) => Saving(u)'
    BY <1>1, <1>2 DEF Saving, On, Ends, Others
  <2> QED  BY <1>1, <1>2, <2>1, <2>2, <2>3, <2>4, <2>5, AgreeKeeps DEF RowOf
<1>6. AuditInv'
  BY <1>1, <1>2, AuditKeeps
<1>7. row[u] # "none"
  BY <1>1 DEF ConsoleInv, RowsMade
<1> QED  BY <1>1, <1>2, <1>3, <1>4, <1>5, <1>6, <1>7, StoresStep

\* Then the sessions, and what Membership is left.
LEMMA DeleteSessionsKeeps ==
  ASSUME ConsoleInv, NEW r \in Requests, Marked(r), Desk!DeleteSessions(r)
  PROVE  ConsoleInv'
<1>1. PICK u \in Rows :
      /\ Ends(r) /\ task[r].at = "sessions" /\ u = task[r].row /\ task' = [task EXCEPT ![r].at = "row"]
      /\ sessions' = sessions \ {u} /\ members' = members \ {u}
      /\ UNCHANGED <<login, row, uid, spaces, homes, audit, effects>>
  BY DEF Desk!DeleteSessions, Desk!Ending, Desk!To, Ends, ConsoleInv, TasksTyped, TaskShape
<1>2. /\ task'[r].at = "row" /\ task'[r].kind = task[r].kind /\ task'[r].row = u /\ task'[r].login = task[r].login
      /\ Others(r) /\ More /\ (Lost(r) => Lost(r)') /\ TasksTyped' /\ OneMaker'
      /\ \A e : Telling(e) => Telling(e)'
      /\ \A v : Deleting(v) => Deleting(v)'
      /\ \A v : v # u => (Making(v) => Making(v)') /\ (Saving(v) => Saving(v)')
  <2>1. TaskShape([task[r] EXCEPT !.at = "row"])
    BY <1>1 DEF ConsoleInv, TasksTyped, TaskShape, TaskSet, On, Ends
  <2> QED  BY <1>1, <2>1, Moves DEF On, Ends
<1>3. ASSUME NEW s \in Requests, s # r PROVE Lost(s) \/ Untouched(s)
  BY <1>1, <1>3, EndersApart DEF Untouched, Here, On, Ends
<1>4. RequestOf(r)'
  <2>1. RequestOf(r) /\ Ends(r)' /\ ~On(r, "create")' /\ ~On(r, "update")' /\ ~On(r, "signin")' /\ ~On(r, "space")'
    BY <1>1, <1>2 DEF ConsoleInv, On, Ends
  <2>2. (Broken(u) => Broken(u)') /\ (Here(u)' <=> Here(u)) /\ \A v \in Rows : Here(v)' <=> Here(v)
    BY <1>1, <1>2 DEF More, Here
  <2>3. EndOf(r)'
    BY <1>1, <1>2, <2>1, <2>2 DEF RequestOf, EndOf
  <2>4. BoundOf(r)'
    BY <1>1, <1>2, <2>1, <2>2 DEF RequestOf, BoundOf, More, StrayLogin
  <2> QED  BY <2>1, <2>3, <2>4 DEF RequestOf, CreateOf, NewLoginOf, UpdateOf, SavingOf, EndOf, BoundOf, SignOf, SpaceOf
<1>5. RowOf(u)'
  <2>1. RowOf(u) /\ RequestOf(r) /\ Deleting(u)' /\ (Here(u)' <=> Here(u))
    BY <1>1, <1>2 DEF ConsoleInv, Deleting, Ends, Here
  <2>2. GoneOf(u)' /\ OutOf(u)'
    BY <1>1, <1>2, <2>1 DEF RowOf, GoneOf, OutOf, More
  <2>3. WholeOf(u)'
    BY <2>1 DEF WholeOf
  <2>4. MemberOf(u)'
    <3>1. u \notin spaces \/ StrayRow(u)
      BY <1>1, <2>1 DEF RequestOf, EndOf, Lost
    <3> QED  BY <1>1, <1>2, <3>1 DEF MemberOf, More
  <2>5. Saving(u) => Saving(u)'
    BY <1>1, <1>2 DEF Saving, On, Ends, Others
  <2> QED  BY <1>1, <1>2, <2>1, <2>2, <2>3, <2>4, <2>5, AgreeKeeps DEF RowOf
<1>6. AuditInv'
  BY <1>1, <1>2, AuditKeeps
<1>7. row[u] # "none"
  BY <1>1 DEF ConsoleInv, RowsMade
<1> QED  BY <1>1, <1>2, <1>3, <1>4, <1>5, <1>6, <1>7, StoresStep

\* A suspended account, as it was read, gets no session.
LEMMA MakeSessionKeeps ==
  ASSUME ConsoleInv, NEW r \in Requests, Marked(r), Desk!MakeSession(r)
  PROVE  ConsoleInv'
<1>1. PICK u \in Rows :
      /\ On(r, "signin") /\ task[r].at = "session" /\ u = task[r].row /\ task' = [task EXCEPT ![r] = Desk!Idle]
      /\ sessions' = (IF task[r].was = "suspended" THEN sessions ELSE sessions \cup {u})
      /\ UNCHANGED <<login, row, uid, spaces, members, homes, audit, effects>>
  BY DEF Desk!MakeSession, Desk!At, Desk!End, On, ConsoleInv, TasksTyped, TaskShape
<1>2. /\ task'[r] = Desk!Idle /\ Others(r) /\ More /\ TasksTyped' /\ OneMaker' /\ RequestOf(r)'
      /\ \A e : e[2] # u => (Telling(e) => Telling(e)')
      /\ \A v : v # u => (Deleting(v) => Deleting(v)') /\ (Making(v) => Making(v)') /\ (Saving(v) => Saving(v)')
  BY <1>1, Finishes
<1>3. ASSUME NEW s \in Requests, s # r PROVE Lost(s) \/ Untouched(s)
  <2>1. task[s].row = u /\ (Ends(s) \/ On(s, "update")) => Lost(s)
    BY <1>1, <1>3, Apart DEF ConsoleInv, Ends, On, Desk!Clash
  <2>2. Ends(s) \/ On(s, "update") => Lost(s) \/ (task[s].row \in sessions' => task[s].row \in sessions)
    BY <1>1, <2>1
  <2> QED  BY <1>1, <2>2, Alike
<1>4. /\ (Deleting(u) => Deleting(u)') /\ (Saving(u) => Saving(u)') /\ (Making(u) => Making(u)')
      /\ \A e : Telling(e) => Telling(e)'
  <2>1. (Deleting(u) => Deleting(u)') /\ (Saving(u) => Saving(u)')
    BY <1>1, <1>2 DEF Deleting, Saving, On, Ends, Others
  <2>2. Making(u) => Making(u)'
    BY <1>1, <1>2 DEF Making, On, Ends, Others
  <2> QED  BY <1>1, <1>2, <2>1, <2>2 DEF Telling, On, Others, Desk!Named
<1>5. RowOf(u)'
  <2>1. RowOf(u) /\ (Here(u)' <=> Here(u))
    BY <1>1 DEF ConsoleInv, Here
  <2>2. StrayRow(u) \/ (row[u] = task[r].was /\ task[r].was \in {"active", "suspended"})
    BY <1>1 DEF ConsoleInv, RequestOf, SignOf, Lost, TasksTyped, TaskShape, On
  <2>3. GoneOf(u)' /\ OutOf(u)'
    BY <1>1, <1>2, <2>1, <2>2 DEF RowOf, GoneOf, OutOf, More
  <2>4. WholeOf(u)' /\ MemberOf(u)'
    BY <1>1, <1>2, <1>4, <2>1 DEF RowOf, WholeOf, MemberOf, More
  <2> QED  BY <1>1, <1>2, <1>4, <2>3, <2>4, AgreeKeeps DEF RowOf
<1>6. AuditInv'
  BY <1>1, <1>2, <1>4, AuditKeeps
<1>7. row[u] # "none"
  BY <1>1 DEF ConsoleInv, RowsMade
<1> QED  BY <1>1, <1>2, <1>3, <1>5, <1>6, <1>7, StoresStep

\* The sessions of an account that is to be suspended end before its status changes.
LEMMA EndSessionsKeeps ==
  ASSUME ConsoleInv, NEW r \in Requests, Marked(r), Desk!EndSessions(r)
  PROVE  ConsoleInv'
<1>1. PICK u \in Rows :
      /\ On(r, "update") /\ task[r].at = "sessions" /\ u = task[r].row /\ task' = [task EXCEPT ![r].at = "login"]
      /\ sessions' = sessions \ {u}
      /\ UNCHANGED <<login, row, uid, spaces, members, homes, audit, effects>>
  BY DEF Desk!EndSessions, Desk!At, Desk!To, On, ConsoleInv, TasksTyped, TaskShape
<1>2. task'[r].was = task[r].was /\ task'[r].now = task[r].now
  BY <1>1 DEF ConsoleInv, TasksTyped, TaskSet
<1>8. /\ task'[r].at = "login" /\ task'[r].kind = task[r].kind /\ task'[r].row = u /\ task'[r].login = task[r].login
      /\ Others(r) /\ More /\ (Lost(r) => Lost(r)') /\ TasksTyped' /\ OneMaker'
      /\ \A e : Telling(e) => Telling(e)'
      /\ \A v : Deleting(v) => Deleting(v)'
      /\ \A v : v # u => (Making(v) => Making(v)') /\ (Saving(v) => Saving(v)')
  <2>1. TaskShape([task[r] EXCEPT !.at = "login"])
    BY <1>1 DEF ConsoleInv, TasksTyped, TaskShape, TaskSet, On, Ends
  <2> QED  BY <1>1, <2>1, Moves DEF On, Ends
<1>3. ASSUME NEW s \in Requests, s # r PROVE Lost(s) \/ Untouched(s)
  BY <1>1, <1>3 DEF Untouched, Here
<1>4. RequestOf(r)'
  <2>1. RequestOf(r) /\ On(r, "update")' /\ ~Ends(r)' /\ ~On(r, "create")' /\ ~On(r, "signin")' /\ ~On(r, "space")'
    BY <1>1, <1>8 DEF ConsoleInv, On, Ends
  <2>2. UpdateOf(r)' /\ SavingOf(r)'
    BY <1>1, <1>2, <1>8, <2>1 DEF RequestOf, UpdateOf, SavingOf
  <2> QED  BY <2>1, <2>2 DEF RequestOf, CreateOf, NewLoginOf, UpdateOf, SavingOf, EndOf, BoundOf, SignOf, SpaceOf
<1>5. RowOf(u)'
  <2>1. RowOf(u) /\ (Here(u)' <=> Here(u))
    BY <1>1 DEF ConsoleInv, Here
  <2>2. GoneOf(u)' /\ OutOf(u)'
    BY <1>1, <1>8, <2>1 DEF RowOf, GoneOf, OutOf, More
  <2>3. (Making(u) => Making(u)') /\ (Saving(u) => Saving(u)')
    BY <1>1, <1>8 DEF Making, Saving, On, Ends, Others
  <2>4. WholeOf(u)' /\ MemberOf(u)'
    BY <1>1, <1>8, <2>1, <2>3 DEF RowOf, WholeOf, MemberOf, More
  <2> QED  BY <1>1, <1>8, <2>2, <2>3, <2>4, AgreeKeeps DEF RowOf
<1>6. AuditInv'
  BY <1>1, <1>8, AuditKeeps
<1>7. row[u] # "none"
  BY <1>1 DEF ConsoleInv, RowsMade
<1> QED  BY <1>1, <1>8, <1>3, <1>4, <1>5, <1>6, <1>7, StoresStep

\* A change of a status is written to the audit log.
LEMMA LogUpdateKeeps ==
  ASSUME ConsoleInv, NEW r \in Requests, Marked(r), Desk!LogUpdate(r)
  PROVE  ConsoleInv'
<1>1. PICK u \in Rows, deed \in {"edit", "suspend", "reactivate"} :
      /\ On(r, "update") /\ task[r].at = "audit" /\ u = task[r].row /\ task' = [task EXCEPT ![r] = Desk!Idle]
      /\ deed = Desk!Named(task[r]) /\ audit' = audit \cup {<<deed, u>>}
      /\ UNCHANGED <<login, row, uid, spaces, members, homes, sessions, effects>>
  BY DEF Desk!LogUpdate, Desk!Log, Desk!At, Desk!End, Desk!Named, On, ConsoleInv, TasksTyped, TaskShape
<1>2. /\ task'[r] = Desk!Idle /\ Others(r) /\ More /\ TasksTyped' /\ OneMaker' /\ RequestOf(r)'
      /\ \A v : v # u => (Deleting(v) => Deleting(v)') /\ (Making(v) => Making(v)') /\ (Saving(v) => Saving(v)')
  BY <1>1, Finishes
<1>9. \A v : <<"create", v>> \in audit' => <<"create", v>> \in audit
  BY <1>1
<1>3. ASSUME NEW s \in Requests, s # r PROVE Lost(s) \/ Untouched(s)
  BY <1>1, <1>9, Alike
<1>4. RequestOf(r) /\ RowOf(u) /\ (Here(u)' <=> Here(u))
  BY <1>1 DEF ConsoleInv, Here
<1>5. /\ Here(u) /\ Deleting(u) => Deleting(u)'
      /\ (Making(u) => Making(u)') /\ (Saving(u) => Saving(u)')
  BY <1>1, <1>2, <1>4 DEF Deleting, Making, Saving, On, Ends, Others, RequestOf, BoundOf, Here
<1>6. RowOf(u)'
  <2>1. GoneOf(u)' /\ OutOf(u)'
    BY <1>1, <1>2, <1>4 DEF RowOf, GoneOf, OutOf, More
  <2>2. WholeOf(u)' /\ MemberOf(u)'
    BY <1>1, <1>2, <1>4, <1>5, <1>9 DEF RowOf, WholeOf, MemberOf, More
  <2> QED  BY <1>1, <1>2, <1>5, <2>1, <2>2, AgreeKeeps DEF RowOf
<1>7. AuditInv'
  <2>1. <<deed, u>> \in effects
    BY <1>1, <1>4 DEF RequestOf, UpdateOf, On, Ends
  <2>2. ASSUME NEW e \in effects \ audit', Telling(e) PROVE Telling(e)'
    <3>1. e = <<e[1], e[2]>> /\ e # <<deed, u>>
      BY <1>1 DEF ConsoleInv, RowsMade
    <3> QED  BY <1>1, <1>2, <2>2, <3>1 DEF Telling, On, Others, Desk!Named
  <2> QED  BY <1>1, <1>2, <2>1, <2>2 DEF AuditInv, ConsoleInv, More, StrayRow, Broken
<1>8. row[u] # "none"
  BY <1>1 DEF ConsoleInv, RowsMade
<1> QED  BY <1>1, <1>2, <1>3, <1>6, <1>7, <1>8, <1>9, StoresStep

\* A deletion is.
LEMMA LogDeleteKeeps ==
  ASSUME ConsoleInv, NEW r \in Requests, Marked(r), Desk!LogDelete(r)
  PROVE  ConsoleInv'
<1>1. PICK u \in Rows, deed \in {"delete"} :
      /\ On(r, "delete") /\ task[r].at = "audit" /\ u = task[r].row /\ task' = [task EXCEPT ![r] = Desk!Idle]
      /\ deed = "delete" /\ audit' = audit \cup {<<deed, u>>}
      /\ UNCHANGED <<login, row, uid, spaces, members, homes, sessions, effects>>
  BY DEF Desk!LogDelete, Desk!Log, Desk!At, Desk!End, Desk!Named, On, ConsoleInv, TasksTyped, TaskShape
<1>2. /\ task'[r] = Desk!Idle /\ Others(r) /\ More /\ TasksTyped' /\ OneMaker' /\ RequestOf(r)'
      /\ \A v : v # u => (Deleting(v) => Deleting(v)') /\ (Making(v) => Making(v)') /\ (Saving(v) => Saving(v)')
  BY <1>1, Finishes
<1>9. \A v : <<"create", v>> \in audit' => <<"create", v>> \in audit
  BY <1>1
<1>3. ASSUME NEW s \in Requests, s # r PROVE Lost(s) \/ Untouched(s)
  BY <1>1, <1>9, Alike
<1>4. RequestOf(r) /\ RowOf(u) /\ (Here(u)' <=> Here(u))
  BY <1>1 DEF ConsoleInv, Here
<1>5. /\ Here(u) /\ Deleting(u) => Deleting(u)'
      /\ (Making(u) => Making(u)') /\ (Saving(u) => Saving(u)')
  BY <1>1, <1>2, <1>4 DEF Deleting, Making, Saving, On, Ends, Others, RequestOf, BoundOf, Here
<1>6. RowOf(u)'
  <2>1. GoneOf(u)' /\ OutOf(u)'
    BY <1>1, <1>2, <1>4 DEF RowOf, GoneOf, OutOf, More
  <2>2. WholeOf(u)' /\ MemberOf(u)'
    BY <1>1, <1>2, <1>4, <1>5, <1>9 DEF RowOf, WholeOf, MemberOf, More
  <2> QED  BY <1>1, <1>2, <1>5, <2>1, <2>2, AgreeKeeps DEF RowOf
<1>7. AuditInv'
  <2>1. <<deed, u>> \in effects
    BY <1>1, <1>4 DEF RequestOf, EndOf, On, Ends
  <2>2. ASSUME NEW e \in effects \ audit', Telling(e) PROVE Telling(e)'
    <3>1. e = <<e[1], e[2]>> /\ e # <<deed, u>>
      BY <1>1 DEF ConsoleInv, RowsMade
    <3> QED  BY <1>1, <1>2, <2>2, <3>1 DEF Telling, On, Others, Desk!Named
  <2> QED  BY <1>1, <1>2, <2>1, <2>2 DEF AuditInv, ConsoleInv, More, StrayRow, Broken
<1>8. row[u] # "none"
  BY <1>1 DEF ConsoleInv, RowsMade
<1> QED  BY <1>1, <1>2, <1>3, <1>6, <1>7, <1>8, <1>9, StoresStep

\* A login of an address that has none becomes one: nobody knew of it.
LEMMA LoginMade ==
  ASSUME ConsoleInv, NEW l \in Logins, login[l] = "none", login' = [login EXCEPT ![l] = "on"],
         UNCHANGED <<row, uid, spaces, members, homes, sessions>>, \A m \in Logins : login[m] \notin {"on", "off"}
  PROVE  /\ StoresTyped'
         /\ (\A v \in Rows : uid[v] # l) /\ (\A s \in Requests : task[s].login # l)
         /\ \A m \in Logins : m # l => login'[m] = login[m]
         /\ login'[l] = "on"
<1>1. login \in [Logins -> {"none", "on", "off", "gone"}]
  BY DEF ConsoleInv, StoresTyped
<1>2. StoresTyped'
  BY <1>1 DEF ConsoleInv, StoresTyped, Here
<1> QED  BY <1>1, <1>2 DEF ConsoleInv, RowsMade

\* A login is made at the provider, or refused.
LEMMA CreateLoginKeeps ==
  ASSUME ConsoleInv, NEW r \in Requests, Marked(r), Desk!CreateLogin(r)
  PROVE  ConsoleInv'
<1>1. On(r, "create") /\ task[r].at = "login" /\ task[r].row = 0
  BY DEF Desk!CreateLogin, Desk!At, On, ConsoleInv, TasksTyped, TaskShape
<1>2. CASE task' = [task EXCEPT ![r] = Desk!Idle] /\ StoresSame
  <2>1. Turned(r, Desk!Idle)
    BY <1>2, Finishes DEF Turned, ConsoleInv, TasksTyped, Desk!Idle, TaskSet, TaskShape, Desk!NoRow, Desk!NoLogin
  <2> QED  BY <1>1, <1>2, <2>1, RequestEnds DEF On
<1>3. ASSUME NEW l \in Logins, login[l] = "none", \A m \in Logins : login[m] \notin {"on", "off"},
             login' = [login EXCEPT ![l] = "on"], task' = [task EXCEPT ![r].at = "row", ![r].login = l],
             UNCHANGED <<row, uid, spaces, members, homes, sessions, audit, effects>>
      PROVE  ConsoleInv'
  <2> DEFINE k == [task[r] EXCEPT !.at = "row", !.login = l]
  <2>1. /\ task' = [task EXCEPT ![r] = k] /\ k \in TaskSet
        /\ k.kind = "create" /\ k.at = "row" /\ k.row = 0 /\ k.login = l
    BY <1>1, <1>3 DEF ConsoleInv, TasksTyped, TaskSet, On
  <2> HIDE DEF k
  <2>2. Turned(r, k) /\ Others(r)
    BY <1>1, <2>1 DEF Turned, Others, ConsoleInv, TasksTyped, TaskShape
  <2>3. More /\ CrossInv' /\ \A v : <<"rebound", v>> \in stray => <<"rebound", v>> \in stray'
    BY DEF More, Marked, StrayRow, StrayLogin, Broken
  <2>4. /\ StoresTyped'
        /\ (\A v \in Rows : uid[v] # l) /\ (\A s \in Requests : task[s].login # l)
        /\ \A m \in Logins : m # l => login'[m] = login[m]
        /\ login'[l] = "on"
    BY <1>3, LoginMade
  <2>5. TasksTyped'
    BY <2>2 DEF Turned, TasksTyped, ConsoleInv
  <2>6. OneMaker'
    BY <2>1, <2>2 DEF Turned, Others, OneMaker, ConsoleInv
  <2>7. RowsMade'
    BY <1>3, <2>1, <2>2, <2>4 DEF Turned, Others, RowsMade, ConsoleInv
  <2>8. RequestOf(r)'
    BY <2>1, <2>2, <2>4 DEF Turned, RequestOf, CreateOf, NewLoginOf, UpdateOf, SavingOf, EndOf, BoundOf, SignOf, SpaceOf, On, Ends
  <2>9. /\ \A e \in effects : Telling(e) => Telling(e)'
        /\ \A v \in Rows : (Deleting(v) => Deleting(v)') /\ (Making(v) => Making(v)') /\ (Saving(v) => Saving(v)')
    <3>1. ASSUME NEW e \in effects, Telling(e) PROVE Telling(e)'
      <4>1. e[2] # 0
        BY DEF ConsoleInv, RowsMade
      <4> QED  BY <1>1, <2>2, <3>1, <4>1 DEF Telling, Others, On, Desk!Named
    <3>2. ASSUME NEW v \in Rows
          PROVE  (Deleting(v) => Deleting(v)') /\ (Making(v) => Making(v)') /\ (Saving(v) => Saving(v)')
      BY <1>1, <2>2 DEF Deleting, Making, Saving, Others, On, Ends
    <3> QED  BY <3>1, <3>2
  <2>10. AuditInv'
    BY <1>3, <2>3, <2>9, AuditKeeps
  <2>11. ASSUME NEW s \in Requests, s # r PROVE (Lost(s) \/ Untouched(s)) /\ NewLoginOf(s)' /\ BoundOf(s)'
    <3>1. Untouched(s)
      BY <1>3, <2>4, AlikeButLogin
    <3>2. task'[s] = task[s] /\ \A x \in Requests : task'[x].kind = "signin" /\ task'[x].at = "bind" => task'[x] = task[x]
      BY <2>1, <2>2, <2>11 DEF Turned, Others
    <3>3. On(s, "create") /\ task[s].login \in Logins => StrayLogin(task[s].login)' \/ login'[task[s].login] = login[task[s].login]
      BY <2>4
    <3>4. \A v \in Rows : (Here(v)' <=> Here(v)) /\ (row[v] = "gone" => row'[v] = "gone")
      BY <1>3 DEF Here
    <3> QED  BY <1>3, <2>3, <3>1, <3>2, <3>3, <3>4, BondsStay
  <2>12. 0 \notin Rows
    OBVIOUS
  <2> QED  BY <1>3, <2>2, <2>3, <2>4, <2>5, <2>6, <2>7, <2>8, <2>9, <2>10, <2>11, <2>12, Assembled
<1>4. \/ task' = [task EXCEPT ![r] = Desk!Idle] /\ StoresSame
      \/ \E l \in Logins :
           /\ login[l] = "none" /\ \A m \in Logins : login[m] \notin {"on", "off"}
           /\ login' = [login EXCEPT ![l] = "on"] /\ task' = [task EXCEPT ![r].at = "row", ![r].login = l]
           /\ UNCHANGED <<row, uid, spaces, members, homes, sessions, audit, effects>>
  <2>1. DOMAIN login = Logins
    BY DEF ConsoleInv, StoresTyped
  <2> QED  BY <2>1 DEF Desk!CreateLogin, Desk!Refused, Desk!End, Desk!accounts, Desk!Known, Desk!Fresh, StoresSame
<1> QED  BY <1>2, <1>3, <1>4

\* A row for an address that has none: nobody knew of it.
NewRow(u, l) ==
  /\ row[u] = "none" /\ login[l] # "none" /\ \A v \in Rows : ~Here(v)
  /\ row' = [row EXCEPT ![u] = "active"] /\ uid' = [uid EXCEPT ![u] = l]
  /\ UNCHANGED <<login, spaces, members, homes, sessions>>

\* A new row belongs to nobody yet, and nobody has it in hand.
LEMMA RowMade ==
  ASSUME ConsoleInv, NEW u \in Rows, NEW l \in Logins, NewRow(u, l)
  PROVE  /\ StoresTyped'
         /\ \A s \in Requests : task[s].row # u
         /\ u \notin spaces /\ u \notin members /\ u \notin homes /\ u \notin sessions
         /\ \A e \in effects : e[2] # u
         /\ row'[u] = "active" /\ uid'[u] = l
         /\ \A v \in Rows : v # u => row'[v] = row[v] /\ uid'[v] = uid[v]
         /\ UNCHANGED <<login, spaces, members, homes, sessions>>
         /\ \A v \in Rows : ~Here(v)
<1>1. row \in [Rows -> {"none", "active", "suspended", "gone"}] /\ uid \in [Rows -> Logins \cup {0}]
  BY DEF ConsoleInv, StoresTyped
<1>2. /\ row'[u] = "active" /\ uid'[u] = l
      /\ \A v \in Rows : v # u => row'[v] = row[v] /\ uid'[v] = uid[v]
  BY <1>1 DEF NewRow
<1>3. StoresTyped'
  BY <1>1, <1>2 DEF NewRow, ConsoleInv, StoresTyped, Here
<1> QED  BY <1>2, <1>3 DEF NewRow, ConsoleInv, RowsMade

\* The others, and the rows that are gone, when an address gets its row.
LEMMA RowMadeOthers ==
  ASSUME ConsoleInv, NEW u \in Rows, NEW l \in Logins, NEW r \in Requests, Others(r), More, NewRow(u, l), UNCHANGED audit,
         task[r].login = l, task[r].kind \in {"create", "signin"}, NEW s \in Requests, s # r
  PROVE  Untouched(s) /\ NewLoginOf(s)' /\ BoundOf(s)'
<1>1. /\ \A x \in Requests : task[x].row # u
      /\ row'[u] = "active" /\ uid'[u] = l
      /\ \A v \in Rows : v # u => row'[v] = row[v] /\ uid'[v] = uid[v]
      /\ UNCHANGED <<login, spaces, members, homes, sessions>>
      /\ \A v \in Rows : ~Here(v)
  BY RowMade
<1>2. task'[s] = task[s] /\ RequestOf(s) /\ TaskShape(task[s]) /\ 0 \notin Rows /\ 0 \notin Logins
  BY DEF Others, ConsoleInv, TasksTyped
<1>3. Untouched(s)
  <2>1. Ends(s) \/ On(s, "update") => task[s].row \in Rows
    BY <1>2 DEF TaskShape, Ends, On
  <2> QED  BY <1>1, <2>1 DEF Untouched, Here
<1>4. NewLoginOf(s)'
  <2>1. StrayLogin(task[s].login) => StrayLogin(task[s].login)'
    BY <1>2 DEF More
  <2> QED  BY <1>1, <1>2, <2>1 DEF RequestOf, NewLoginOf, On, StrayLogin
<1>5. BoundOf(s)'
  <2>1. SUFFICES ASSUME Ends(s) PROVE BoundOf(s)'
    BY <1>2 DEF BoundOf, Ends
  <2>2. task[s].row \in Rows /\ task[s].row # u /\ task[s].login \in Logins
    BY <1>1, <1>2, <2>1 DEF TaskShape, Ends
  <2>3. task[s].at = "audit" => row'[task[s].row] = "gone"
    BY <1>1, <1>2, <2>1, <2>2 DEF RequestOf, BoundOf
  <2>4. \A v \in Rows : Here(v)' => v = u
    BY <1>1 DEF Here
  <2>5. task[s].login = l => StrayLogin(l)'
    <3>1. task[s].login = l => Lost(s)
      BY <1>2, <2>1, <2>2, Apart DEF Ends, Desk!Clash, ConsoleInv
    <3> QED  BY <1>2, <3>1 DEF Lost, More
  <2>6. Here(task[s].row)' => FALSE
    BY <1>2, <2>2, <2>4
  <2> QED  BY <1>1, <1>2, <2>2, <2>3, <2>4, <2>5, <2>6 DEF BoundOf, StrayLogin
<1> QED  BY <1>3, <1>4, <1>5

\* The row of a new admin is made, or refused where the address has one.
LEMMA CreateRowKeeps ==
  ASSUME ConsoleInv, NEW r \in Requests, Marked(r), Desk!CreateRow(r)
  PROVE  ConsoleInv'
<1>1. /\ On(r, "create") /\ task[r].at = "row" /\ task[r].row = 0 /\ task[r].login \in Logins
      /\ login[task[r].login] # "none" /\ RequestOf(r)
  BY DEF Desk!CreateRow, Desk!At, On, ConsoleInv, RowsMade, TasksTyped, TaskShape
<1>2. CASE task' = [task EXCEPT ![r] = Desk!Idle] /\ StoresSame
  <2>1. Turned(r, Desk!Idle)
    BY <1>2, Finishes DEF Turned, ConsoleInv, TasksTyped, Desk!Idle, TaskSet, TaskShape, Desk!NoRow, Desk!NoLogin
  <2> QED  BY <1>1, <1>2, <2>1, RequestEnds DEF On
<1>3. ASSUME NEW u \in Rows, NEW l \in Logins, l = task[r].login, row[u] = "none", \A v \in Rows : ~Here(v),
             row' = [row EXCEPT ![u] = "active"], uid' = [uid EXCEPT ![u] = l],
             task' = [task EXCEPT ![r].at = "space", ![r].row = u],
             effects' = effects \cup {<<"create", u>>}, UNCHANGED <<login, spaces, members, homes, sessions, audit>>
      PROVE  ConsoleInv'
  <2> DEFINE k == [task[r] EXCEPT !.at = "space", !.row = u]
  <2>1. /\ task' = [task EXCEPT ![r] = k] /\ k \in TaskSet
        /\ k.kind = "create" /\ k.at = "space" /\ k.row = u /\ k.login = l
    BY <1>1, <1>3 DEF ConsoleInv, TasksTyped, TaskSet, On
  <2> HIDE DEF k
  <2>2. Turned(r, k) /\ Others(r) /\ task'[r] = k
    BY <1>1, <2>1 DEF Turned, Others, ConsoleInv, TasksTyped, TaskShape
  <2>3. More /\ CrossInv' /\ \A v : <<"rebound", v>> \in stray => <<"rebound", v>> \in stray'
    BY DEF More, Marked, StrayRow, StrayLogin, Broken
  <2>4. /\ StoresTyped'
        /\ \A s \in Requests : task[s].row # u
        /\ u \notin spaces /\ u \notin members /\ u \notin homes /\ u \notin sessions
        /\ \A e \in effects : e[2] # u
        /\ row'[u] = "active" /\ uid'[u] = l
        /\ \A v \in Rows : v # u => row'[v] = row[v] /\ uid'[v] = uid[v]
    <3>1. NewRow(u, l)
      BY <1>1, <1>3 DEF NewRow
    <3> QED  BY <3>1, RowMade
  <2>5. TasksTyped'
    BY <2>2 DEF Turned, TasksTyped, ConsoleInv
  <2>6. OneMaker'
    BY <2>1, <2>2, <2>4 DEF Others, OneMaker, ConsoleInv
  <2>7. RowsMade'
    <3>1. ASSUME NEW s \in Requests
          PROVE  /\ task'[s].row \in Rows => row'[task'[s].row] # "none"
                 /\ task'[s].login \in Logins => login'[task'[s].login] # "none"
      <4>1. CASE s = r
        BY <1>1, <1>3, <2>1, <2>2, <2>4, <4>1
      <4>2. CASE s # r
        <5>1. task'[s] = task[s]
          BY <2>2, <4>2 DEF Others
        <5>2. task[s].row \in Rows => row[task[s].row] # "none" /\ task[s].row # u
          BY <2>4 DEF RowsMade, ConsoleInv
        <5>3. task[s].login \in Logins => login[task[s].login] # "none"
          BY DEF RowsMade, ConsoleInv
        <5>4. login' = login
          BY <1>3
        <5>5. task[s].row \in Rows => row'[task[s].row] = row[task[s].row]
          BY <2>4, <5>2
        <5> QED  BY <5>1, <5>2, <5>3, <5>4, <5>5
      <4> QED  BY <4>1, <4>2
    <3>2. ASSUME NEW v \in Rows PROVE /\ row'[v] # "none" => uid'[v] \in Logins
                                      /\ uid'[v] \in Logins => login'[uid'[v]] # "none"
      BY <1>1, <1>3, <2>4 DEF RowsMade, ConsoleInv
    <3>3. /\ \A v \in spaces' \cup members' \cup homes' \cup sessions' : row'[v] # "none"
          /\ effects' \subseteq {"create", "edit", "suspend", "reactivate", "delete"} \X Rows
          /\ \A e \in effects' : e[2] \in Rows /\ row'[e[2]] # "none"
      BY <1>3, <2>4 DEF RowsMade, ConsoleInv, StoresTyped
    <3> QED  BY <3>1, <3>2, <3>3 DEF RowsMade
  <2>8. StrayLogin(l) \/ login[l] = "on"
    BY <1>1, <1>3 DEF RequestOf, NewLoginOf, SignOf, Here, On
  <2>9. RequestOf(r)'
    <3>1. Here(task[r].row)'
      BY <2>1, <2>2, <2>4 DEF Here
    <3>2. StrayLogin(l) => StrayLogin(l)'
      BY <2>3 DEF More
    <3> QED  BY <1>3, <2>1, <2>2, <2>4, <2>8, <3>1, <3>2 DEF RequestOf, CreateOf, NewLoginOf, UpdateOf, SavingOf, EndOf, BoundOf, SignOf, SpaceOf, On, Ends, StrayLogin
  <2>10. RowOf(u)'
    <3>1. <<"create", u>> \notin audit
      BY <2>4 DEF ConsoleInv, AuditInv
    <3>2. GoneOf(u)' /\ OutOf(u)' /\ WholeOf(u)' /\ MemberOf(u)'
      BY <1>3, <2>4, <3>1 DEF GoneOf, OutOf, WholeOf, MemberOf
    <3>3. AgreeOf(u)'
      BY <1>3, <2>3, <2>4, <2>8 DEF AgreeOf, More, StrayLogin
    <3> QED  BY <3>2, <3>3 DEF RowOf
  <2>11. /\ \A e \in effects : Telling(e) => Telling(e)'
         /\ \A v \in Rows : (Deleting(v) => Deleting(v)') /\ (Making(v) => Making(v)') /\ (Saving(v) => Saving(v)')
    <3>1. ASSUME NEW e \in effects, Telling(e) PROVE Telling(e)'
      <4>1. e[2] # 0
        BY DEF ConsoleInv, RowsMade
      <4> QED  BY <1>1, <2>2, <3>1, <4>1 DEF Telling, Others, On, Desk!Named
    <3>2. ASSUME NEW v \in Rows
          PROVE  (Deleting(v) => Deleting(v)') /\ (Making(v) => Making(v)') /\ (Saving(v) => Saving(v)')
      BY <1>1, <2>2 DEF Deleting, Making, Saving, Others, On, Ends
    <3> QED  BY <3>1, <3>2
  <2>12. AuditInv'
    <3>1. Telling(<<"create", u>>)'
      BY <2>1, <2>2 DEF Telling, On
    <3> QED  BY <1>3, <2>3, <2>11, <3>1 DEF AuditInv, ConsoleInv, More, StrayRow, Broken
  <2>13. \A s \in Requests : s # r => Untouched(s) /\ NewLoginOf(s)' /\ BoundOf(s)'
    <3>1. NewRow(u, l)
      BY <1>1, <1>3 DEF NewRow
    <3> QED  BY <1>1, <1>3, <2>2, <2>3, <3>1, RowMadeOthers DEF On
  <2>14. effects \subseteq effects'
    BY <1>3
  <2> QED  BY <1>3, <2>2, <2>3, <2>4, <2>5, <2>6, <2>7, <2>9, <2>10, <2>11, <2>12, <2>13, <2>14, Assembled
<1>4. DOMAIN row = Rows
  BY DEF ConsoleInv, StoresTyped
<1> QED  BY <1>1, <1>2, <1>3, <1>4 DEF Desk!CreateRow, Desk!At, Desk!InsertRow, Desk!Took, Desk!Fresh, Desk!Refused, Desk!End,
                              Desk!Existing, Desk!Present, Desk!accounts, StoresSame, Here

\* So is the row of somebody who signs in for the first time.
LEMMA SignUpRowKeeps ==
  ASSUME ConsoleInv, NEW r \in Requests, Marked(r), Desk!SignUpRow(r)
  PROVE  ConsoleInv'
<1>1. /\ On(r, "signin") /\ task[r].at = "row" /\ task[r].row = 0 /\ task[r].login \in Logins
      /\ login[task[r].login] # "none" /\ RequestOf(r)
  BY DEF Desk!SignUpRow, Desk!At, On, ConsoleInv, RowsMade, TasksTyped, TaskShape
<1>2. CASE task' = [task EXCEPT ![r] = Desk!Idle] /\ StoresSame
  <2>1. Turned(r, Desk!Idle)
    BY <1>2, Finishes DEF Turned, ConsoleInv, TasksTyped, Desk!Idle, TaskSet, TaskShape, Desk!NoRow, Desk!NoLogin
  <2> QED  BY <1>1, <1>2, <2>1, RequestEnds DEF On
<1>3. ASSUME NEW u \in Rows, NEW l \in Logins, l = task[r].login, row[u] = "none", \A v \in Rows : ~Here(v),
             row' = [row EXCEPT ![u] = "active"], uid' = [uid EXCEPT ![u] = l],
             task' = [task EXCEPT ![r].at = "session", ![r].row = u, ![r].was = "active"],
             effects' = effects, UNCHANGED <<login, spaces, members, homes, sessions, audit>>
      PROVE  ConsoleInv'
  <2> DEFINE k == [task[r] EXCEPT !.at = "session", !.row = u, !.was = "active"]
  <2>1. /\ task' = [task EXCEPT ![r] = k] /\ k \in TaskSet
        /\ k.kind = "signin" /\ k.at = "session" /\ k.row = u /\ k.login = l /\ k.was = "active"
    BY <1>1, <1>3 DEF ConsoleInv, TasksTyped, TaskSet, On
  <2> HIDE DEF k
  <2>2. Turned(r, k) /\ Others(r) /\ task'[r] = k
    BY <1>1, <2>1 DEF Turned, Others, ConsoleInv, TasksTyped, TaskShape
  <2>3. More /\ CrossInv' /\ \A v : <<"rebound", v>> \in stray => <<"rebound", v>> \in stray'
    BY DEF More, Marked, StrayRow, StrayLogin, Broken
  <2>4. /\ StoresTyped'
        /\ \A s \in Requests : task[s].row # u
        /\ u \notin spaces /\ u \notin members /\ u \notin homes /\ u \notin sessions
        /\ \A e \in effects : e[2] # u
        /\ row'[u] = "active" /\ uid'[u] = l
        /\ \A v \in Rows : v # u => row'[v] = row[v] /\ uid'[v] = uid[v]
    <3>1. NewRow(u, l)
      BY <1>1, <1>3 DEF NewRow
    <3> QED  BY <3>1, RowMade
  <2>5. TasksTyped'
    BY <2>2 DEF Turned, TasksTyped, ConsoleInv
  <2>6. OneMaker'
    BY <2>1, <2>2, <2>4 DEF Others, OneMaker, ConsoleInv
  <2>7. RowsMade'
    <3>1. ASSUME NEW s \in Requests
          PROVE  /\ task'[s].row \in Rows => row'[task'[s].row] # "none"
                 /\ task'[s].login \in Logins => login'[task'[s].login] # "none"
      <4>1. CASE s = r
        BY <1>1, <1>3, <2>1, <2>2, <2>4, <4>1
      <4>2. CASE s # r
        <5>1. task'[s] = task[s]
          BY <2>2, <4>2 DEF Others
        <5>2. task[s].row \in Rows => row[task[s].row] # "none" /\ task[s].row # u
          BY <2>4 DEF RowsMade, ConsoleInv
        <5>3. task[s].login \in Logins => login[task[s].login] # "none"
          BY DEF RowsMade, ConsoleInv
        <5>4. login' = login
          BY <1>3
        <5>5. task[s].row \in Rows => row'[task[s].row] = row[task[s].row]
          BY <2>4, <5>2
        <5> QED  BY <5>1, <5>2, <5>3, <5>4, <5>5
      <4> QED  BY <4>1, <4>2
    <3>2. ASSUME NEW v \in Rows PROVE /\ row'[v] # "none" => uid'[v] \in Logins
                                      /\ uid'[v] \in Logins => login'[uid'[v]] # "none"
      BY <1>1, <1>3, <2>4 DEF RowsMade, ConsoleInv
    <3>3. /\ \A v \in spaces' \cup members' \cup homes' \cup sessions' : row'[v] # "none"
          /\ effects' \subseteq {"create", "edit", "suspend", "reactivate", "delete"} \X Rows
          /\ \A e \in effects' : e[2] \in Rows /\ row'[e[2]] # "none"
      BY <1>3, <2>4 DEF RowsMade, ConsoleInv, StoresTyped
    <3> QED  BY <3>1, <3>2, <3>3 DEF RowsMade
  <2>8. StrayLogin(l) \/ login[l] = "on"
    BY <1>1, <1>3 DEF RequestOf, NewLoginOf, SignOf, Here, On
  <2>9. RequestOf(r)'
    <3>1. Here(task[r].row)'
      BY <2>1, <2>2, <2>4 DEF Here
    <3>2. StrayLogin(l) => StrayLogin(l)'
      BY <2>3 DEF More
    <3> QED  BY <1>3, <2>1, <2>2, <2>4, <2>8, <3>1, <3>2 DEF RequestOf, CreateOf, NewLoginOf, UpdateOf, SavingOf, EndOf, BoundOf, SignOf, SpaceOf, On, Ends, StrayLogin
  <2>10. RowOf(u)'
    <3>1. <<"create", u>> \notin audit
      BY <2>4 DEF ConsoleInv, AuditInv
    <3>2. GoneOf(u)' /\ OutOf(u)' /\ WholeOf(u)' /\ MemberOf(u)'
      BY <1>3, <2>4, <3>1 DEF GoneOf, OutOf, WholeOf, MemberOf
    <3>3. AgreeOf(u)'
      BY <1>3, <2>3, <2>4, <2>8 DEF AgreeOf, More, StrayLogin
    <3> QED  BY <3>2, <3>3 DEF RowOf
  <2>11. /\ \A e \in effects : Telling(e) => Telling(e)'
         /\ \A v \in Rows : (Deleting(v) => Deleting(v)') /\ (Making(v) => Making(v)') /\ (Saving(v) => Saving(v)')
    <3>1. ASSUME NEW e \in effects, Telling(e) PROVE Telling(e)'
      <4>1. e[2] # 0
        BY DEF ConsoleInv, RowsMade
      <4> QED  BY <1>1, <2>2, <3>1, <4>1 DEF Telling, Others, On, Desk!Named
    <3>2. ASSUME NEW v \in Rows
          PROVE  (Deleting(v) => Deleting(v)') /\ (Making(v) => Making(v)') /\ (Saving(v) => Saving(v)')
      BY <1>1, <2>2 DEF Deleting, Making, Saving, Others, On, Ends
    <3> QED  BY <3>1, <3>2
  <2>12. AuditInv'
    BY <1>3, <2>3, <2>11, AuditKeeps
  <2>13. \A s \in Requests : s # r => Untouched(s) /\ NewLoginOf(s)' /\ BoundOf(s)'
    <3>1. NewRow(u, l)
      BY <1>1, <1>3 DEF NewRow
    <3> QED  BY <1>1, <1>3, <2>2, <2>3, <3>1, RowMadeOthers DEF On
  <2>14. effects \subseteq effects'
    BY <1>3
  <2> QED  BY <1>3, <2>2, <2>3, <2>4, <2>5, <2>6, <2>7, <2>9, <2>10, <2>11, <2>12, <2>13, <2>14, Assembled
<1>4. DOMAIN row = Rows
  BY DEF ConsoleInv, StoresTyped
<1> QED  BY <1>1, <1>2, <1>3, <1>4 DEF Desk!SignUpRow, Desk!At, Desk!InsertRow, Desk!Took, Desk!Fresh, Desk!Refused, Desk!End,
                              Desk!Existing, Desk!Present, Desk!accounts, StoresSame, Here

\* A row gets the login it was reached by: a suspended one is written down as rebound.
LEMMA BindKeeps ==
  ASSUME ConsoleInv, NEW r \in Requests, Marked(r), Desk!Bind(r)
  PROVE  ConsoleInv'
<1>0. On(r, "signin") /\ task[r].at = "bind" /\ task[r].row \in Rows /\ task[r].login \in Logins
  BY DEF Desk!Bind, Desk!At, On, ConsoleInv, TasksTyped, TaskShape
<1>9. CASE task' = [task EXCEPT ![r] = Desk!Idle] /\ StoresSame
  <2>1. Turned(r, Desk!Idle)
    BY <1>9, Finishes DEF Turned, ConsoleInv, TasksTyped, Desk!Idle, TaskSet, TaskShape, Desk!NoRow, Desk!NoLogin
  <2> QED  BY <1>0, <1>9, <2>1, RequestEnds DEF On
<1>8. ASSUME NEW u \in Rows, NEW l \in Logins, u = task[r].row, l = task[r].login, Here(u),
             task' = [task EXCEPT ![r].at = "session"], uid' = [uid EXCEPT ![u] = l],
             UNCHANGED <<login, row, spaces, members, homes, sessions, audit, effects>>
      PROVE  ConsoleInv'
  <2>1. uid \in [Rows -> Logins \cup {0}] /\ uid'[u] = l /\ \A v \in Rows : v # u => uid'[v] = uid[v]
    BY <1>8 DEF ConsoleInv, StoresTyped
  <2>2. /\ task'[r].at = "session" /\ task'[r].kind = "signin" /\ task'[r].row = u /\ task'[r].login = l
        /\ task'[r].was = task[r].was
        /\ Others(r) /\ More /\ (Lost(r) => Lost(r)') /\ TasksTyped' /\ OneMaker' /\ CrossInv'
        /\ \A e : Telling(e) => Telling(e)'
        /\ \A v : Deleting(v) => Deleting(v)'
        /\ \A v : v # u => (Making(v) => Making(v)') /\ (Saving(v) => Saving(v)')
    <3>1. TaskShape([task[r] EXCEPT !.at = "session"])
      BY <1>0 DEF ConsoleInv, TasksTyped, TaskShape, TaskSet, On
    <3> QED  BY <1>0, <1>8, <3>1, Moves DEF On
  <2>3. \A v : <<"rebound", v>> \in stray => <<"rebound", v>> \in stray'
    BY DEF Marked
  <2>4. \A v \in Rows : (Here(v)' <=> Here(v)) /\ (Here(v) => v = u)
    BY <1>8 DEF Here, ConsoleInv, StoresTyped
  <2>5. StoresTyped'
    BY <1>8, <2>1, <2>4 DEF ConsoleInv, StoresTyped
  <2>6. RowsMade'
    <3>1. ASSUME NEW s \in Requests
          PROVE  /\ task'[s].row \in Rows => row'[task'[s].row] # "none"
                 /\ task'[s].login \in Logins => login'[task'[s].login] # "none"
      <4>1. CASE s = r
        BY <1>0, <1>8, <2>1, <2>2, <4>1 DEF RowsMade, ConsoleInv
      <4>2. CASE s # r
        BY <1>0, <1>8, <2>1, <2>2, <4>2 DEF Others, RowsMade, ConsoleInv
      <4> QED  BY <4>1, <4>2
    <3> QED  BY <1>0, <1>8, <2>1, <2>2, <3>1 DEF RowsMade, ConsoleInv, StoresTyped
  <2>7. RequestOf(r) /\ RowOf(u)
    BY DEF ConsoleInv
  <2>8. StrayLogin(l) \/ login[l] = "on"
    BY <1>0, <1>8, <2>7 DEF RequestOf, SignOf
  <2>9. RequestOf(r)'
    <3>1. On(r, "signin")' /\ ~Ends(r)' /\ ~On(r, "create")' /\ ~On(r, "update")' /\ ~On(r, "space")'
      BY <2>2 DEF On, Ends
    <3>2. SignOf(r)'
      BY <1>0, <1>8, <2>2, <2>7 DEF RequestOf, SignOf, More, StrayLogin
    <3> QED  BY <3>1, <3>2 DEF RequestOf, CreateOf, NewLoginOf, UpdateOf, SavingOf, EndOf, BoundOf, SignOf, SpaceOf
  <2>10. ASSUME NEW s \in Requests, s # r PROVE (Lost(s) \/ Untouched(s)) /\ NewLoginOf(s)' /\ BoundOf(s)'
    <3>1. task'[s] = task[s] /\ RequestOf(s) /\ TaskShape(task[s]) /\ 0 \notin Rows /\ 0 \notin Logins
      BY <2>2, <2>10 DEF Others, ConsoleInv, TasksTyped
    <3>2. task[s].row = u /\ (Ends(s) \/ On(s, "update")) => Lost(s) /\ Lost(r)
      BY <1>0, <1>8, <2>10, <3>1, Apart DEF Ends, On, Desk!Clash, ConsoleInv
    <3>3. task[s].login = l /\ Ends(s) => Lost(s)
      BY <1>0, <1>8, <2>10, <3>1, Apart DEF Ends, On, Desk!Clash, ConsoleInv
    <3>4. Lost(s) \/ Untouched(s)
      <4>1. Ends(s) \/ On(s, "update") => task[s].row \in Rows
        BY <3>1 DEF TaskShape, Ends, On
      <4> QED  BY <1>8, <2>1, <3>2, <4>1 DEF Untouched, Here
    <3>5. NewLoginOf(s)'
      <4>1. SUFFICES ASSUME On(s, "create"), task[s].at = "row", ~StrayLogin(task[s].login)' PROVE NewLoginOf(s)'
        BY <3>1 DEF NewLoginOf, On
      <4>2. NewLoginOf(s) /\ ~StrayLogin(task[s].login)
        BY <2>2, <3>1, <4>1 DEF RequestOf, More, StrayLogin
      <4>3. \A v \in Rows : Here(v) =>
              ~\A x \in Requests : ~(On(x, "signin") /\ task[x].at = "bind" /\ task[x].row = v)
        BY <1>0, <1>8, <2>4
      <4>4. login[task[s].login] = "on"
        BY <4>1, <4>2, <4>3 DEF NewLoginOf
      <4> QED  BY <1>8, <3>1, <4>4 DEF NewLoginOf
    <3>6. BoundOf(s)'
      <4>1. SUFFICES ASSUME Ends(s) PROVE BoundOf(s)'
        BY <3>1 DEF BoundOf, Ends
      <4>2. task[s].row \in Rows /\ task[s].login \in Logins /\ BoundOf(s)
        BY <3>1, <4>1 DEF TaskShape, Ends, RequestOf
      <4>3. task[s].at = "audit" => row'[task[s].row] = "gone"
        BY <1>8, <4>1, <4>2 DEF BoundOf
      <4>4. Here(task[s].row) => task[s].row = u /\ StrayLogin(l)'
        BY <1>8, <2>2, <2>4, <3>1, <3>2, <4>1, <4>2 DEF Lost, More
      <4>5. ~StrayLogin(task[s].login)' => task[s].login # l
        BY <2>2, <3>1, <3>3, <4>1, <4>2 DEF Lost, More, StrayLogin
      <4>6. Here(task[s].row)' <=> Here(task[s].row)
        BY <2>4, <3>1, <4>2 DEF Here
      <4>7. Here(task[s].row)' => StrayLogin(uid[task[s].row])'
        BY <2>1, <3>1, <4>4, <4>6 DEF StrayLogin
      <4>8. ~StrayLogin(task[s].login)' => \A v \in Rows : Here(v)' => uid'[v] # task[s].login
        BY <2>1, <2>4, <4>5
      <4> QED  BY <3>1, <4>3, <4>7, <4>8 DEF BoundOf
    <3> QED  BY <3>4, <3>5, <3>6
  <2>11. RowOf(u)'
    <3>1. (Making(u) => Making(u)') /\ (Saving(u) => Saving(u)')
      BY <1>0, <2>2 DEF Making, Saving, On, Ends, Others
    <3>2. GoneOf(u)' /\ OutOf(u)' /\ WholeOf(u)' /\ MemberOf(u)'
      BY <1>8, <2>2, <2>7, <3>1 DEF RowOf, GoneOf, OutOf, WholeOf, MemberOf, Here, More
    <3>3. AgreeOf(u)'
      <4>1. CASE uid[u] = l
        BY <1>8, <2>1, <2>2, <2>3, <2>4, <2>7, <3>1, <4>1 DEF RowOf, AgreeOf, More, StrayLogin
      <4>2. CASE uid[u] # l
        <5>1. row[u] = "suspended" => <<"rebound", u>> \in stray'
          BY <2>1, <4>2 DEF Marked
        <5> QED  BY <1>8, <2>1, <2>2, <2>8, <5>1 DEF AgreeOf, Here, More, StrayLogin
      <4> QED  BY <4>1, <4>2
    <3> QED  BY <3>2, <3>3 DEF RowOf
  <2>12. AuditInv'
    BY <1>8, <2>2, AuditKeeps
  <2> QED  BY <1>8, <2>1, <2>2, <2>3, <2>5, <2>6, <2>9, <2>10, <2>11, <2>12, Assembled
<1> QED  BY <1>0, <1>8, <1>9 DEF Desk!Bind, Desk!Refused, Desk!End, Desk!To, Desk!Present, Desk!accounts, StoresSame, Here

\* The login is disabled or enabled, was gone, or the provider refuses.
LEMMA SwitchLoginKeeps ==
  ASSUME ConsoleInv, NEW r \in Requests, Marked(r), Desk!SwitchLogin(r)
  PROVE  ConsoleInv'
<1>1. PICK u \in Rows, l \in Logins :
      /\ On(r, "update") /\ task[r].at = "login" /\ u = task[r].row /\ l = task[r].login
      /\ task' = [task EXCEPT ![r].at = "save"] /\ UNCHANGED <<row, uid, spaces, members, homes, sessions, audit, effects>>
      /\ \/ /\ login[l] \in {"on", "off"}
            /\ login' = [login EXCEPT ![l] = IF task[r].now = "active" THEN "on" ELSE "off"]
         \/ login[l] = "gone" /\ UNCHANGED login
         \/ refusals' = refusals + 1 /\ UNCHANGED login
  BY DEF Desk!SwitchLogin, Desk!At, Desk!To, Desk!Refuses, On, ConsoleInv, TasksTyped, TaskShape
<1>2. /\ task'[r].at = "save" /\ task'[r].kind = task[r].kind /\ task'[r].row = u /\ task'[r].login = l
      /\ task'[r].was = task[r].was /\ task'[r].now = task[r].now
      /\ Others(r) /\ More /\ (Lost(r) => Lost(r)') /\ TasksTyped' /\ OneMaker' /\ CrossInv'
      /\ \A e : Telling(e) => Telling(e)'
      /\ \A v : Deleting(v) => Deleting(v)'
      /\ \A v : v # u => (Making(v) => Making(v)') /\ (Saving(v) => Saving(v)')
  <2>1. TaskShape([task[r] EXCEPT !.at = "save"])
    BY <1>1 DEF ConsoleInv, TasksTyped, TaskShape, TaskSet, On, Ends
  <2> QED  BY <1>1, <2>1, Moves DEF On, Ends
<1>3. \A v : <<"rebound", v>> \in stray => <<"rebound", v>> \in stray'
  BY DEF Marked
<1>4. /\ login \in [Logins -> {"none", "on", "off", "gone"}]
      /\ \A m \in Logins : m # l => login'[m] = login[m]
      /\ \/ /\ login[l] \in {"on", "off"}
            /\ login'[l] = (IF task[r].now = "active" THEN "on" ELSE "off")
         \/ login[l] = "gone" /\ login'[l] = login[l]
         \/ Broken(u)' /\ login'[l] = login[l]
  <2>1. login \in [Logins -> {"none", "on", "off", "gone"}]
    BY DEF ConsoleInv, StoresTyped
  <2>2. refusals' = refusals + 1 => Broken(u)'
    BY <1>1, <1>2 DEF Marked, Broken
  <2> QED  BY <1>1, <2>1, <2>2
<1>5. \A v \in Rows : (Here(v)' <=> Here(v)) /\ (StrayLogin(uid[v]) => StrayLogin(uid[v])')
  BY <1>1, <1>2 DEF Here, More, StrayLogin
<1>6. RequestOf(r) /\ RowOf(u) /\ StoresTyped /\ 0 \notin Rows /\ 0 \notin Logins
  BY DEF ConsoleInv
<1>7. StoresTyped'
  <2>1. login' \in [Logins -> {"none", "on", "off", "gone"}]
    BY <1>1, <1>4
  <2>2. \A m \in Logins : login'[m] \in {"on", "off"} <=> login[m] \in {"on", "off"}
    BY <1>4
  <2> QED  BY <1>1, <1>5, <1>6, <2>1, <2>2 DEF StoresTyped
<1>8. RowsMade'
  <2>1. \A m \in Logins : login[m] # "none" => login'[m] # "none"
    BY <1>4
  <2>2. ASSUME NEW s \in Requests PROVE task'[s].row = task[s].row /\ task'[s].login = task[s].login
    BY <1>1, <1>2 DEF Others
  <2> QED  BY <1>1, <2>1, <2>2 DEF RowsMade, ConsoleInv
\* The row is as it was read, and nobody deletes it or binds it, unless all is lost.
<1>9. ~Lost(r) => /\ Here(u) /\ uid[u] = l
                  /\ task[r].now = "suspended" => u \notin sessions
                  /\ ~Deleting(u)
                  /\ \A x \in Requests : ~(On(x, "signin") /\ task[x].at = "bind" /\ task[x].row = u)
  <2>1. ASSUME NEW x \in Requests, task[x].row = u, Ends(x) \/ On(x, "signin") PROVE Lost(r)
    <3>1. x # r
      BY <1>1, <2>1 DEF On, Ends
    <3> QED  BY <1>1, <1>6, <2>1, <3>1, Apart DEF On, Ends, Desk!Clash, ConsoleInv
  <2>2. task[r].was \in {"active", "suspended"}
    BY <1>1 DEF ConsoleInv, TasksTyped, TaskShape, On
  <2> QED  BY <1>1, <1>6, <2>1, <2>2 DEF RequestOf, UpdateOf, Here, Deleting
<1>10. ~StrayLogin(l) => ~Lost(r)
  BY <1>1, <1>6 DEF Lost
<1>11. ASSUME NEW s \in Requests, s # r PROVE (Lost(s) \/ Untouched(s)) /\ NewLoginOf(s)' /\ BoundOf(s)'
  <2>1. task'[s] = task[s] /\ RequestOf(s) /\ TaskShape(task[s])
    BY <1>2, <1>11 DEF Others, ConsoleInv, TasksTyped
  <2>2. Lost(s) \/ Untouched(s)
    <3>1. task[s].login = l /\ ~On(s, "create") => Lost(s)
      <4>1. task[s].login = l => task[s].kind \in {"create", "update", "signin", "delete", "close"}
        BY <1>6, <2>1 DEF TaskShape, Desk!Idle, Desk!NoLogin, ConsoleInv, TasksTyped, TaskSet
      <4> QED  BY <1>1, <1>6, <1>11, <4>1, Apart DEF On, Desk!Clash, ConsoleInv
    <3>2. task[s].login \in Logins /\ ~On(s, "create") => Lost(s) \/ login'[task[s].login] = login[task[s].login]
      BY <1>4, <3>1
    <3> QED  BY <1>1, <3>2, AlikeButLogin
  <2>3. \A x \in Requests : task'[x].kind = "signin" /\ task'[x].at = "bind" => task'[x] = task[x]
    BY <1>1, <1>2 DEF Others
  <2>4. \A v \in Rows : (Here(v)' <=> Here(v)) /\ (row[v] = "gone" => row'[v] = "gone")
    BY <1>1, <1>5
  <2>5. CASE On(s, "create") /\ task[s].login = l /\ ~StrayLogin(l)' /\ login'[l] = "off"
    <3>1. \A x \in Requests : ~(On(x, "signin") /\ task[x].at = "bind" /\ task[x].row = u)'
      BY <1>2, <1>9, <1>10, <2>3, <2>5 DEF More, On
    <3>2. NewLoginOf(s)'
      BY <1>1, <1>2, <1>5, <1>9, <1>10, <2>1, <2>5, <3>1 DEF NewLoginOf, More
    <3>3. BoundOf(s)'
      BY <2>1, <2>5 DEF BoundOf, On, Ends
    <3> QED  BY <2>2, <3>2, <3>3
  <2>6. CASE On(s, "create") /\ task[s].login = l /\ ~StrayLogin(l)' /\ login'[l] = "on"
    <3>2. NewLoginOf(s)'
      BY <2>1, <2>6 DEF NewLoginOf
    <3>3. BoundOf(s)'
      BY <2>1, <2>6 DEF BoundOf, On, Ends
    <3> QED  BY <2>2, <3>2, <3>3
  <2>7. CASE ~(On(s, "create") /\ task[s].login = l /\ ~StrayLogin(l)' /\ login'[l] \in {"on", "off"})
    <3>1. On(s, "create") /\ task[s].login \in Logins => StrayLogin(task[s].login)' \/ login'[task[s].login] = login[task[s].login]
      <4>1. login'[l] = login[l] \/ login'[l] \in {"on", "off"}
        BY <1>4
      <4>2. CASE task[s].login = l
        BY <2>1, <2>7, <4>1, <4>2 DEF StrayLogin
      <4>3. CASE task[s].login # l
        BY <1>4, <4>3
      <4> QED  BY <4>2, <4>3
    <3> QED  BY <1>1, <1>2, <2>1, <2>2, <2>3, <2>4, <3>1, BondsStay
  <2> QED  BY <2>5, <2>6, <2>7
<1>12. RequestOf(r)'
  <2>1. On(r, "update")' /\ ~Ends(r)' /\ ~On(r, "create")' /\ ~On(r, "signin")' /\ ~On(r, "space")'
    BY <1>1, <1>2 DEF On, Ends
  <2>2. UpdateOf(r)'
    BY <1>1, <1>2, <1>6 DEF RequestOf, UpdateOf
  <2>3. SavingOf(r)'
    <3>1. SUFFICES ASSUME ~StrayRow(u)', ~StrayLogin(l)', ~Broken(u)'
                   PROVE  task[r].now = "suspended" <=> login'[l] = "off"
      BY <1>2 DEF SavingOf, StrayRow, StrayLogin, Broken
    <3>2. ~StrayRow(u) /\ ~StrayLogin(l) /\ ~Broken(u)
      BY <1>2, <3>1 DEF More
    <3>3. login[l] \in {"on", "off"}
      BY <1>6, <1>9, <1>10, <3>2 DEF RowOf, AgreeOf
    <3>4. task[r].now \in {"active", "suspended"}
      BY <1>1 DEF ConsoleInv, TasksTyped, TaskShape, On
    <3> QED  BY <1>4, <3>1, <3>3, <3>4
  <2> QED  BY <2>1, <2>2, <2>3 DEF RequestOf, CreateOf, NewLoginOf, UpdateOf, SavingOf, EndOf, BoundOf, SignOf, SpaceOf
<1>13. RowOf(u)'
  <2>1. Saving(u)' /\ (Making(u) => Making(u)')
    BY <1>1, <1>2 DEF Saving, Making, On, Ends, Others
  <2>2. GoneOf(u)' /\ OutOf(u)'
    <3>1. row[u] = "gone" => uid[u] \in Logins
      BY DEF ConsoleInv, RowsMade
    <3>2. \A m \in Logins : login[m] = "gone" => login'[m] = "gone"
      BY <1>4
    <3> QED  BY <1>1, <1>2, <1>6, <3>1, <3>2 DEF RowOf, GoneOf, OutOf, More
  <2>3. WholeOf(u)' /\ MemberOf(u)'
    BY <1>1, <1>2, <1>5, <1>6, <2>1 DEF RowOf, WholeOf, MemberOf, More
  <2>4. AgreeOf(u)'
    <3>1. \A m \in Logins : login[m] \in {"on", "off"} => login'[m] \in {"on", "off"}
      BY <1>4
    <3>2. Here(u) => uid[u] \in Logins
      BY DEF ConsoleInv, RowsMade, Here
    <3> QED  BY <1>1, <1>2, <1>5, <1>6, <2>1, <3>1, <3>2 DEF RowOf, AgreeOf, More, StrayLogin
  <2> QED  BY <2>2, <2>3, <2>4 DEF RowOf
<1>14. AuditInv'
  BY <1>1, <1>2, AuditKeeps
<1>15. ASSUME NEW v \in Rows, v # u
       PROVE  /\ uid[v] \in Logins /\ Here(v) => login'[uid[v]] = login[uid[v]] \/ StrayLogin(uid[v])'
              /\ uid[v] \in Logins /\ login[uid[v]] = "gone" => login'[uid[v]] = "gone"
  <2>1. Here(v) => ~Here(u)
    BY <1>6, <1>15 DEF StoresTyped
  <2>2. Here(v) /\ uid[v] = l => StrayLogin(uid[v])'
    BY <1>1, <1>5, <1>9, <1>10, <2>1
  <2> QED  BY <1>4, <2>2
<1> QED  BY <1>1, <1>2, <1>3, <1>7, <1>8, <1>11, <1>12, <1>13, <1>14, <1>15, Assembled

\* The status is saved on a row that is there.
LEMMA SavesStatus ==
  ASSUME ConsoleInv, NEW r \in Requests, Marked(r), Desk!SaveStatus(r), Here(task[r].row)
  PROVE  ConsoleInv'
<1>1. PICK u \in Rows, l \in Logins, deed \in {"edit", "suspend", "reactivate"} :
      /\ On(r, "update") /\ task[r].at = "save" /\ u = task[r].row /\ l = task[r].login /\ Here(u)
      /\ task' = [task EXCEPT ![r].at = "audit"] /\ UNCHANGED <<login, uid, spaces, members, homes, sessions, audit>>
      /\ row' = [row EXCEPT ![u] = IF task[r].was = task[r].now THEN row[u] ELSE task[r].now]
      /\ deed = Desk!Named(task[r]) /\ effects' = effects \cup {<<deed, u>>}
  BY DEF Desk!SaveStatus, Desk!At, Desk!To, Desk!Took, Desk!Refused, Desk!Present, Desk!Named, Here, On,
         ConsoleInv, StoresTyped, TasksTyped, TaskShape
<1>2. /\ task'[r].at = "audit" /\ task'[r].kind = task[r].kind /\ task'[r].row = u /\ task'[r].login = l
      /\ task'[r].was = task[r].was /\ task'[r].now = task[r].now
      /\ Others(r) /\ More /\ (Lost(r) => Lost(r)') /\ TasksTyped' /\ OneMaker' /\ CrossInv'
      /\ \A e : Telling(e) => Telling(e)'
      /\ \A v : Deleting(v) => Deleting(v)'
      /\ \A v : v # u => (Making(v) => Making(v)') /\ (Saving(v) => Saving(v)')
  <2>1. TaskShape([task[r] EXCEPT !.at = "audit"])
    BY <1>1 DEF ConsoleInv, TasksTyped, TaskShape, TaskSet, On, Ends
  <2> QED  BY <1>1, <2>1, Moves DEF On, Ends
<1>3. \A v : <<"rebound", v>> \in stray => <<"rebound", v>> \in stray'
  BY DEF Marked
<1>4. /\ row \in [Rows -> {"none", "active", "suspended", "gone"}]
      /\ \A v \in Rows : v # u => row'[v] = row[v]
      /\ row'[u] = (IF task[r].was = task[r].now THEN row[u] ELSE task[r].now)
      /\ {task[r].was, task[r].now} \subseteq {"active", "suspended"}
  BY <1>1 DEF ConsoleInv, StoresTyped, TasksTyped, TaskShape, On
<1>5. \A v \in Rows : (Here(v)' <=> Here(v)) /\ (row[v] = "gone" => row'[v] = "gone")
  BY <1>1, <1>4 DEF Here
<1>6. RequestOf(r) /\ RowOf(u) /\ 0 \notin Rows /\ 0 \notin Logins
  BY DEF ConsoleInv
<1>7. StoresTyped'
  <2>1. row' \in [Rows -> {"none", "active", "suspended", "gone"}]
    BY <1>1, <1>4
  <2> QED  BY <1>1, <1>5, <2>1 DEF ConsoleInv, StoresTyped
<1>8. RowsMade'
  <2>1. ASSUME NEW s \in Requests PROVE task'[s].row = task[s].row /\ task'[s].login = task[s].login
    BY <1>1, <1>2 DEF Others
  <2>2. \A v \in Rows : row'[v] # "none" <=> row[v] # "none"
    BY <1>1, <1>4 DEF Here
  <2> QED  BY <1>1, <2>1, <2>2 DEF RowsMade, ConsoleInv, StoresTyped
<1>9. ASSUME NEW s \in Requests, s # r PROVE (Lost(s) \/ Untouched(s)) /\ NewLoginOf(s)' /\ BoundOf(s)'
  <2>1. task'[s] = task[s]
    BY <1>2, <1>9 DEF Others
  <2>2. task[s].row = u /\ (On(s, "update") \/ On(s, "signin")) => Lost(s)
    BY <1>1, <1>6, <1>9, Apart DEF On, Desk!Clash, ConsoleInv
  <2>3. task[s].row \in Rows /\ Here(task[s].row) => row'[task[s].row] \in {"active", "suspended"}
    BY <1>1, <1>4, <1>5 DEF Here
  <2>4. Lost(s) \/ Untouched(s)
    BY <1>1, <1>4, <2>2, <2>3 DEF Untouched
  <2>5. \A x \in Requests : task'[x].kind = "signin" /\ task'[x].at = "bind" => task'[x] = task[x]
    BY <1>2 DEF Others
  <2> QED  BY <1>1, <1>2, <1>5, <2>1, <2>4, <2>5, BondsStay
<1>10. RequestOf(r)'
  <2>1. On(r, "update")' /\ ~Ends(r)' /\ ~On(r, "create")' /\ ~On(r, "signin")' /\ ~On(r, "space")'
    BY <1>1, <1>2 DEF On, Ends
  <2>2. Desk!Named(task[r])' = deed
    BY <1>1, <1>2 DEF Desk!Named
  <2>3. UpdateOf(r)'
    BY <1>1, <1>2, <1>4, <1>6, <2>2 DEF RequestOf, UpdateOf
  <2>4. SavingOf(r)'
    BY <1>2 DEF SavingOf
  <2> QED  BY <2>1, <2>3, <2>4 DEF RequestOf, CreateOf, NewLoginOf, UpdateOf, SavingOf, EndOf, BoundOf, SignOf, SpaceOf
<1>11. ~StrayRow(u) => /\ uid[u] = l /\ row[u] = task[r].was /\ (task[r].now = "suspended" => u \notin sessions)
                       /\ ~StrayLogin(l) /\ ~Broken(u) => (task[r].now = "suspended" <=> login[l] = "off")
  BY <1>1, <1>6 DEF RequestOf, UpdateOf, SavingOf, Lost
<1>12. RowOf(u)'
  <2>1. Making(u) => Making(u)'
    BY <1>1, <1>2 DEF Making, On, Ends, Others
  <2>2. GoneOf(u)' /\ OutOf(u)'
    BY <1>1, <1>2, <1>4, <1>6, <1>11 DEF RowOf, GoneOf, OutOf, Here, More
  <2>3. WholeOf(u)' /\ MemberOf(u)'
    BY <1>1, <1>2, <1>5, <1>6, <2>1 DEF RowOf, WholeOf, MemberOf, More
  <2>4. AgreeOf(u)'
    <3>1. SUFFICES ASSUME ~StrayRow(u)', ~StrayLogin(uid[u])', ~Broken(u)', ~Deleting(u)'
                   PROVE  login[uid[u]] \in {"on", "off"} /\ (row'[u] = "suspended" <=> login[uid[u]] = "off")
      BY <1>1 DEF AgreeOf
    <3>2. ~StrayRow(u) /\ ~StrayLogin(uid[u]) /\ ~Broken(u) /\ ~Deleting(u)
      BY <1>1, <1>2, <3>1 DEF More, StrayLogin
    <3>3. login[uid[u]] \in {"on", "off"}
      BY <1>1, <1>6, <3>2 DEF RowOf, AgreeOf
    <3>4. row'[u] = task[r].now
      BY <1>4, <1>11, <3>2
    <3> QED  BY <1>11, <3>2, <3>3, <3>4
  <2> QED  BY <2>2, <2>3, <2>4 DEF RowOf
<1>13. AuditInv'
  <2>1. Telling(<<deed, u>>)'
    <3>1. task'[r].row = u /\ On(r, "update")' /\ task'[r].at = "audit" /\ deed = Desk!Named(task[r])'
      BY <1>1, <1>2 DEF On, Desk!Named
    <3> QED  BY <3>1 DEF Telling
  <2> QED  BY <1>1, <1>2, <2>1 DEF AuditInv, ConsoleInv, More, StrayRow, Broken
<1>14. \A v : v # u => (Deleting(v) => Deleting(v)')
  BY <1>2
<1>15. effects \subseteq effects' /\ UNCHANGED <<login, uid, spaces, members, homes, sessions, audit>>
  BY <1>1
<1> QED  BY <1>2, <1>3, <1>4, <1>7, <1>8, <1>9, <1>10, <1>12, <1>13, <1>15, Assembled

\* The status is saved, or the row is gone.
LEMMA SaveStatusKeeps ==
  ASSUME ConsoleInv, NEW r \in Requests, Marked(r), Desk!SaveStatus(r)
  PROVE  ConsoleInv'
<1>1. CASE ~Here(task[r].row)
  <2>1. On(r, "update") /\ task[r].at = "save"
    BY DEF Desk!SaveStatus, Desk!At, On
  <2>2. task' = [task EXCEPT ![r] = Desk!Idle] /\ StoresSame
    BY <1>1 DEF Desk!SaveStatus, Desk!Refused, Desk!End, Desk!accounts, Desk!Present, StoresSame, Here
  <2>3. Turned(r, Desk!Idle)
    BY <2>2, Finishes DEF Turned, ConsoleInv, TasksTyped, Desk!Idle, TaskSet, TaskShape, Desk!NoRow, Desk!NoLogin
  <2> QED  BY <1>1, <2>1, <2>2, <2>3, RequestEnds DEF On
<1> QED  BY <1>1, SavesStatus

\* The login of a deletion is gone, or the provider would not let it go.
LEMMA DropsLogin ==
  ASSUME ConsoleInv, NEW r \in Requests, Marked(r), Ends(r), task[r].at = "login",
         task' = [task EXCEPT ![r].at = "members"], UNCHANGED <<row, uid, spaces, members, homes, sessions, audit, effects>>,
         \/ login' = [login EXCEPT ![task[r].login] = "gone"]
         \/ UNCHANGED login /\ <<"failed", task[r].row>> \in stray'
  PROVE  ConsoleInv'
<1>1. PICK u \in Rows, l \in Logins :
      /\ Ends(r) /\ task[r].at = "login" /\ u = task[r].row /\ l = task[r].login
      /\ task' = [task EXCEPT ![r].at = "members"] /\ UNCHANGED <<row, uid, spaces, members, homes, sessions, audit, effects>>
  BY DEF ConsoleInv, TasksTyped, TaskShape, Ends
<1>2. /\ task'[r].at = "members" /\ task'[r].kind = task[r].kind /\ task'[r].row = u /\ task'[r].login = l
      /\ task'[r].was = task[r].was /\ task'[r].now = task[r].now
      /\ Others(r) /\ More /\ (Lost(r) => Lost(r)') /\ TasksTyped' /\ OneMaker' /\ CrossInv'
      /\ \A e : Telling(e) => Telling(e)'
      /\ \A v : Deleting(v) => Deleting(v)'
      /\ \A v : v # u => (Making(v) => Making(v)') /\ (Saving(v) => Saving(v)')
  <2>1. TaskShape([task[r] EXCEPT !.at = "members"])
    BY <1>1 DEF ConsoleInv, TasksTyped, TaskShape, TaskSet, On, Ends
  <2> QED  BY <1>1, <2>1, Moves DEF On, Ends
<1>3. \A v : <<"rebound", v>> \in stray => <<"rebound", v>> \in stray'
  BY DEF Marked
<1>4. /\ login \in [Logins -> {"none", "on", "off", "gone"}]
      /\ \A m \in Logins : m # l => login'[m] = login[m]
      /\ login'[l] = "gone" \/ (Broken(u)' /\ login'[l] = login[l])
      /\ login' \in [Logins -> {"none", "on", "off", "gone"}]
  <2>1. login \in [Logins -> {"none", "on", "off", "gone"}]
    BY DEF ConsoleInv, StoresTyped
  <2>2. <<"failed", u>> \in stray' => Broken(u)'
    BY DEF Broken
  <2> QED  BY <1>1, <2>1, <2>2
<1>5. \A v \in Rows : (Here(v)' <=> Here(v)) /\ (StrayLogin(uid[v]) => StrayLogin(uid[v])')
  BY <1>1, <1>2 DEF Here, More, StrayLogin
<1>6. RequestOf(r) /\ RowOf(u) /\ 0 \notin Rows /\ 0 \notin Logins
  BY DEF ConsoleInv
<1>7. StoresTyped'
  BY <1>1, <1>4, <1>5 DEF ConsoleInv, StoresTyped
<1>8. RowsMade'
  <2>1. \A m \in Logins : login[m] # "none" => login'[m] # "none"
    BY <1>4
  <2>2. ASSUME NEW s \in Requests PROVE task'[s].row = task[s].row /\ task'[s].login = task[s].login
    BY <1>1, <1>2 DEF Others
  <2> QED  BY <1>1, <2>1, <2>2 DEF RowsMade, ConsoleInv
<1>9. ASSUME NEW s \in Requests, s # r PROVE (Lost(s) \/ Untouched(s)) /\ NewLoginOf(s)' /\ BoundOf(s)'
  <2>1. task'[s] = task[s] /\ RequestOf(s) /\ TaskShape(task[s])
    BY <1>2, <1>9 DEF Others, ConsoleInv, TasksTyped
  <2>2. task[s].login = l => Ends(s) \/ Lost(s)
    <3>1. task[s].login = l => task[s].kind \in {"create", "update", "signin", "delete", "close"}
      BY <1>6, <2>1 DEF TaskShape, Desk!Idle, Desk!NoLogin, ConsoleInv, TasksTyped, TaskSet
    <3> QED  BY <1>1, <1>6, <1>9, <3>1, Apart DEF Ends, Desk!Clash, ConsoleInv
  <2>3. Lost(s) \/ Untouched(s)
    <3>1. task[s].login \in Logins =>
            Lost(s) \/ login'[task[s].login] = login[task[s].login] \/ (Ends(s) /\ login'[task[s].login] = "gone")
      BY <1>4, <2>2
    <3> QED  BY <1>1, <3>1, AlikeButLogin
  <2>4. \A x \in Requests : task'[x].kind = "signin" /\ task'[x].at = "bind" => task'[x] = task[x]
    BY <1>1, <1>2 DEF Others
  <2>5. On(s, "create") /\ task[s].login \in Logins => StrayLogin(task[s].login)' \/ login'[task[s].login] = login[task[s].login]
    <3>1. On(s, "create") /\ task[s].login = l => StrayLogin(task[s].login)
      BY <1>6, <2>2 DEF On, Ends, Lost
    <3> QED  BY <1>2, <1>4, <2>1, <3>1 DEF More, StrayLogin
  <2>6. \A v \in Rows : (Here(v)' <=> Here(v)) /\ (row[v] = "gone" => row'[v] = "gone")
    BY <1>1, <1>5
  <2> QED  BY <1>1, <1>2, <2>1, <2>3, <2>4, <2>5, <2>6, BondsStay
<1>10. RequestOf(r)'
  <2>1. Ends(r)' /\ ~On(r, "update")' /\ ~On(r, "create")' /\ ~On(r, "signin")' /\ ~On(r, "space")'
    BY <1>1, <1>2 DEF On, Ends
  <2>2. EndOf(r)'
    BY <1>1, <1>2, <1>4, <1>6 DEF RequestOf, EndOf, Broken
  <2>3. BoundOf(r)'
    BY <1>1, <1>2, <1>5, <1>6, <2>1 DEF RequestOf, BoundOf, More, StrayLogin
  <2> QED  BY <2>1, <2>2, <2>3 DEF RequestOf, CreateOf, NewLoginOf, UpdateOf, SavingOf, EndOf, BoundOf, SignOf, SpaceOf
<1>11. \A m \in Logins : login[m] = "gone" => login'[m] = "gone"
  BY <1>4
<1>12. RowOf(u)'
  <2>1. Deleting(u)' /\ (Making(u) => Making(u)')
    BY <1>1, <1>2 DEF Deleting, Making, On, Ends, Others
  <2>2. GoneOf(u)' /\ OutOf(u)'
    <3>1. row[u] = "gone" => uid[u] \in Logins
      BY DEF ConsoleInv, RowsMade
    <3> QED  BY <1>1, <1>2, <1>6, <1>11, <3>1 DEF RowOf, GoneOf, OutOf, More
  <2>3. WholeOf(u)' /\ MemberOf(u)' /\ AgreeOf(u)'
    BY <1>1, <1>2, <1>6, <2>1 DEF RowOf, WholeOf, MemberOf, AgreeOf, More
  <2> QED  BY <2>2, <2>3 DEF RowOf
<1>13. AuditInv'
  BY <1>1, <1>2, AuditKeeps
<1>14. ASSUME NEW v \in Rows, v # u
       PROVE  /\ uid[v] \in Logins /\ Here(v) => login'[uid[v]] = login[uid[v]] \/ StrayLogin(uid[v])'
              /\ uid[v] \in Logins /\ login[uid[v]] = "gone" => login'[uid[v]] = "gone"
  <2>1. Here(v) /\ uid[v] = l => StrayLogin(uid[v])'
    BY <1>1, <1>5, <1>6, <1>14 DEF RequestOf, BoundOf
  <2> QED  BY <1>4, <1>11, <2>1
<1> QED  BY <1>1, <1>2, <1>3, <1>7, <1>8, <1>9, <1>10, <1>12, <1>13, <1>14, Assembled

\* A deletion takes the login, or goes on without, or ends.
LEMMA DeleteLoginKeeps ==
  ASSUME ConsoleInv, NEW r \in Requests, Marked(r), Desk!DeleteLogin(r)
  PROVE  ConsoleInv'
<1>1. /\ Ends(r) /\ task[r].at = "login"
      /\ UNCHANGED <<row, uid, spaces, members, homes, sessions, audit, effects>>
      /\ \/ login' = [login EXCEPT ![task[r].login] = "gone"] /\ task' = [task EXCEPT ![r].at = "members"]
         \/ UNCHANGED login /\ refusals' = refusals + 1 /\ task' = [task EXCEPT ![r].at = "members"]
         \/ UNCHANGED login /\ refusals' = refusals + 1 /\ task' = [task EXCEPT ![r] = Desk!Idle]
  BY DEF Desk!DeleteLogin, Desk!Ending, Ends, Desk!Refuses, Desk!To, Desk!End
<1>2. CASE UNCHANGED login /\ refusals' = refusals + 1 /\ task' = [task EXCEPT ![r] = Desk!Idle]
  <2>1. Turned(r, Desk!Idle)
    BY <1>2, Finishes DEF Turned, ConsoleInv, TasksTyped, Desk!Idle, TaskSet, TaskShape, Desk!NoRow, Desk!NoLogin
  <2>2. <<"failed", task[r].row>> \in stray'
    BY <1>2, <2>1 DEF Turned, Marked, Desk!Idle
  <2> QED  BY <1>1, <1>2, <2>1, <2>2, RequestEnds DEF StoresSame
<1>3. CASE task' = [task EXCEPT ![r].at = "members"]
  <2>1. task'[r].at = "members"
    BY <1>1, <1>3 DEF ConsoleInv, TasksTyped, TaskSet
  <2>2. refusals' = refusals + 1 => <<"failed", task[r].row>> \in stray'
    BY <2>1 DEF Marked
  <2> QED  BY <1>1, <1>3, <2>2, DropsLogin DEF Marked
<1> QED  BY <1>1, <1>2, <1>3

\* The row of a deletion goes; the console writes it down, the owner is done.
LEMMA DeleteRowKeeps ==
  ASSUME ConsoleInv, NEW r \in Requests, Marked(r), Desk!DeleteRow(r)
  PROVE  ConsoleInv'
<1>1. PICK u \in Rows, l \in Logins :
      /\ Ends(r) /\ task[r].at = "row" /\ u = task[r].row /\ l = task[r].login
      /\ row' = [row EXCEPT ![u] = "gone"] /\ UNCHANGED <<login, uid, spaces, members, homes, sessions, audit>>
      /\ \/ On(r, "delete") /\ task' = [task EXCEPT ![r].at = "audit"] /\ effects' = effects \cup {<<"delete", u>>}
         \/ On(r, "close") /\ task' = [task EXCEPT ![r] = Desk!Idle] /\ effects' = effects
  BY DEF Desk!DeleteRow, Desk!Ending, Desk!To, Desk!End, Desk!Took, Ends, On, ConsoleInv, TasksTyped, TaskShape
<1>2. /\ Others(r) /\ More /\ (Lost(r) => StrayRow(u)' /\ StrayLogin(l)') /\ TasksTyped' /\ OneMaker' /\ CrossInv'
      /\ \A v : v # u => (Deleting(v) => Deleting(v)') /\ (Making(v) => Making(v)') /\ (Saving(v) => Saving(v)')
      /\ \/ /\ On(r, "delete") /\ task'[r].kind = "delete" /\ task'[r].at = "audit" /\ task'[r].row = u /\ task'[r].login = l
            /\ effects' = effects \cup {<<"delete", u>>}
         \/ On(r, "close") /\ task'[r] = Desk!Idle /\ effects' = effects
      /\ \A e \in effects : Telling(e) => Telling(e)'
  <2>1. CASE On(r, "delete") /\ task' = [task EXCEPT ![r].at = "audit"] /\ effects' = effects \cup {<<"delete", u>>}
    <3>1. TaskShape([task[r] EXCEPT !.at = "audit"])
      BY <1>1, <2>1 DEF ConsoleInv, TasksTyped, TaskShape, TaskSet, On
    <3>2. /\ Others(r) /\ More /\ (Lost(r) => Lost(r)') /\ TasksTyped' /\ OneMaker' /\ CrossInv'
          /\ task'[r].kind = task[r].kind /\ task'[r].at = "audit" /\ task'[r].row = u /\ task'[r].login = l
          /\ \A e : Telling(e) => Telling(e)'
          /\ \A v : Deleting(v) => Deleting(v)'
          /\ \A v : v # u => (Making(v) => Making(v)') /\ (Saving(v) => Saving(v)')
      BY <1>1, <2>1, <3>1, Moves DEF On
    <3>3. Lost(r) => StrayRow(u)' /\ StrayLogin(l)'
      BY <1>1, <3>2 DEF Lost, More
    <3> QED  BY <1>1, <2>1, <3>2, <3>3 DEF On
  <2>2. CASE On(r, "close") /\ task' = [task EXCEPT ![r] = Desk!Idle] /\ effects' = effects
    <3>1. /\ task'[r] = Desk!Idle /\ Others(r) /\ More /\ TasksTyped' /\ OneMaker' /\ CrossInv'
          /\ \A v : v # u => (Deleting(v) => Deleting(v)') /\ (Making(v) => Making(v)') /\ (Saving(v) => Saving(v)')
      BY <1>1, <2>2, Finishes
    <3>2. Lost(r) => StrayRow(u)' /\ StrayLogin(l)'
      BY <1>1, <3>1 DEF Lost, More
    <3>3. ASSUME NEW e \in effects, Telling(e) PROVE Telling(e)'
      BY <1>1, <2>2, <3>1, <3>3 DEF Telling, On, Others, Desk!Named
    <3> QED  BY <2>2, <3>1, <3>2, <3>3
  <2> QED  BY <1>1, <2>1, <2>2
<1>3. \A v : <<"rebound", v>> \in stray => <<"rebound", v>> \in stray'
  BY DEF Marked
<1>4. /\ row \in [Rows -> {"none", "active", "suspended", "gone"}]
      /\ \A v \in Rows : v # u => row'[v] = row[v]
      /\ row'[u] = "gone"
  BY <1>1 DEF ConsoleInv, StoresTyped
<1>5. /\ \A v \in Rows : Here(v)' => Here(v) /\ v # u
      /\ \A v \in Rows : Here(v) /\ v # u => Here(v)'
      /\ \A v \in Rows : StrayLogin(uid[v]) => StrayLogin(uid[v])'
  BY <1>1, <1>2, <1>4 DEF Here, More, StrayLogin
<1>6. RequestOf(r) /\ RowOf(u) /\ 0 \notin Rows /\ 0 \notin Logins
  BY DEF ConsoleInv
<1>7. StoresTyped'
  <2>1. row' \in [Rows -> {"none", "active", "suspended", "gone"}]
    BY <1>1, <1>4
  <2> QED  BY <1>1, <1>5, <2>1 DEF ConsoleInv, StoresTyped
<1>8. RowsMade'
  <2>1. ASSUME NEW s \in Requests PROVE task'[s].row \in {task[s].row, 0} /\ task'[s].login \in {task[s].login, 0}
    BY <1>1, <1>2 DEF Others, Desk!Idle, Desk!NoRow, Desk!NoLogin
  <2>2. \A v \in Rows : row[v] # "none" => row'[v] # "none"
    BY <1>4
  <2>3. /\ \A v \in Rows : row'[v] # "none" => uid'[v] \in Logins
        /\ \A v \in Rows : uid'[v] \in Logins => login'[uid'[v]] # "none"
    <3>1. row[u] # "none"
      BY <1>1 DEF ConsoleInv, RowsMade
    <3> QED  BY <1>1, <1>4, <3>1 DEF RowsMade, ConsoleInv
  <2>4. /\ effects' \subseteq {"create", "edit", "suspend", "reactivate", "delete"} \X Rows
        /\ \A e \in effects' : e[2] \in Rows /\ row'[e[2]] # "none"
    <3>1. \A e \in effects' : e \in effects \/ e = <<"delete", u>>
      BY <1>2
    <3>2. row'[u] # "none" /\ u \in Rows
      BY <1>1, <1>4
    <3>3. /\ effects \subseteq {"create", "edit", "suspend", "reactivate", "delete"} \X Rows
          /\ \A e \in effects : e[2] \in Rows /\ row[e[2]] # "none"
      BY DEF RowsMade, ConsoleInv
    <3>4. effects' \subseteq {"create", "edit", "suspend", "reactivate", "delete"} \X Rows
      BY <3>1, <3>2, <3>3
    <3>5. ASSUME NEW e \in effects' PROVE e[2] \in Rows /\ row'[e[2]] # "none"
      <4>1. CASE e \in effects
        BY <2>2, <3>3, <4>1
      <4>2. CASE e = <<"delete", u>>
        <5>1. e[2] = u
          BY <4>2
        <5> QED  BY <3>2, <5>1
      <4> QED  BY <3>1, <3>5, <4>1, <4>2
    <3> QED  BY <3>4, <3>5
  <2> QED  BY <1>1, <1>6, <2>1, <2>2, <2>3, <2>4 DEF RowsMade, ConsoleInv, StoresTyped
<1>9. ASSUME NEW s \in Requests, s # r PROVE (Lost(s) \/ Untouched(s)) /\ NewLoginOf(s)' /\ BoundOf(s)'
  <2>1. task'[s] = task[s] /\ RequestOf(s) /\ TaskShape(task[s])
    BY <1>2, <1>9 DEF Others, ConsoleInv, TasksTyped
  <2>2. task[s].row = u /\ task[s].kind \in {"create", "space", "update", "signin"} => Lost(s)
    BY <1>1, <1>6, <1>9, Apart DEF Ends, Desk!Clash, ConsoleInv
  <2>3. Lost(s) \/ Untouched(s)
    <3>1. task[s].row \in Rows => task[s].kind \in {"create", "space", "update", "signin", "delete", "close"}
      BY <1>6, <2>1 DEF TaskShape, Desk!Idle, Desk!NoRow, ConsoleInv, TasksTyped, TaskSet
    <3>2. Ends(s) \/ task[s].row # u \/ Lost(s)
      BY <1>1, <2>2, <3>1 DEF Ends
    <3> QED  BY <1>1, <1>4, <3>2 DEF Untouched, Here
  <2>4. NewLoginOf(s)'
    <3>1. SUFFICES ASSUME On(s, "create"), task[s].at = "row", ~StrayLogin(task[s].login)' PROVE NewLoginOf(s)'
      BY <2>1 DEF NewLoginOf, On
    <3>2. NewLoginOf(s) /\ ~StrayLogin(task[s].login) /\ task[s].login \in Logins
      BY <1>2, <2>1, <3>1 DEF RequestOf, More, StrayLogin, TaskShape, On
    <3>3. CASE login[task[s].login] = "on"
      BY <1>1, <2>1, <3>3 DEF NewLoginOf
    <3>4. CASE login[task[s].login] # "on"
      <4>1. PICK w \in Rows :
              /\ login[task[s].login] = "off" /\ Here(w) /\ uid[w] = task[s].login
              /\ \A x \in Requests : ~(On(x, "signin") /\ task[x].at = "bind" /\ task[x].row = w)
        BY <3>1, <3>2, <3>4 DEF NewLoginOf
      <4>2. w # u
        <5>1. task[s].login # l
          BY <1>1, <1>6, <1>9, <3>1, <3>2, Apart DEF Ends, On, Desk!Clash, ConsoleInv, Lost
        <5> QED  BY <1>1, <1>6, <3>2, <4>1, <5>1 DEF RequestOf, BoundOf
      <4>3. \A x \in Requests : ~(On(x, "signin") /\ task[x].at = "bind" /\ task[x].row = w)'
        BY <1>2, <4>1 DEF On, Others, Desk!Idle
      <4>4. Here(w)'
        BY <1>5, <4>1, <4>2
      <4> QED  BY <1>1, <2>1, <4>1, <4>3, <4>4 DEF NewLoginOf
    <3> QED  BY <3>3, <3>4
  <2>5. BoundOf(s)'
    <3>1. SUFFICES ASSUME Ends(s) PROVE BoundOf(s)'
      BY <2>1 DEF BoundOf, Ends
    <3>2. task[s].row \in Rows /\ task[s].login \in Logins /\ BoundOf(s)
      BY <2>1, <3>1 DEF TaskShape, Ends, RequestOf
    <3>3. task[s].at = "audit" => row'[task[s].row] = "gone"
      BY <1>1, <1>4, <3>1, <3>2 DEF BoundOf
    <3>4. Here(task[s].row)' => uid[task[s].row] = task[s].login \/ StrayLogin(uid[task[s].row])'
      BY <1>2, <1>5, <2>1, <3>1, <3>2 DEF BoundOf, Here, More, StrayLogin
    <3>5. StrayLogin(task[s].login) => StrayLogin(task[s].login)'
      BY <1>2, <2>1 DEF More, StrayLogin
    <3> QED  BY <1>1, <1>5, <2>1, <3>1, <3>2, <3>3, <3>4, <3>5 DEF BoundOf
  <2> QED  BY <2>3, <2>4, <2>5
<1>10. RequestOf(r)'
  <2>1. CASE task'[r] = Desk!Idle
    BY <2>1 DEF RequestOf, CreateOf, NewLoginOf, UpdateOf, SavingOf, EndOf, BoundOf, SignOf, SpaceOf, On, Ends, Desk!Idle
  <2>2. CASE On(r, "delete") /\ task'[r].kind = "delete" /\ task'[r].at = "audit" /\ task'[r].row = u /\ task'[r].login = l
             /\ effects' = effects \cup {<<"delete", u>>}
    <3>1. Ends(r)' /\ ~On(r, "update")' /\ ~On(r, "create")' /\ ~On(r, "signin")' /\ ~On(r, "space")'
      BY <2>2 DEF On, Ends
    <3>2. Lost(r) => Lost(r)'
      BY <1>2, <2>2 DEF Lost, StrayRow, StrayLogin
    <3>3. EndOf(r)'
      BY <1>1, <1>2, <1>6, <2>2, <3>2 DEF RequestOf, EndOf, Broken, More
    <3>4. BoundOf(r)'
      BY <1>1, <1>2, <1>4, <1>5, <1>6, <2>2 DEF RequestOf, BoundOf, More, StrayLogin
    <3> QED  BY <3>1, <3>3, <3>4 DEF RequestOf, CreateOf, NewLoginOf, UpdateOf, SavingOf, EndOf, BoundOf, SignOf, SpaceOf
  <2> QED  BY <1>2, <2>1, <2>2
<1>11. RowOf(u)'
  <2>1. StrayRow(u) \/ ~Lost(r)
    BY <1>1, <1>6 DEF Lost
  <2>2. StrayRow(u) \/ (uid[u] = l /\ u \notin members \cup homes /\ u \notin spaces /\ u \notin sessions
                        /\ (Broken(u) \/ login[l] = "gone"))
    BY <1>1, <1>6, <2>1 DEF RequestOf, EndOf
  <2>3. (StrayRow(u) => StrayRow(u)') /\ (Broken(u) => Broken(u)') /\ ~Here(u)' /\ row'[u] # "suspended"
    BY <1>2, <1>4 DEF More, Here
  <2>4. GoneOf(u)'
    BY <1>1, <2>2, <2>3 DEF GoneOf
  <2>5. OutOf(u)' /\ WholeOf(u)' /\ MemberOf(u)' /\ AgreeOf(u)'
    BY <1>1, <2>2, <2>3 DEF OutOf, WholeOf, MemberOf, AgreeOf
  <2> QED  BY <2>4, <2>5 DEF RowOf
<1>12. AuditInv'
  <2>1. CASE effects' = effects
    BY <1>1, <1>2, <2>1, AuditKeeps
  <2>2. CASE task'[r].kind = "delete" /\ task'[r].at = "audit" /\ task'[r].row = u /\ effects' = effects \cup {<<"delete", u>>}
    <3>1. Telling(<<"delete", u>>)'
      BY <2>2 DEF Telling, On
    <3> QED  BY <1>1, <1>2, <2>2, <3>1 DEF AuditInv, ConsoleInv, More, StrayRow, Broken
  <2> QED  BY <1>2, <2>1, <2>2
<1>13. effects \subseteq effects'
  BY <1>2
<1> QED  BY <1>1, <1>2, <1>3, <1>4, <1>7, <1>8, <1>9, <1>10, <1>11, <1>12, <1>13, Assembled

\* A request cut short leaves its row marked.
LEMMA StopKeeps ==
  ASSUME ConsoleInv, NEW r \in Requests, Marked(r), Desk!Stop(r)
  PROVE  ConsoleInv'
<1>1. task' = [task EXCEPT ![r] = Desk!Idle] /\ StoresSame /\ refusals' = refusals + 1
  BY DEF Desk!Stop, Desk!Refuses, Desk!End, Desk!accounts, StoresSame
<1>2. Turned(r, Desk!Idle)
  BY <1>1, Finishes DEF Turned, ConsoleInv, TasksTyped, Desk!Idle, TaskSet, TaskShape, Desk!NoRow, Desk!NoLogin
<1>3. <<"failed", task[r].row>> \in stray'
  BY <1>1, <1>2 DEF Turned, Marked, Desk!Idle
<1> QED  BY <1>1, <1>2, <1>3, RequestEnds

\* Somebody registers the address at the provider: nobody knew of the login.
LEMMA RegisterKeeps ==
  ASSUME ConsoleInv, Desk!Register, UNCHANGED stray
  PROVE  ConsoleInv'
<1>1. PICK l \in Logins :
      /\ login[l] = "none" /\ \A m \in Logins : login[m] \notin {"on", "off"}
      /\ login' = [login EXCEPT ![l] = "on"]
      /\ UNCHANGED <<row, uid, spaces, members, homes, sessions, audit, effects, task>>
  <2>1. DOMAIN login = Logins
    BY DEF ConsoleInv, StoresTyped
  <2> QED  BY <2>1 DEF Desk!Register, Desk!Known, Desk!Fresh
<1>2. /\ StoresTyped'
      /\ (\A v \in Rows : uid[v] # l) /\ (\A s \in Requests : task[s].login # l)
      /\ \A m \in Logins : m # l => login'[m] = login[m]
      /\ login'[l] = "on"
  BY <1>1, LoginMade
<1>3. More
  BY DEF More, StrayRow, StrayLogin, Broken
<1>4. TasksTyped' /\ OneMaker' /\ CrossInv'
  BY <1>1 DEF ConsoleInv, TasksTyped, OneMaker, CrossInv, Meets, Lost, StrayRow, StrayLogin
<1>5. RowsMade'
  BY <1>1, <1>2 DEF ConsoleInv, RowsMade
<1>6. ASSUME NEW s \in Requests PROVE RequestOf(s)'
  <2>1. task'[s] = task[s] /\ effects' = effects
    BY <1>1
  <2>2. Untouched(s)
    BY <1>1, <1>2, AlikeButLogin
  <2>3. NewLoginOf(s)' /\ BoundOf(s)'
    <3>1. On(s, "create") /\ task[s].login \in Logins => login'[task[s].login] = login[task[s].login]
      BY <1>2
    <3>2. \A v \in Rows : (Here(v)' <=> Here(v)) /\ (row[v] = "gone" => row'[v] = "gone")
      BY <1>1 DEF Here
    <3> QED  BY <1>1, <1>3, <2>1, <3>1, <3>2, BondsStay
  <2> QED  BY <1>3, <2>1, <2>2, <2>3, OthersKeep
<1>7. ASSUME NEW v \in Rows PROVE RowOf(v)'
  <2>1. (Deleting(v) => Deleting(v)') /\ (Making(v) => Making(v)') /\ (Saving(v) => Saving(v)')
    BY <1>1 DEF Deleting, Making, Saving, On, Ends
  <2> QED  BY <1>1, <1>2, <1>3, <2>1, RowKeeps
<1>8. AuditInv'
  <2>1. \A e \in effects : Telling(e) => Telling(e)'
    BY <1>1 DEF Telling, On
  <2> QED  BY <1>1, <1>3, <2>1, AuditKeeps
<1> QED  BY <1>2, <1>4, <1>5, <1>6, <1>7, <1>8 DEF ConsoleInv
-----------------------------------------------------------------------------
\* How often something failed is a number.
CountsTyped == refusals \in Nat

\* The history tells of every step that counts: who crossed whom, what failed, and which
\* suspended row got another login.
LEMMA StepMarks ==
  ASSUME NEW r \in Requests, CountsTyped,
         stray' = stray \cup Desk!Crossed' \cup Desk!Failed(r) \cup Desk!Rebound
  PROVE  Marked(r)
<1>1. stray \subseteq stray' /\ Desk!Failed(r) \subseteq stray' /\ Desk!Rebound \subseteq stray'
  OBVIOUS
<1>2. CrossInv'
  <2>1. SUFFICES ASSUME NEW x \in Requests, NEW y \in Requests, x # y, Meets(x, y)',
                        (Desk!Clash(task[x].kind, task[y].kind) \/ Desk!Clash(task[y].kind, task[x].kind))'
                 PROVE  Lost(x)' /\ Lost(y)'
    BY DEF CrossInv
  <2>2. (Desk!About(x) \cap Desk!About(y) # {})'
    <3>1. CASE task'[x].row = task'[y].row /\ task'[x].row # 0
      <4>1. <<"row", task'[x].row>> \in Desk!About(x)' /\ <<"row", task'[x].row>> \in Desk!About(y)'
        BY <3>1 DEF Desk!About, Desk!NoRow, Desk!NoLogin
      <4> QED  BY <4>1
    <3>2. CASE task'[x].login = task'[y].login /\ task'[x].login # 0
      <4>1. <<"login", task'[x].login>> \in Desk!About(x)' /\ <<"login", task'[x].login>> \in Desk!About(y)'
        BY <3>2 DEF Desk!About, Desk!NoRow, Desk!NoLogin
      <4> QED  BY <4>1
    <3> QED  BY <2>1, <3>1, <3>2 DEF Meets
  <2>3. (Desk!Crossing(x, y) \/ Desk!Crossing(y, x))'
    BY <2>1, <2>2 DEF Desk!Crossing
  <2>4. Desk!About(x)' \subseteq Desk!Crossed' /\ Desk!About(y)' \subseteq Desk!Crossed'
    BY <2>3 DEF Desk!Crossed
  <2>5. \A z \in Requests : Desk!About(z)' \subseteq Desk!Crossed' => Lost(z)'
    <3>1. ASSUME NEW z \in Requests, Desk!About(z)' \subseteq stray' PROVE Lost(z)'
      <4>1. task'[z].row # 0 => <<"row", task'[z].row>> \in Desk!About(z)'
        BY DEF Desk!About, Desk!NoRow, Desk!NoLogin
      <4>2. task'[z].login # 0 => <<"login", task'[z].login>> \in Desk!About(z)'
        BY DEF Desk!About, Desk!NoRow, Desk!NoLogin
      <4> QED  BY <3>1, <4>1, <4>2 DEF Lost, StrayRow, StrayLogin
    <3>2. Desk!Crossed' \subseteq stray'
      OBVIOUS
    <3> QED  BY <3>1, <3>2
  <2> QED  BY <2>4, <2>5
<1>3. refusals' = refusals + 1 /\ task'[r].at # "undo" => <<"failed", task[r].row>> \in stray'
  BY <1>1 DEF CountsTyped, Desk!Failed
<1>4. \A u \in Rows : row[u] = "suspended" /\ uid'[u] # uid[u] => <<"rebound", u>> \in stray'
  BY <1>1 DEF Desk!Rebound
<1> QED  BY <1>1, <1>2, <1>3, <1>4 DEF Marked

\* Every step of a request leaves the stores, the requests and the history as they should be.
LEMMA StepKeeps ==
  ASSUME ConsoleInv, NEW r \in Requests, Marked(r), Desk!Step(r)
  PROVE  ConsoleInv'
BY CreateBegins, UpdateBegins, DeleteBegins, SignInBegins, OwnSpaceBegins,
   CreateLoginKeeps, CreateRowKeeps, CreateSpaceKeeps, CreateHomeKeeps, CreateMemberKeeps, LogCreateKeeps,
   EndSessionsKeeps, SwitchLoginKeeps, SaveStatusKeeps, LogUpdateKeeps,
   DeleteLoginKeeps, DeleteMembersKeeps, DeleteSpaceKeeps, DeleteSessionsKeeps, DeleteRowKeeps, LogDeleteKeeps,
   SignUpRowKeeps, BindKeeps, MakeSessionKeeps,
   OwnSpaceRowKeeps, OwnSpaceMemberKeeps, UndoSpaceKeeps, OwnSpaceHomeKeeps, StopKeeps
   DEF Desk!Step

\* Failures are counted one by one.
LEMMA CountStays ==
  ASSUME CountsTyped, Desk!ConsoleNext
  PROVE  CountsTyped'
<1>1. refusals' \in {refusals, refusals + 1}
  <2>1. ASSUME NEW r \in Requests, Desk!Step(r) PROVE refusals' \in {refusals, refusals + 1}
    BY <2>1 DEF Desk!Step, Desk!Create, Desk!CreateLogin, Desk!CreateRow, Desk!CreateSpace, Desk!CreateHome,
       Desk!CreateMember, Desk!LogCreate, Desk!Update, Desk!EndSessions, Desk!SwitchLogin, Desk!SaveStatus,
       Desk!LogUpdate, Desk!Delete, Desk!Close, Desk!DeleteLogin, Desk!DeleteMembers, Desk!DeleteSpace,
       Desk!DeleteSessions, Desk!DeleteRow, Desk!LogDelete, Desk!SignIn, Desk!SignUpRow, Desk!Bind, Desk!MakeSession,
       Desk!OwnSpace, Desk!OwnSpaceRow, Desk!OwnSpaceMember, Desk!UndoSpace, Desk!OwnSpaceHome, Desk!Stop,
       Desk!Refused, Desk!Refuses, Desk!Log
  <2> QED  BY <2>1 DEF Desk!ConsoleNext, Desk!Register
<1> QED  BY <1>1 DEF CountsTyped

\* What stands still stays as it should be.
LEMMA StillKeeps ==
  ASSUME ConsoleInv, UNCHANGED deskVars
  PROVE  ConsoleInv'
<1>1. /\ TasksTyped' /\ StoresTyped' /\ RowsMade'
  BY DEF ConsoleInv, deskVars, TasksTyped, StoresTyped, RowsMade, Here
<1>2. CrossInv' /\ OneMaker'
  BY DEF ConsoleInv, deskVars, CrossInv, OneMaker, Meets, Lost, StrayRow, StrayLogin
<1>3. ASSUME NEW r \in Requests PROVE RequestOf(r)'
  <2>1. RequestOf(r) /\ UNCHANGED <<login, row, uid, spaces, members, homes, sessions, audit, task, effects, stray>>
    BY DEF ConsoleInv, deskVars
  <2>2. CreateOf(r)' /\ UpdateOf(r)' /\ SavingOf(r)'
    BY <2>1 DEF RequestOf, CreateOf, UpdateOf, SavingOf, On, Lost, StrayRow, StrayLogin, Broken, Here, Desk!Named
  <2>3. NewLoginOf(r)'
    BY <2>1 DEF RequestOf, NewLoginOf, On, StrayLogin, Here
  <2>4. EndOf(r)' /\ BoundOf(r)'
    BY <2>1 DEF RequestOf, EndOf, BoundOf, Ends, Lost, StrayRow, StrayLogin, Broken, Here
  <2>5. SignOf(r)' /\ SpaceOf(r)'
    BY <2>1 DEF RequestOf, SignOf, SpaceOf, On, Lost, StrayRow, StrayLogin, Broken, Here
  <2> QED  BY <2>2, <2>3, <2>4, <2>5 DEF RequestOf
<1>4. ASSUME NEW u \in Rows PROVE RowOf(u)'
  BY DEF ConsoleInv, deskVars, RowOf, GoneOf, OutOf, WholeOf, MemberOf, AgreeOf,
         Deleting, Making, Saving, On, Ends, StrayRow, StrayLogin, Broken, Here
<1>5. AuditInv'
  BY DEF ConsoleInv, deskVars, AuditInv, Telling, Broken, StrayRow, On, Desk!Named
<1> QED  BY <1>1, <1>2, <1>3, <1>4, <1>5 DEF ConsoleInv

\* Sets are counted alike in the instances.
LEMMA ConsoleCount == \A S : Desk!Cardinality(S) = Cardinality(S) /\ Book!Cardinality(S) = Cardinality(S)
BY DEF Desk!Cardinality, Book!Cardinality, Cardinality

\* The three starts are as they should be.
LEMMA ConsoleStarts ==
  ASSUME Desk!ConsoleInit
  PROVE  ConsoleInv /\ CountsTyped
<1>1. PICK start \in {"nobody", "login", "account"} :
        /\ login = [x \in Logins |-> IF x = 1 /\ start # "nobody" THEN "on" ELSE "none"]
        /\ row = [x \in Rows |-> IF x = 1 /\ start = "account" THEN "active" ELSE "none"]
        /\ uid = [x \in Rows |-> IF x = 1 /\ start = "account" THEN 1 ELSE 0]
        /\ spaces = {} /\ members = {} /\ homes = {} /\ audit = {} /\ effects = {}
        /\ sessions = Desk!Existing
        /\ task = [r \in Requests |-> Desk!Idle]
        /\ refusals = 0 /\ stray = {}
  BY DEF Desk!ConsoleInit, Desk!NoLogin
<1>2. 1 \in Rows /\ 1 \in Logins
  OBVIOUS
<1>3. \A u \in Rows : Here(u) => u = 1 /\ row[u] = "active" /\ uid[u] = 1 /\ login[uid[u]] = "on"
  BY <1>1, <1>2 DEF Here
<1>4. sessions \subseteq Rows /\ \A u \in sessions : Here(u)
  BY <1>1 DEF Desk!Existing, Desk!Present, Here
<1>5. StoresTyped
  BY <1>1, <1>2, <1>3, <1>4 DEF StoresTyped
<1>6. \A r \in Requests : task[r] = Desk!Idle
  BY <1>1
<1>7. TasksTyped
  BY <1>1 DEF TasksTyped, TaskSet, TaskShape, Desk!Idle, Desk!NoRow, Desk!NoLogin
<1>8. RowsMade
  <2>1. \A u \in Rows : row[u] # "none" => uid[u] \in Logins
    BY <1>1, <1>2
  <2>2. \A u \in Rows : uid[u] \in Logins => login[uid[u]] # "none"
    BY <1>1, <1>2
  <2>3. \A r \in Requests : task[r].login = 0 /\ task[r].row = 0
    BY <1>6 DEF Desk!Idle, Desk!NoRow, Desk!NoLogin
  <2>4. \A u \in spaces \cup members \cup homes \cup sessions : row[u] # "none"
    BY <1>1, <1>4 DEF Here
  <2> QED  BY <1>1, <2>1, <2>2, <2>3, <2>4 DEF RowsMade
<1>9. CrossInv /\ OneMaker
  BY <1>6 DEF CrossInv, OneMaker, Meets, Desk!Idle, Desk!NoRow, Desk!NoLogin
<1>10. ASSUME NEW r \in Requests PROVE RequestOf(r)
  BY <1>6 DEF RequestOf, CreateOf, NewLoginOf, UpdateOf, SavingOf, EndOf, BoundOf, SignOf, SpaceOf, On, Ends, Desk!Idle
<1>11. ASSUME NEW u \in Rows PROVE RowOf(u)
  <2>1. row[u] # "gone" /\ row[u] # "suspended"
    BY <1>1
  <2>2. GoneOf(u) /\ OutOf(u) /\ WholeOf(u) /\ MemberOf(u)
    BY <1>1, <2>1 DEF GoneOf, OutOf, WholeOf, MemberOf
  <2>3. AgreeOf(u)
    BY <1>3 DEF AgreeOf
  <2> QED  BY <2>2, <2>3 DEF RowOf
<1>12. AuditInv
  BY <1>1 DEF AuditInv
<1>13. CountsTyped
  BY <1>1 DEF CountsTyped
<1> QED  BY <1>5, <1>7, <1>8, <1>9, <1>10, <1>11, <1>12, <1>13 DEF ConsoleInv

\* A row and a login that nobody has in hand: nothing is under way to make up for anything.
LEMMA NobodyAt ==
  ASSUME ConsoleInv, NEW u \in Rows, row[u] # "none", Desk!Uncrossed(u)
  PROVE  /\ ~StrayRow(u) /\ ~StrayLogin(uid[u])
         /\ ~Deleting(u) /\ ~Making(u) /\ ~Saving(u)
         /\ \A r \in Requests : task[r].row # u
<1>1. <<"row", u>> \notin stray /\ <<"login", uid[u]>> \notin stray
  BY DEF Desk!Uncrossed
<1>2. u # 0
  OBVIOUS
<1>3. ASSUME NEW r \in Requests, task[r].row = u PROVE FALSE
  <2>1. <<"row", u>> \in Desk!About(r)
    BY <1>2, <1>3 DEF Desk!About, Desk!NoRow, Desk!NoLogin
  <2>2. <<"row", u>> \notin Desk!About(r)
    BY DEF Desk!Uncrossed
  <2> QED  BY <2>1, <2>2
<1> QED  BY <1>1, <1>3 DEF StrayRow, StrayLogin, Deleting, Making, Saving

\* What the run checks of the accounts follows.
LEMMA AccountsFollow ==
  ASSUME ConsoleInv
  PROVE  Desk!ConsoleTypeOK /\ Desk!AccountsWhole /\ Desk!LoginsAgree /\ Desk!Audited
<1>1. Desk!ConsoleTypeOK
  <2>1. Desk!Existing = {u \in Rows : Here(u)} /\ Desk!Known = {l \in Logins : login[l] \in {"on", "off"}}
    BY DEF Desk!Existing, Desk!Present, Here, Desk!Known
  <2>2. \A u, v \in Desk!Existing : u = v
    BY <2>1 DEF ConsoleInv, StoresTyped
  <2>3. \A l, m \in Desk!Known : l = m
    BY <2>1 DEF ConsoleInv, StoresTyped
  <2>4. ASSUME NEW S, \A x, y \in S : x = y PROVE Desk!Cardinality(S) <= 1
    <3>1. CASE S = {}
      BY <3>1, ConsoleCount, FS_EmptySet
    <3>2. CASE S # {}
      <4>1. PICK x : x \in S
        BY <3>2
      <4>2. S = {x}
        BY <2>4, <4>1
      <4>3. Cardinality({x}) = 1
        BY FS_Singleton
      <4> QED  BY <4>2, <4>3, ConsoleCount
    <3> QED  BY <3>1, <3>2
  <2> QED  BY <2>2, <2>3, <2>4 DEF Desk!ConsoleTypeOK, ConsoleInv, StoresTyped, Desk!NoLogin
<1>2. ASSUME NEW u \in Rows, row[u] # "none", Desk!AtRest(u)
      PROVE  /\ ~StrayRow(u) /\ ~StrayLogin(uid[u]) /\ ~Broken(u)
             /\ ~Deleting(u) /\ ~Making(u) /\ ~Saving(u)
             /\ \A r \in Requests : task[r].row # u
             /\ RowOf(u)
  BY <1>2, NobodyAt DEF Desk!AtRest, Broken, ConsoleInv
<1>3. Desk!AccountsWhole
  <2>1. SUFFICES ASSUME NEW u \in Rows, Desk!AtRest(u)
                 PROVE  /\ Here(u) /\ <<"create", u>> \in audit => u \in spaces \cap members \cap homes
                        /\ u \in spaces => u \in members
                        /\ row[u] = "gone" => /\ u \notin spaces \cup members \cup homes \cup sessions
                                              /\ login[uid[u]] = "gone"
    BY DEF Desk!AccountsWhole, Desk!Present, Here
  <2>2. row[u] = "none" => u \notin spaces
    BY DEF ConsoleInv, RowsMade
  <2>3. CASE row[u] = "none"
    BY <2>2, <2>3 DEF Here
  <2>4. CASE row[u] # "none"
    BY <1>2, <2>1, <2>4 DEF RowOf, WholeOf, MemberOf, GoneOf
  <2> QED  BY <2>3, <2>4
<1>4. Desk!LoginsAgree
  <2>1. SUFFICES ASSUME NEW u \in Rows, Here(u)
                 PROVE  /\ Desk!Uncrossed(u) /\ row[u] = "suspended" => u \notin sessions
                        /\ Desk!AtRest(u) /\ <<"rebound", u>> \notin stray
                             => (row[u] = "suspended" <=> login[uid[u]] = "off")
    BY DEF Desk!LoginsAgree, Desk!Existing, Desk!Present, Here
  <2>2. row[u] # "none"
    BY <2>1 DEF Here
  <2>3. Desk!Uncrossed(u) /\ row[u] = "suspended" => u \notin sessions
    BY <2>2, NobodyAt DEF ConsoleInv, RowOf, OutOf
  <2>4. Desk!AtRest(u) /\ <<"rebound", u>> \notin stray => (row[u] = "suspended" <=> login[uid[u]] = "off")
    BY <1>2, <2>1, <2>2 DEF RowOf, AgreeOf
  <2> QED  BY <2>3, <2>4
<1>5. Desk!Audited
  <2>1. ASSUME NEW e \in effects \ audit, Desk!AtRest(e[2]) PROVE FALSE
    <3>1. e[2] \in Rows /\ row[e[2]] # "none"
      BY <2>1 DEF ConsoleInv, RowsMade
    <3>2. Broken(e[2]) \/ StrayRow(e[2]) \/ Telling(e)
      BY <2>1 DEF ConsoleInv, AuditInv
    <3>3. ~Broken(e[2]) /\ ~StrayRow(e[2]) /\ \A r \in Requests : task[r].row # e[2]
      BY <1>2, <2>1, <3>1
    <3> QED  BY <3>2, <3>3 DEF Telling
  <2> QED  BY <2>1 DEF Desk!Audited, ConsoleInv, AuditInv
<1> QED  BY <1>1, <1>3, <1>4, <1>5
-----------------------------------------------------------------------------
(* The console's other changes: what is written in the log, and what will be,   *)
(* keeps up with what was changed.                                             *)

JobShape(k) ==
  /\ k \in [op : {"none", "edit", "delete", "create", "switch", "all"}, at : {"rest", "write", "log"},
            thing : Things \cup {"none"}, name : BOOLEAN]
  /\ k.at # "rest" => k.thing \in Things
  /\ k.at = "write" =>
       \/ k.op = "edit" /\ Sort[k.thing] \in {"template", "account"}
       \/ k.op = "delete" /\ Sort[k.thing] \in {"template", "workspace"}
  /\ k.op = "delete" /\ k.at = "log" => k.name
LogOf(x) == {o \in Operators : doing[o].at = "log" /\ doing[o].thing = x}
In(k, x) == IF k.at = "log" /\ k.thing = x THEN 1 ELSE 0

LedgerTyped ==
  /\ there \subseteq Things /\ entries \in [Things -> Nat] /\ changed \in [Things -> Nat]
  /\ DOMAIN doing = Operators /\ \A o \in Operators : JobShape(doing[o])
  /\ IsFiniteSet({o \in Operators : doing[o].at # "rest"})
CountInv ==
  \A x \in Things :
    /\ changed[x] <= entries[x] + Cardinality(LogOf(x))
    /\ Sort[x] \notin {"template", "workspace", "session"} => entries[x] + Cardinality(LogOf(x)) = changed[x]
OwnInv == \A x \in Things : Sort[x] = "own" => x \in there /\ changed[x] = 0
LedgerInv == LedgerTyped /\ CountInv /\ OwnInv

\* One operator moves: the entries under way change by one at most.
LEMMA Counted ==
  ASSUME LedgerTyped, NEW o \in Operators, NEW k, JobShape(k), doing' = [doing EXCEPT ![o] = k]
  PROVE  /\ DOMAIN doing' = Operators /\ \A p \in Operators : JobShape(doing'[p])
         /\ IsFiniteSet({p \in Operators : doing'[p].at # "rest"})
         /\ \A x : /\ Cardinality(LogOf(x)) \in Nat /\ Cardinality(LogOf(x))' \in Nat
                   /\ Cardinality(LogOf(x))' = Cardinality(LogOf(x)) - In(doing[o], x) + In(k, x)
<1>1. /\ doing'[o] = k /\ \A p \in Operators : p # o => doing'[p] = doing[p]
      /\ DOMAIN doing' = Operators
  BY DEF LedgerTyped
<1>2. \A p \in Operators : JobShape(doing'[p])
  BY <1>1 DEF LedgerTyped
<1> DEFINE Now == {p \in Operators : doing[p].at # "rest"}
           Next2 == {p \in Operators : doing'[p].at # "rest"}
<1>3. IsFiniteSet(Now) /\ IsFiniteSet(Now \cup {o})
  BY FS_AddElement, Zenon DEF LedgerTyped
<1>4. IsFiniteSet(Next2)
  <2>1. Next2 \subseteq Now \cup {o}
    BY <1>1
  <2> QED  BY <1>3, <2>1, FS_Subset
<1>5. ASSUME NEW x
      PROVE  /\ Cardinality(LogOf(x)) \in Nat /\ Cardinality(LogOf(x))' \in Nat
             /\ Cardinality(LogOf(x))' = Cardinality(LogOf(x)) - In(doing[o], x) + In(k, x)
  <2> DEFINE A == LogOf(x)
             B == {p \in Operators : doing'[p].at = "log" /\ doing'[p].thing = x}
             C == A \ {o}
  <2>1. IsFiniteSet(A) /\ IsFiniteSet(B) /\ IsFiniteSet(C)
    <3>1. A \subseteq Now /\ B \subseteq Next2 /\ C \subseteq A
      BY DEF LogOf
    <3> QED  BY <1>3, <1>4, <3>1, FS_Subset
  <2>2. Cardinality(A) \in Nat /\ Cardinality(B) \in Nat /\ Cardinality(C) \in Nat
    BY <2>1, FS_CardinalityType
  <2>3. Cardinality(A) = Cardinality(C) + In(doing[o], x)
    <3>1. CASE o \in A
      <4>1. Cardinality(C) = Cardinality(A) - 1
        BY <2>1, <3>1, FS_RemoveElement
      <4>2. In(doing[o], x) = 1
        BY <3>1 DEF In, LogOf
      <4> QED  BY <2>2, <4>1, <4>2
    <3>2. CASE o \notin A
      <4>1. C = A
        BY <3>2
      <4>2. In(doing[o], x) = 0
        BY <3>2 DEF In, LogOf
      <4>3. Cardinality(C) = Cardinality(A)
        BY <4>1
      <4> QED  BY <2>2, <4>2, <4>3
    <3> QED  BY <3>1, <3>2
  <2>4. Cardinality(B) = Cardinality(C) + In(k, x)
    <3>1. CASE o \in B
      <4>1. B = C \cup {o} /\ o \notin C /\ In(k, x) = 1
        BY <1>1, <3>1 DEF In, LogOf
      <4>2. Cardinality(C \cup {o}) = Cardinality(C) + 1
        BY <2>1, <4>1, FS_AddElement, Zenon
      <4> QED  BY <4>1, <4>2
    <3>2. CASE o \notin B
      <4>1. C = B
        BY <1>1, <3>2 DEF LogOf
      <4>2. In(k, x) = 0
        BY <1>1, <3>2 DEF In
      <4>3. Cardinality(C) = Cardinality(B)
        BY <4>1
      <4> QED  BY <2>2, <4>2, <4>3
    <3> QED  BY <3>1, <3>2
  <2>5. A = LogOf(x) /\ B = LogOf(x)'
    BY DEF LogOf
  <2>6. In(doing[o], x) \in {0, 1} /\ In(k, x) \in {0, 1}
    BY DEF In
  <2> HIDE DEF A, B, C
  <2> QED  BY <2>2, <2>3, <2>4, <2>5, <2>6
<1> QED  BY <1>1, <1>2, <1>4, <1>5

\* A move of an operator that writes down as many entries, now or later, as it changes things.
LEMMA OperatorMoves ==
  ASSUME LedgerInv, NEW o \in Operators, NEW k, JobShape(k), doing' = [doing EXCEPT ![o] = k],
         there' \subseteq Things, entries' \in [Things -> Nat], changed' \in [Things -> Nat],
         \A x \in Things : Sort[x] = "own" => changed'[x] = changed[x] /\ (x \in there => x \in there'),
         \A x \in Things :
           /\ changed'[x] - changed[x] <= entries'[x] - entries[x] + In(k, x) - In(doing[o], x)
           /\ Sort[x] \notin {"template", "workspace", "session"} =>
                changed'[x] - changed[x] = entries'[x] - entries[x] + In(k, x) - In(doing[o], x)
  PROVE  LedgerInv'
<1>1. LedgerTyped'
  BY Counted DEF LedgerInv, LedgerTyped
<1>2. OwnInv'
  BY DEF LedgerInv, OwnInv
<1>3. CountInv'
  <2>1. SUFFICES ASSUME NEW x \in Things
                 PROVE  /\ changed'[x] <= entries'[x] + Cardinality(LogOf(x))'
                        /\ Sort[x] \notin {"template", "workspace", "session"} =>
                             entries'[x] + Cardinality(LogOf(x))' = changed'[x]
    BY DEF CountInv
  <2>2. /\ Cardinality(LogOf(x)) \in Nat /\ Cardinality(LogOf(x))' \in Nat
        /\ Cardinality(LogOf(x))' = Cardinality(LogOf(x)) - In(doing[o], x) + In(k, x)
    BY Counted DEF LedgerInv
  <2>3. In(doing[o], x) \in {0, 1} /\ In(k, x) \in {0, 1}
    BY DEF In
  <2>4. {entries[x], entries'[x], changed[x], changed'[x]} \subseteq Nat
    BY DEF LedgerInv, LedgerTyped
  <2>5. /\ changed[x] <= entries[x] + Cardinality(LogOf(x))
        /\ Sort[x] \notin {"template", "workspace", "session"} => entries[x] + Cardinality(LogOf(x)) = changed[x]
    BY DEF LedgerInv, CountInv
  <2>6. /\ changed'[x] - changed[x] <= entries'[x] - entries[x] + In(k, x) - In(doing[o], x)
        /\ Sort[x] \notin {"template", "workspace", "session"} =>
             changed'[x] - changed[x] = entries'[x] - entries[x] + In(k, x) - In(doing[o], x)
    OBVIOUS
  <2> QED  BY <2>2, <2>3, <2>4, <2>5, <2>6
<1> QED  BY <1>1, <1>2, <1>3 DEF LedgerInv

\* A request at the store: what it is about, and how often that was changed.
LEMMA LedgerFacts ==
  ASSUME LedgerInv
  PROVE  /\ there \subseteq Things /\ entries \in [Things -> Nat] /\ changed \in [Things -> Nat]
         /\ Sort \in [Things -> {"template", "own", "account", "session", "export", "workspace"}]
         /\ JobShape(Book!Rest) /\ \A x : In(Book!Rest, x) = 0
         /\ \A o \in Operators : JobShape(doing[o])
BY DEF LedgerInv, LedgerTyped, JobShape, In, Book!Rest, Book!LedgerAssumption

\* A change that was read for.
LEMMA ReadKeeps ==
  ASSUME LedgerInv, NEW o \in Operators, Book!ReadToEdit(o) \/ Book!ReadToDelete(o)
  PROVE  LedgerInv'
<1>1. PICK k :
        /\ k.at = "write" /\ JobShape(k) /\ doing[o] = Book!Rest /\ doing' = [doing EXCEPT ![o] = k]
        /\ UNCHANGED <<there, entries, changed>>
  <2>1. CASE Book!ReadToEdit(o)
    <3>1. PICK x \in there : /\ Sort[x] \in {"template", "account"}
                             /\ Book!Open(o, [op |-> "edit", at |-> "write", thing |-> x, name |-> TRUE])
      BY <2>1 DEF Book!ReadToEdit, Book!BuiltIn, Book!OfSort
    <3>2. JobShape([op |-> "edit", at |-> "write", thing |-> x, name |-> TRUE])
      BY <3>1, LedgerFacts DEF JobShape
    <3> QED  BY <2>1, <3>1, <3>2 DEF Book!ReadToEdit, Book!Open
  <2>2. CASE Book!ReadToDelete(o)
    <3>1. PICK x \in there : /\ Sort[x] \in {"template", "workspace"}
                             /\ Book!Open(o, [op |-> "delete", at |-> "write", thing |-> x, name |-> x \in named])
      BY <2>2 DEF Book!ReadToDelete, Book!BuiltIn, Book!OfSort
    <3>2. JobShape([op |-> "delete", at |-> "write", thing |-> x, name |-> x \in named])
      BY <3>1, LedgerFacts DEF JobShape
    <3> QED  BY <2>2, <3>1, <3>2 DEF Book!ReadToDelete, Book!Open
  <2> QED  BY <2>1, <2>2
<1>2. \A x : In(k, x) = 0 /\ In(doing[o], x) = 0
  BY <1>1, LedgerFacts DEF In
<1>3. \A x \in Things : entries[x] \in Nat /\ changed[x] \in Nat
  BY LedgerFacts
<1>4. \A x \in Things : changed'[x] - changed[x] = 0 /\ entries'[x] - entries[x] + In(k, x) - In(doing[o], x) = 0
  BY <1>1, <1>2, <1>3
<1>5. \A x \in Things : changed'[x] - changed[x] <= entries'[x] - entries[x] + In(k, x) - In(doing[o], x)
  BY <1>4
<1>6. there' \subseteq Things /\ entries' \in [Things -> Nat] /\ changed' \in [Things -> Nat]
      /\ \A x \in Things : Sort[x] = "own" => changed'[x] = changed[x] /\ (x \in there => x \in there')
  BY <1>1, LedgerFacts
<1> QED  BY <1>1, <1>4, <1>5, <1>6, LedgerFacts, OperatorMoves

\* A change that finds its thing gone, or another name.
LEMMA NotFoundKeeps ==
  ASSUME LedgerInv, NEW o \in Operators, doing[o].at = "write", Book!NotFound(o)
  PROVE  LedgerInv'
<1>1. doing' = [doing EXCEPT ![o] = Book!Rest] /\ UNCHANGED <<there, entries, changed>>
  BY DEF Book!NotFound, Book!Over
<1>2. \A x : In(Book!Rest, x) = 0 /\ In(doing[o], x) = 0
  BY LedgerFacts DEF In
<1>3. \A x \in Things : entries[x] \in Nat /\ changed[x] \in Nat
  BY LedgerFacts
<1>4. \A x \in Things : changed'[x] - changed[x] = 0 /\ entries'[x] - entries[x] + In(Book!Rest, x) - In(doing[o], x) = 0
  BY <1>1, <1>2, <1>3
<1>5. \A x \in Things : changed'[x] - changed[x] <= entries'[x] - entries[x] + In(Book!Rest, x) - In(doing[o], x)
  BY <1>4
<1>6. there' \subseteq Things /\ entries' \in [Things -> Nat] /\ changed' \in [Things -> Nat]
      /\ \A x \in Things : Sort[x] = "own" => changed'[x] = changed[x] /\ (x \in there => x \in there')
  BY <1>1, LedgerFacts
<1> QED  BY <1>1, <1>4, <1>5, <1>6, LedgerFacts, OperatorMoves

\* A change of x is made, or one that may have been made already: its entry is under way.
LEMMA ChangeKeeps ==
  ASSUME LedgerInv, NEW o \in Operators, NEW k, NEW x \in Things, NEW n \in {0, 1},
         JobShape(k), k.at = "log", k.thing = x, doing[o].at # "log", doing' = [doing EXCEPT ![o] = k],
         there' \subseteq Things, Sort[x] # "own", \A y \in Things : y # x /\ y \in there => y \in there',
         changed' = [changed EXCEPT ![x] = @ + n], UNCHANGED entries,
         n = 1 \/ Sort[x] \in {"template", "workspace", "session"}
  PROVE  LedgerInv'
<1>1. \A y : In(doing[o], y) = 0 /\ In(k, y) = IF y = x THEN 1 ELSE 0
  BY DEF In
<1>2. \A y \in Things : entries[y] \in Nat /\ changed[y] \in Nat
  BY LedgerFacts
<1>3. changed' \in [Things -> Nat] /\ \A y \in Things : changed'[y] = IF y = x THEN changed[y] + n ELSE changed[y]
  BY LedgerFacts
<1>4. \A y \in Things : Sort[y] = "own" => changed'[y] = changed[y] /\ (y \in there => y \in there')
  BY <1>3
<1>5. ASSUME NEW y \in Things
      PROVE  /\ changed'[y] - changed[y] <= entries'[y] - entries[y] + In(k, y) - In(doing[o], y)
             /\ Sort[y] \notin {"template", "workspace", "session"} =>
                  changed'[y] - changed[y] = entries'[y] - entries[y] + In(k, y) - In(doing[o], y)
  BY <1>1, <1>2, <1>3
<1>6. entries' \in [Things -> Nat]
  BY LedgerFacts
<1> QED  BY <1>3, <1>4, <1>5, <1>6, OperatorMoves

\* A row that was read is saved.
LEMMA SaveKeeps ==
  ASSUME LedgerInv, NEW o \in Operators, Book!Save(o)
  PROVE  LedgerInv'
<1>1. JobShape(doing[o]) /\ doing[o].op = "edit" /\ doing[o].at = "write" /\ doing[o].thing \in Things
  BY LedgerFacts DEF Book!Save, JobShape
<1>2. CASE Book!NotFound(o)
  BY <1>1, <1>2, NotFoundKeeps
<1>3. CASE Book!Onto(o, "log") /\ Book!Made(doing[o].thing) /\ UNCHANGED <<there, entries>>
  <2> DEFINE k == [doing[o] EXCEPT !.at = "log"]
  <2>1. JobShape(k) /\ k.at = "log" /\ k.thing = doing[o].thing
    BY <1>1 DEF JobShape
  <2>2. doing' = [doing EXCEPT ![o] = k] /\ changed' = [changed EXCEPT ![doing[o].thing] = @ + 1]
    BY <1>3 DEF Book!Onto, Book!Made
  <2>3. Sort[doing[o].thing] # "own"
    BY <1>1 DEF JobShape
  <2>4. there' \subseteq Things /\ \A y \in Things : y \in there => y \in there'
    BY <1>3, LedgerFacts
  <2> HIDE DEF k
  <2> QED  BY <1>1, <1>3, <2>1, <2>2, <2>3, <2>4, ChangeKeeps
<1> QED  BY <1>2, <1>3 DEF Book!Save

\* A row that was read is deleted, or was gone already.
LEMMA DeleteKeeps ==
  ASSUME LedgerInv, NEW o \in Operators, Book!Delete(o)
  PROVE  LedgerInv'
<1>1. JobShape(doing[o]) /\ doing[o].op = "delete" /\ doing[o].at = "write" /\ doing[o].thing \in Things
  BY LedgerFacts DEF Book!Delete, JobShape
<1>2. CASE ~doing[o].name
  BY <1>1, <1>2, NotFoundKeeps DEF Book!Delete
<1>3. CASE doing[o].name
  <2> DEFINE k == [doing[o] EXCEPT !.at = "log"]
             n == IF doing[o].thing \in there THEN 1 ELSE 0
  <2>1. JobShape(k) /\ k.at = "log" /\ k.thing = doing[o].thing
    BY <1>1, <1>3 DEF JobShape
  <2>2. doing' = [doing EXCEPT ![o] = k] /\ there' = there \ {doing[o].thing} /\ UNCHANGED entries
    BY <1>3 DEF Book!Delete, Book!Onto
  <2>3. changed' = [changed EXCEPT ![doing[o].thing] = @ + n] /\ n \in {0, 1}
    BY <1>3 DEF Book!Delete
  <2>4. Sort[doing[o].thing] \in {"template", "workspace"}
    BY <1>1 DEF JobShape
  <2>5. there' \subseteq Things /\ \A y \in Things : y # doing[o].thing /\ y \in there => y \in there'
    BY <2>2, LedgerFacts
  <2> HIDE DEF k, n
  <2> QED  BY <1>1, <2>1, <2>2, <2>3, <2>4, <2>5, ChangeKeeps
<1> QED  BY <1>2, <1>3

\* What is one write: a new template, a session or an export that is switched, all sessions.
LEMMA AtOnceKeeps ==
  ASSUME LedgerInv, NEW o \in Operators, Book!Insert(o) \/ Book!Switch(o) \/ Book!SwitchAll(o)
  PROVE  LedgerInv'
<1>1. PICK x \in Things, op \in {"create", "switch", "all"}, n \in {0, 1} :
        /\ Sort[x] # "own" /\ doing[o] = Book!Rest
        /\ doing' = [doing EXCEPT ![o] = [op |-> op, at |-> "log", thing |-> x, name |-> TRUE]]
        /\ there' \subseteq Things /\ \A y \in Things : y # x /\ y \in there => y \in there'
        /\ changed' = [changed EXCEPT ![x] = @ + n] /\ UNCHANGED entries
        /\ n = 1 \/ Sort[x] \in {"template", "workspace", "session"}
  <2>1. CASE Book!Insert(o)
    BY <2>1, LedgerFacts DEF Book!Insert, Book!BuiltIn, Book!OfSort, Book!Open, Book!Made
  <2>2. CASE Book!Switch(o)
    BY <2>2, LedgerFacts DEF Book!Switch, Book!OfSort, Book!Open, Book!Made
  <2>3. CASE Book!SwitchAll(o)
    BY <2>3, LedgerFacts DEF Book!SwitchAll, Book!OfSort, Book!Open
  <2> QED  BY <2>1, <2>2, <2>3
<1> DEFINE k == [op |-> op, at |-> "log", thing |-> x, name |-> TRUE]
<1>2. JobShape(k) /\ k.at = "log" /\ k.thing = x
  BY DEF JobShape
<1>3. doing[o].at # "log"
  BY <1>1 DEF Book!Rest
<1>4. doing' = [doing EXCEPT ![o] = k]
  BY <1>1
<1> HIDE DEF k
<1> QED  BY <1>1, <1>2, <1>3, <1>4, ChangeKeeps

\* The entry is written.
LEMMA LogKeeps ==
  ASSUME LedgerInv, NEW o \in Operators, Book!Log(o)
  PROVE  LedgerInv'
<1>1. doing[o].at = "log" /\ doing[o].thing \in Things /\ doing' = [doing EXCEPT ![o] = Book!Rest]
  BY LedgerFacts DEF Book!Log, Book!Over, JobShape
<1>2. entries' = [entries EXCEPT ![doing[o].thing] = @ + 1] /\ UNCHANGED <<there, changed>>
  BY DEF Book!Log
<1>3. \A y \in Things : entries[y] \in Nat /\ changed[y] \in Nat
  BY LedgerFacts
<1>4. entries' \in [Things -> Nat] /\ \A y \in Things : entries'[y] = entries[y] + In(doing[o], y)
  BY <1>1, <1>2, <1>3, LedgerFacts DEF In
<1>5. \A y \in Things : In(Book!Rest, y) = 0 /\ In(doing[o], y) \in {0, 1}
  BY LedgerFacts DEF In
<1>6. ASSUME NEW y \in Things
      PROVE  changed'[y] - changed[y] = entries'[y] - entries[y] + In(Book!Rest, y) - In(doing[o], y)
  BY <1>2, <1>3, <1>4, <1>5
<1>7. \A y \in Things : changed'[y] - changed[y] \in Int
  BY <1>2, <1>3
<1>8. \A y \in Things : changed'[y] - changed[y] <= entries'[y] - entries[y] + In(Book!Rest, y) - In(doing[o], y)
  BY <1>6, <1>7
<1> QED  BY <1>1, <1>2, <1>4, <1>6, <1>8, LedgerFacts, OperatorMoves

\* Nobody beside the console deletes a workspace's template or writes an entry.
LEMMA BesideKeeps ==
  ASSUME LedgerInv, Book!Beside
  PROVE  LedgerInv'
<1>1. UNCHANGED <<entries, doing, changed>> /\ there' \subseteq Things
      /\ \A y \in Things : Sort[y] = "own" /\ y \in there => y \in there'
  BY LedgerFacts DEF Book!Beside, Book!OfSort
<1>2. \A y : LogOf(y)' = LogOf(y)
  BY <1>1 DEF LogOf
<1>3. LedgerTyped' /\ OwnInv'
  BY <1>1 DEF LedgerInv, LedgerTyped, OwnInv
<1>4. CountInv'
  BY <1>1, <1>2 DEF LedgerInv, CountInv
<1> QED  BY <1>3, <1>4 DEF LedgerInv

\* Every step of the console keeps it, and what stands still does.
LEMMA LedgerStep ==
  ASSUME LedgerInv, Book!LedgerNext \/ UNCHANGED bookVars
  PROVE  LedgerInv'
<1>1. CASE Book!LedgerNext
  BY <1>1, ReadKeeps, SaveKeeps, DeleteKeeps, AtOnceKeeps, LogKeeps, BesideKeeps DEF Book!LedgerNext
<1>2. CASE UNCHANGED bookVars
  <2>1. UNCHANGED <<there, entries, doing, changed>> /\ \A y : LogOf(y)' = LogOf(y)
    BY <1>2 DEF bookVars, LogOf
  <2> QED  BY <2>1 DEF LedgerInv, LedgerTyped, CountInv, OwnInv
<1> QED  BY <1>1, <1>2

\* At first nothing is changed, and nobody is at it.
LEMMA LedgerStarts ==
  ASSUME Book!LedgerInit
  PROVE  LedgerInv
<1>1. \A o \in Operators : doing[o] = Book!Rest /\ JobShape(doing[o]) /\ doing[o].at = "rest"
  BY DEF Book!LedgerInit, JobShape, Book!Rest
<1>2. {o \in Operators : doing[o].at # "rest"} = {} /\ \A x : LogOf(x) = {}
  BY <1>1 DEF LogOf
<1>3. LedgerTyped
  BY <1>1, <1>2, FS_EmptySet DEF LedgerTyped, Book!LedgerInit
<1>4. \A x : Cardinality(LogOf(x)) = 0
  BY <1>2, FS_EmptySet
<1>5. CountInv
  BY <1>4 DEF CountInv, Book!LedgerInit
<1>6. OwnInv
  BY DEF OwnInv, Book!LedgerInit, Book!OfSort
<1> QED  BY <1>3, <1>5, <1>6 DEF LedgerInv

\* What the run checks of the console's other changes follows.
LEMMA LedgerFollows ==
  ASSUME LedgerInv
  PROVE  Book!LedgerHolds /\ Book!ReachHolds
<1>1. \A x : Book!Underway(x) = Cardinality(LogOf(x))
  BY ConsoleCount DEF Book!Underway, LogOf
<1>2. Book!LedgerHolds
  BY <1>1 DEF Book!LedgerHolds, Book!Loose, Book!OfSort, LedgerInv, CountInv
<1>3. Book!ReachHolds
  BY DEF Book!ReachHolds, Book!OfSort, LedgerInv, LedgerTyped, OwnInv, JobShape
<1> QED  BY <1>2, <1>3

-----------------------------------------------------------------------------
\* For any accounts, requests and things, whatever runs side by side, is refused or stops: the
\* stores of an account agree, nothing is left of a deleted one, every change is in the audit
\* log, and the console reaches nothing it should not.
THEOREM ConsoleStays == UpkeepSpec => []ConsoleHolds
<1> DEFINE Good == ConsoleInv /\ CountsTyped /\ LedgerInv
<1>1. UpkeepInit => Good
  BY ConsoleStarts, LedgerStarts DEF UpkeepInit
<1>2. Good /\ [UpkeepNext]_upkeepVars => Good'
  <2> SUFFICES ASSUME Good, [UpkeepNext]_upkeepVars PROVE Good'
    OBVIOUS
  <2>1. CASE UNCHANGED deskVars
    <3>1. CountsTyped'
      BY <2>1 DEF CountsTyped, deskVars
    <3>2. Book!LedgerNext \/ UNCHANGED bookVars
      BY DEF UpkeepNext, Exporting, upkeepVars
    <3> QED  BY <2>1, <3>1, <3>2, StillKeeps, LedgerStep
  <2>2. CASE UNCHANGED bookVars /\ Desk!ConsoleNext
    <3>1. CountsTyped'
      BY <2>2, CountStays
    <3>2. ConsoleInv'
      <4>1. ASSUME NEW r \in Requests, Desk!Step(r),
                   stray' = stray \cup Desk!Crossed' \cup Desk!Failed(r) \cup Desk!Rebound
            PROVE  ConsoleInv'
        BY <4>1, StepMarks, StepKeeps
      <4>2. CASE Desk!Register /\ UNCHANGED stray
        BY <4>2, RegisterKeeps
      <4> QED  BY <2>2, <4>1, <4>2 DEF Desk!ConsoleNext
    <3> QED  BY <2>2, <3>1, <3>2, LedgerStep
  <2> QED  BY <2>1, <2>2 DEF UpkeepNext, Exporting, upkeepVars
<1>3. Good => ConsoleHolds
  BY AccountsFollow, LedgerFollows DEF ConsoleHolds
<1> QED  BY <1>1, <1>2, <1>3, PTL DEF UpkeepSpec
==============================================================================
