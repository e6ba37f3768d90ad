------------------------------ MODULE Submission ------------------------------
(* A public submission in the two places where visitors race each other: the   *)
(* letters and numbers of references over several forms and workspaces          *)
(* (References) and the pipeline of one form (FormIntake). The parts share no   *)
(* state of the code and are followed one by one.                               *)
EXTENDS References

CONSTANTS
  Requests, Tests, Editors, Limits, Dates, NoLimit, NoDate, MaxTime, MaxEdits, MaxFailures

ASSUME SubmissionAssumption ==
  /\ Tests \subseteq Requests
  /\ NoLimit \notin Nat /\ Limits \subseteq Nat \cup {NoLimit} /\ Limits # {}
  /\ NoDate \notin Nat /\ Dates \subseteq Nat \cup {NoDate} /\ Dates # {}
  /\ MaxTime \in Nat /\ MaxEdits \in Nat /\ MaxFailures \in Nat

VARIABLES
  part,                                          \* the one that is followed
  form, now, stored, counter, number, at, gate, seen, answer, edits, sweep, editsUsed,
  failuresUsed, past

Intake == INSTANCE FormIntake WITH pc <- at

intakeOnly == <<form, now, stored, counter, number, at, gate, seen, answer, edits, sweep,
                editsUsed, failuresUsed, past>>
submissionVars == <<part, vars, intakeOnly>>

\* Where a part starts when it is not followed is of no matter.
SubmissionInit ==
  /\ part \in {"pipeline", "letters"}
  /\ Init /\ Intake!Init
  /\ part = "pipeline" => shared = {}
  /\ part = "letters" => form.status = "published"

Pipeline(step) == part = "pipeline" /\ UNCHANGED <<part, vars>> /\ step
Lettering(step) == part = "letters" /\ UNCHANGED <<part, intakeOnly>> /\ step

SubmissionNext == Pipeline(Intake!Next) \/ Lettering(Next)

\* The server runs what it has begun, as in the parts.
SubmissionSpec ==
  /\ SubmissionInit /\ [][SubmissionNext]_submissionVars
  /\ \A r \in Requests : WF_submissionVars(Pipeline(Intake!Step(r) /\ Intake!Remember))
  /\ \A s \in Submissions : WF_submissionVars(Lettering(Step(s)))

\* Where nobody edits, whatever races and dies: everything is of its type, a limit is
\* never overshot and no number given twice, what is stored was accepted (FormIntake),
\* and the letters of a form are those its first response got (References).
SubmissionSafe ==
  /\ TypeOK /\ LettersFixed
  /\ Intake!TypeOK /\ Intake!AcceptedWithinLimit /\ Intake!NumbersUnique
  /\ Intake!OnlyAcceptedRemain

\* The pipeline of FormIntake keeps its contract.
ImplementsContract == Intake!ImplementsContract

\* A form whose places are taken is stored as closed in the end (FormIntake).
FullFormCloses == Intake!FullFormCloses

\* Where nothing dies every submission is answered (FormIntake), and where letters are
\* given out, everybody has a reference in the end (AllocationReturns of References;
\* nobody asks twice).
EverybodyAnswered ==
  /\ Intake!EveryRequestAnswered
  /\ part = "letters" ~> \A s \in Submissions : pc[s] = "done"
==============================================================================
