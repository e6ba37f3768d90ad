-------------------------- MODULE SubmissionProofs --------------------------
(***************************************************************************)
(* Proofs about References: letters stay distinct within a workspace and a *)
(* form keeps those its first response got even while forms move, and      *)
(* where no form moves no two responses share a reference, for every       *)
(* number of workspaces, forms and submissions.  They and the theorems of  *)
(* FormIntake are then carried to Submission, where the pipeline of a form *)
(* and the letters of references are followed side by side.  Pipe is       *)
(* FormIntake with its theorems; its definitions are those of Submission's *)
(* Intake, read from the same module.                                      *)
(***************************************************************************)
EXTENDS Submission, FiniteSetTheorems, TLAPS

USE ReferencesAssumption

\* Counting in base 26 stays within the letters.
LEMMA NextCodeType ==
  ASSUME NEW code \in Codes
  PROVE  NextCode(code) \in Codes
BY DEF NextCode, Codes

\* What each stage of an allocation has in hand.
Started(s) == pc[s] # "start" => local[s].ws \in Workspaces
Typed == TypeOK /\ \A s \in Submissions : Started(s)

\* Codes written into the locals of an allocation are of their type.
LEMMA LocalEdits ==
  ASSUME NEW l \in Locals, NEW c \in Codes, NEW w \in Workspaces
  PROVE  /\ [l EXCEPT !.wcode = c] \in Locals /\ [l EXCEPT !.wcode = c].ws = l.ws
         /\ [l EXCEPT !.fcode = c] \in Locals /\ [l EXCEPT !.fcode = c].ws = l.ws
         /\ [l EXCEPT !.candidate = c, !.tries = 0, !.ws = w] \in Locals
         /\ [l EXCEPT !.candidate = c, !.tries = 0, !.ws = w].ws = w
         /\ [l EXCEPT !.candidate = c, !.tries = 0] \in Locals
         /\ [l EXCEPT !.candidate = c, !.tries = 0].ws = l.ws
<1>0. 0 \in 0..(Space - 1)
  OBVIOUS
<1>1. /\ [l EXCEPT !.wcode = c] \in Locals /\ [l EXCEPT !.wcode = c].ws = l.ws
      /\ [l EXCEPT !.fcode = c] \in Locals /\ [l EXCEPT !.fcode = c].ws = l.ws
  BY DEF Locals
<1>2. /\ [l EXCEPT !.candidate = c, !.tries = 0, !.ws = w] \in Locals
      /\ [l EXCEPT !.candidate = c, !.tries = 0, !.ws = w].ws = w
  BY <1>0 DEF Locals
<1>3. /\ [l EXCEPT !.candidate = c, !.tries = 0] \in Locals
      /\ [l EXCEPT !.candidate = c, !.tries = 0].ws = l.ws
  BY <1>0 DEF Locals
<1> QED  BY <1>1, <1>2, <1>3

\* A step that writes only its own control state and locals.
LEMMA OwnUpdate ==
  ASSUME Typed, NEW s \in Submissions,
         pc' = [pc EXCEPT ![s] = pc'[s]], pc'[s] \in Stages,
         local' = [local EXCEPT ![s] = local'[s]], local'[s] \in Locals,
         local'[s].ws \in Workspaces
  PROVE  /\ pc' \in [Submissions -> Stages] /\ local' \in [Submissions -> Locals]
         /\ \A t \in Submissions : Started(t)'
BY DEF Typed, TypeOK, Started

\* Another round of a loop keeps the types.
LEMMA AgainTypes ==
  ASSUME Typed, NEW s \in Submissions, NEW probe \in {"wsProbe", "formProbe"},
         pc[s] # "start", Again(s, probe)
  PROVE  /\ pc' \in [Submissions -> Stages] /\ local' \in [Submissions -> Locals]
         /\ \A t \in Submissions : Started(t)'
<1>1. CASE local[s].tries + 1 = Space
  BY <1>1 DEF Again, Typed, TypeOK, Started, Stages
<1>2. CASE local[s].tries + 1 # Space
  <2>0. pc \in [Submissions -> Stages] /\ local \in [Submissions -> Locals] /\ local[s].ws \in Workspaces
    BY DEF Typed, TypeOK, Started
  <2>1. local[s].tries + 1 \in 0..(Space - 1)
    BY <1>2, <2>0 DEF Locals
  <2>2. NextCode(local[s].candidate) \in Codes
    BY <2>0, NextCodeType DEF Locals
  <2> DEFINE l == [local[s] EXCEPT !.candidate = NextCode(local[s].candidate), !.tries = local[s].tries + 1]
  <2>3. l \in Locals /\ l.ws = local[s].ws
    BY <2>0, <2>1, <2>2 DEF Locals
  <2>4. pc' = [pc EXCEPT ![s] = probe] /\ local' = [local EXCEPT ![s] = l]
    BY <1>2, <2>0 DEF Again
  <2>5. local'[s] = l /\ pc'[s] = probe /\ probe \in Stages
    BY <2>0, <2>4 DEF Stages
  <2> HIDE DEF l
  <2> QED  BY <2>0, <2>3, <2>4, <2>5, OwnUpdate
<1> QED  BY <1>1, <1>2

\* A step of a submission keeps the types.
LEMMA StepTyped ==
  ASSUME Typed, NEW s \in Submissions, Step(s)
  PROVE  Typed'
<1> DEFINE Rest ==
      /\ wsCode \in [Workspaces -> Codes \cup {None}] /\ formCode \in [Forms -> Codes \cup {None}]
      /\ home \in [Forms -> Workspaces] /\ seq \in [Forms -> Nat]
      /\ reference \in [Submissions -> (Codes \cup {None}) \X (Codes \cup {None}) \X Nat]
      /\ shared \subseteq Forms /\ moving \in {NoMove} \cup [form: Forms, to: Workspaces] /\ moves \in Nat
<1> DEFINE Own == /\ pc' = [pc EXCEPT ![s] = pc'[s]] /\ pc'[s] \in Stages
                  /\ local' = [local EXCEPT ![s] = local'[s]] /\ local'[s] \in Locals
                  /\ local'[s].ws \in Workspaces
<1>a. /\ Rest /\ pc \in [Submissions -> Stages] /\ local \in [Submissions -> Locals]
      /\ pc[s] # "start" => local[s].ws \in Workspaces
      /\ Target[s] \in Forms /\ home[Target[s]] \in Workspaces
  BY DEF Typed, TypeOK, Started
<1>b. local[s] \in Locals
  BY <1>a
<1>c. Rest' /\ Own => Typed'
  BY OwnUpdate DEF Typed, TypeOK
<1>e. ASSUME NEW stage \in Stages, NEW l \in Locals, l.ws \in Workspaces,
             pc' = [pc EXCEPT ![s] = stage], local' = [local EXCEPT ![s] = l]
      PROVE  Own
  BY <1>a, <1>e
<1>f. pc[s] # "start" => \A c \in Codes :
        /\ [local[s] EXCEPT !.wcode = c] \in Locals /\ [local[s] EXCEPT !.wcode = c].ws \in Workspaces
        /\ [local[s] EXCEPT !.fcode = c] \in Locals /\ [local[s] EXCEPT !.fcode = c].ws \in Workspaces
  BY <1>a, <1>b, LocalEdits
<1>g. \A c \in Codes, w \in Workspaces :
        /\ [local[s] EXCEPT !.candidate = c, !.tries = 0, !.ws = w] \in Locals
        /\ [local[s] EXCEPT !.candidate = c, !.tries = 0, !.ws = w].ws = w
        /\ [local[s] EXCEPT !.candidate = c, !.tries = 0] \in Locals
        /\ [local[s] EXCEPT !.candidate = c, !.tries = 0].ws = local[s].ws
  <2>1. 0 \in 0..(Space - 1)
    OBVIOUS
  <2> QED  BY <1>b, <2>1 DEF Locals
<1>d. ASSUME NEW probe \in {"wsProbe", "formProbe"}, pc[s] # "start", Again(s, probe), Rest'
      PROVE  Typed'
  BY <1>d, AgainTypes DEF Typed, TypeOK
<1> USE DEF At, moveVars
<1>1. CASE Start(s)
  <2>1. Rest'
    BY <1>1, <1>a DEF Start
  <2>2. Own
    BY <1>1, <1>a, <1>b DEF Start, Locals, Stages
  <2> QED  BY <2>1, <2>2, <1>c
<1>2. CASE WsRead(s)
  <2>1. Rest'
    BY <1>2, <1>a DEF WsRead
  <2>2. {"formRead", "wsProbe"} \subseteq Stages /\ pc[s] # "start" /\ local[s].ws \in Workspaces
    BY <1>2, <1>a DEF WsRead, Stages
  <2>3. CASE wsCode[local[s].ws] # None
    <3>1. wsCode[local[s].ws] \in Codes
      BY <2>2, <2>3, <1>a
    <3> DEFINE l == [local[s] EXCEPT !.wcode = wsCode[local[s].ws]]
    <3>2. l \in Locals /\ l.ws \in Workspaces
      BY <2>2, <3>1, <1>f
    <3>3. pc' = [pc EXCEPT ![s] = "formRead"] /\ local' = [local EXCEPT ![s] = l]
      BY <1>2, <2>3 DEF WsRead
    <3> HIDE DEF l
    <3>4. Own
      BY <2>2, <3>2, <3>3, <1>e
    <3> QED  BY <2>1, <3>4, <1>c
  <2>4. CASE wsCode[local[s].ws] = None
    <3>1. Prefers[local[s].ws] \in Codes
      BY <2>2
    <3> DEFINE l == [local[s] EXCEPT !.candidate = Prefers[local[s].ws], !.tries = 0]
    <3>2. l \in Locals /\ l.ws \in Workspaces
      BY <2>2, <3>1, <1>g
    <3>3. pc' = [pc EXCEPT ![s] = "wsProbe"] /\ local' = [local EXCEPT ![s] = l]
      BY <1>2, <2>4, <1>a, <1>b DEF WsRead, Candidate, Locals
    <3> HIDE DEF l
    <3>4. Own
      BY <2>2, <3>2, <3>3, <1>e
    <3> QED  BY <2>1, <3>4, <1>c
  <2> QED  BY <2>3, <2>4
<1>3. CASE WsProbe(s)
  <2>1. Rest'
    BY <1>3, <1>a DEF WsProbe
  <2>2. CASE WsTaken(local[s].candidate)
    BY <1>3, <2>1, <2>2, <1>d DEF WsProbe
  <2>3. CASE ~WsTaken(local[s].candidate)
    <3>1. Own
      BY <1>3, <2>3, <1>a, <1>b DEF WsProbe, Stages
    <3> QED  BY <3>1, <2>1, <1>c
  <2> QED  BY <2>2, <2>3
<1>4. CASE WsClaim(s)
  <2>0. local[s].candidate \in Codes /\ local[s].ws \in Workspaces
    BY <1>4, <1>a, <1>b DEF WsClaim, Locals
  <2>1. Rest'
    BY <1>4, <2>0, <1>a DEF WsClaim
  <2>2. CASE wsCode[local[s].ws] = None /\ WsTaken(local[s].candidate)
    BY <1>4, <2>1, <2>2, <1>d DEF WsClaim
  <2>3. CASE ~(wsCode[local[s].ws] = None /\ WsTaken(local[s].candidate))
    <3>1. Own
      BY <1>4, <2>0, <2>3, <1>a, <1>b DEF WsClaim, Stages, Locals
    <3> QED  BY <3>1, <2>1, <1>c
  <2> QED  BY <2>2, <2>3
<1>5. CASE WsReread(s)
  <2>1. Rest'
    BY <1>5, <1>a DEF WsReread
  <2>2. Own
    BY <1>5, <1>a, <1>b DEF WsReread, Locals, Stages
  <2> QED  BY <2>1, <2>2, <1>c
<1>6. CASE FormRead(s)
  <2>1. Rest'
    BY <1>6, <1>a DEF FormRead
  <2>2. {"seq", "formProbe"} \subseteq Stages /\ pc[s] # "start"
    BY <1>6 DEF FormRead, Stages
  <2>3. CASE formCode[Target[s]] # None
    <3>1. formCode[Target[s]] \in Codes
      BY <2>3, <1>a
    <3> DEFINE l == [local[s] EXCEPT !.fcode = formCode[Target[s]]]
    <3>2. l \in Locals /\ l.ws \in Workspaces
      BY <2>2, <3>1, <1>f
    <3>3. pc' = [pc EXCEPT ![s] = "seq"] /\ local' = [local EXCEPT ![s] = l]
      BY <1>6, <2>3 DEF FormRead
    <3> HIDE DEF l
    <3>4. Own
      BY <2>2, <3>2, <3>3, <1>e
    <3> QED  BY <2>1, <3>4, <1>c
  <2>4. CASE formCode[Target[s]] = None
    <3>1. Prefers[Target[s]] \in Codes
      BY <1>a
    <3> DEFINE l == [local[s] EXCEPT !.candidate = Prefers[Target[s]], !.tries = 0, !.ws = home[Target[s]]]
    <3>2. l \in Locals /\ l.ws \in Workspaces
      BY <1>a, <3>1, <1>g
    <3>3. pc' = [pc EXCEPT ![s] = "formProbe"] /\ local' = [local EXCEPT ![s] = l]
      BY <1>6, <2>4, <1>a, <1>b DEF FormRead, Locals
    <3> HIDE DEF l
    <3>4. Own
      BY <2>2, <3>2, <3>3, <1>e
    <3> QED  BY <2>1, <3>4, <1>c
  <2> QED  BY <2>3, <2>4
<1>7. CASE FormProbe(s)
  <2>1. Rest'
    BY <1>7, <1>a DEF FormProbe
  <2>2. CASE FormTaken(local[s].ws, local[s].candidate)
    BY <1>7, <2>1, <2>2, <1>d DEF FormProbe
  <2>3. CASE ~FormTaken(local[s].ws, local[s].candidate)
    <3>1. Own
      BY <1>7, <2>3, <1>a, <1>b DEF FormProbe, Stages
    <3> QED  BY <3>1, <2>1, <1>c
  <2> QED  BY <2>2, <2>3
<1>8. CASE FormClaim(s)
  <2>0. local[s].candidate \in Codes
    BY <1>b DEF Locals
  <2>1. Rest'
    BY <1>8, <2>0, <1>a DEF FormClaim
  <2>2. CASE formCode[Target[s]] = None /\ FormTaken(home[Target[s]], local[s].candidate)
    BY <1>8, <2>1, <2>2, <1>d DEF FormClaim
  <2>3. CASE ~(formCode[Target[s]] = None /\ FormTaken(home[Target[s]], local[s].candidate))
    <3>1. {"formReread", "seq"} \subseteq Stages /\ pc[s] # "start"
      BY <1>8 DEF FormClaim, Stages
    <3>2. CASE pc' = [pc EXCEPT ![s] = "formReread"] /\ UNCHANGED local
      <4>1. Own
        BY <3>1, <3>2, <1>a, <1>b
      <4> QED  BY <4>1, <2>1, <1>c
    <3>3. CASE /\ pc' = [pc EXCEPT ![s] = "seq"]
               /\ local' = [local EXCEPT ![s].fcode = local[s].candidate]
      <4> DEFINE l == [local[s] EXCEPT !.fcode = local[s].candidate]
      <4>1. l \in Locals /\ l.ws \in Workspaces
        BY <3>1, <2>0, <1>f
      <4>2. local' = [local EXCEPT ![s] = l]
        BY <3>3
      <4> HIDE DEF l
      <4>3. Own
        BY <3>1, <3>3, <4>1, <4>2, <1>e
      <4> QED  BY <4>3, <2>1, <1>c
    <3> QED  BY <1>8, <2>3, <3>2, <3>3 DEF FormClaim
  <2> QED  BY <2>2, <2>3
<1>9. CASE FormReread(s)
  <2>1. Rest'
    BY <1>9, <1>a DEF FormReread
  <2>2. Own
    BY <1>9, <1>a, <1>b DEF FormReread, Locals, Stages
  <2> QED  BY <2>1, <2>2, <1>c
<1>10. CASE NextSeq(s)
  <2>1. Rest'
    BY <1>10, <1>a, <1>b DEF NextSeq, Locals
  <2>2. Own
    BY <1>10, <1>a, <1>b DEF NextSeq, Stages
  <2> QED  BY <2>1, <2>2, <1>c
<1> QED  BY <1>1, <1>2, <1>3, <1>4, <1>5, <1>6, <1>7, <1>8, <1>9, <1>10 DEF Step

\* The types hold at the start.
LEMMA InitTyped == Init => Typed
BY DEF Init, Typed, TypeOK, Started, Blank, NoReference, Stages, Codes, Locals

\* Every step keeps the types.
LEMMA NextTyped == Typed /\ [Next]_vars => Typed'
<1> SUFFICES ASSUME Typed, [Next]_vars PROVE Typed'
  OBVIOUS
<1>1. CASE \E s \in Submissions : Step(s)
  BY <1>1, StepTyped
<1>2. CASE \E f \in Forms, w \in Workspaces : BeginMove(f, w)
  BY <1>2 DEF BeginMove, Typed, TypeOK, Started
<1>3. CASE EndMove
  BY <1>3 DEF EndMove, Typed, TypeOK, Started
<1>4. CASE UNCHANGED vars
  BY <1>4 DEF vars, moveVars, Typed, TypeOK, Started
<1> QED  BY <1>1, <1>2, <1>3, <1>4 DEF Next

\* Every variable keeps its type, whatever races and moves happen.
THEOREM TypesHold == Spec => []TypeOK
<1>1. Init => Typed
  BY InitTyped
<1>2. Typed /\ [Next]_vars => Typed'
  BY NextTyped
<1>3. Typed => TypeOK
  BY DEF Typed
<1> QED  BY <1>1, <1>2, <1>3, PTL DEF Spec
-----------------------------------------------------------------------------
\* A step of an allocation gives letters to a form only if nobody there has them.
LEMMA StepLetters ==
  ASSUME Typed, LettersDistinct, NEW s \in Submissions, Step(s)
  PROVE  LettersDistinct'
<1>1. CASE FormClaim(s)
  <2>1. CASE UNCHANGED <<formCode, home>>
    BY <2>1 DEF LettersDistinct
  <2>2. CASE /\ ~FormTaken(home[Target[s]], local[s].candidate)
             /\ formCode' = [formCode EXCEPT ![Target[s]] = local[s].candidate]
             /\ UNCHANGED home
    BY <2>2 DEF LettersDistinct, FormTaken, Typed, TypeOK
  <2> QED  BY <1>1, <2>1, <2>2 DEF FormClaim
<1>2. CASE ~FormClaim(s)
  <2>1. UNCHANGED <<formCode, home>>
    BY <1>2 DEF Step, Start, WsRead, WsProbe, WsClaim, WsReread, FormRead, FormProbe, FormReread, NextSeq
  <2> QED  BY <2>1 DEF LettersDistinct
<1> QED  BY <1>1, <1>2

\* A move goes through only if nobody over there has the form's letters.
LEMMA MoveLetters ==
  ASSUME Typed, LettersDistinct, EndMove
  PROVE  LettersDistinct'
<1> DEFINE f == moving.form
<1>1. f \in Forms /\ moving.to \in Workspaces
  BY DEF EndMove, Typed, TypeOK
<1>2. CASE UNCHANGED home
  BY <1>2 DEF EndMove, LettersDistinct
<1>3. CASE /\ formCode[f] = None \/ ~FormTaken(moving.to, formCode[f])
           /\ home' = [home EXCEPT ![f] = moving.to]
  BY <1>1, <1>3 DEF EndMove, LettersDistinct, FormTaken, Typed, TypeOK
<1> QED  BY <1>2, <1>3 DEF EndMove

\* Two forms of a workspace never carry the same letters, however many moves and
\* allocations run side by side.
THEOREM LettersHold == Spec => []LettersDistinct
<1>1. Init => Typed /\ LettersDistinct
  BY InitTyped DEF Init, LettersDistinct
<1>2. Typed /\ LettersDistinct /\ [Next]_vars => Typed' /\ LettersDistinct'
  <2> SUFFICES ASSUME Typed, LettersDistinct, [Next]_vars PROVE LettersDistinct'
    BY NextTyped
  <2>1. CASE \E s \in Submissions : Step(s)
    BY <2>1, StepLetters
  <2>2. CASE \E f \in Forms, w \in Workspaces : BeginMove(f, w)
    BY <2>2 DEF BeginMove, LettersDistinct
  <2>3. CASE EndMove
    BY <2>3, MoveLetters
  <2>4. CASE UNCHANGED vars
    BY <2>4 DEF vars, LettersDistinct
  <2> QED  BY <2>1, <2>2, <2>3, <2>4 DEF Next
<1> QED  BY <1>1, <1>2, PTL DEF Spec
-----------------------------------------------------------------------------
(* Until a form moves, references are unique.  The invariant says what an   *)
(* allocation holds at each stage, and what a given reference is made of.    *)

HasWs == {"formRead", "formProbe", "formClaim", "formReread", "seq", "done"}
HasForm == {"seq", "done"}

Place(s) == home[Target[s]]
WsDistinct ==
  \A v, w \in Workspaces : v # w /\ wsCode[v] # None => wsCode[v] # wsCode[w]
InHand(s) ==
  /\ pc[s] # "start" => local[s].ws = Place(s)
  /\ pc[s] = "wsReread" => wsCode[Place(s)] # None
  /\ pc[s] \in HasWs => wsCode[Place(s)] # None /\ local[s].wcode = wsCode[Place(s)]
  /\ pc[s] = "formReread" => formCode[Target[s]] # None
  /\ pc[s] \in HasForm => formCode[Target[s]] # None /\ local[s].fcode = formCode[Target[s]]
MadeOf(s) ==
  pc[s] = "done" =>
    /\ reference[s] = <<wsCode[Place(s)], formCode[Target[s]], reference[s][3]>>
    /\ reference[s][3] \in 1..seq[Target[s]]
NumbersDistinct ==
  \A s, t \in Given : s # t /\ Target[s] = Target[t] => reference[s][3] # reference[t][3]
Still == moving = NoMove

ShareInv ==
  /\ Typed /\ LettersDistinct /\ WsDistinct /\ Still /\ NumbersDistinct
  /\ \A s \in Submissions : InHand(s) /\ MadeOf(s)

\* Nothing is shared at the start.
LEMMA ShareInit == Init => ShareInv
<1> SUFFICES ASSUME Init PROVE ShareInv
  OBVIOUS
<1>1. Typed
  BY InitTyped
<1>2. LettersDistinct /\ WsDistinct /\ Still /\ NumbersDistinct
  BY DEF Init, LettersDistinct, WsDistinct, Still, NumbersDistinct, Given
<1>3. \A s \in Submissions : InHand(s) /\ MadeOf(s)
  BY DEF Init, InHand, MadeOf, HasWs, HasForm
<1> QED  BY <1>1, <1>2, <1>3 DEF ShareInv

\* A step that neither gives letters nor a number only has to keep its own hand.
LEMMA QuietStep ==
  ASSUME ShareInv, NEW s \in Submissions, UNCHANGED <<wsCode, formCode, home, seq, reference, moving>>,
         Typed', pc' = [pc EXCEPT ![s] = pc'[s]], local' = [local EXCEPT ![s] = local'[s]],
         InHand(s)', pc[s] # "done", pc'[s] # "done"
  PROVE  ShareInv'
<1>1. LettersDistinct' /\ WsDistinct' /\ Still'
  BY DEF ShareInv, LettersDistinct, WsDistinct, Still
<1>2. \A t \in Submissions : t # s => pc'[t] = pc[t] /\ local'[t] = local[t]
  BY DEF ShareInv, Typed, TypeOK
<1>3. Given' = Given
  BY <1>2 DEF Given
<1>4. NumbersDistinct'
  BY <1>3 DEF ShareInv, NumbersDistinct
<1>5. ASSUME NEW t \in Submissions PROVE InHand(t)' /\ MadeOf(t)'
  <2>1. CASE t = s
    BY <2>1 DEF MadeOf
  <2>2. CASE t # s
    BY <2>2, <1>2 DEF ShareInv, InHand, MadeOf, Place
  <2> QED  BY <2>1, <2>2
<1> QED  BY <1>1, <1>4, <1>5 DEF ShareInv

\* A try that is taken again goes on with the same workspace and its letters.
LEMMA AgainKeeps ==
  ASSUME ShareInv, NEW s \in Submissions, NEW probe \in {"wsProbe", "formProbe"}, Again(s, probe),
         pc[s] # "start", probe = "formProbe" => pc[s] \in HasWs
  PROVE  /\ pc' = [pc EXCEPT ![s] = pc'[s]] /\ pc'[s] \in {"failed", probe}
         /\ local' = [local EXCEPT ![s] = local'[s]]
         /\ local'[s].ws = local[s].ws /\ local'[s].wcode = local[s].wcode
<1>1. /\ pc \in [Submissions -> Stages]
      /\ local \in [Submissions -> Locals]
  BY DEF ShareInv, Typed, TypeOK
<1>2. CASE local[s].tries + 1 = Space
  BY <1>1, <1>2 DEF Again, Locals
<1>3. CASE local[s].tries + 1 # Space
  BY <1>1, <1>3 DEF Again, Locals
<1> QED  BY <1>2, <1>3

\* A try that is taken again shares no letters.
LEMMA AgainShare ==
  ASSUME ShareInv, NEW s \in Submissions, NEW probe \in {"wsProbe", "formProbe"}, Again(s, probe),
         pc[s] \in {"wsProbe", "wsClaim", "formProbe", "formClaim"},
         probe = "formProbe" => pc[s] \in HasWs,
         UNCHANGED <<wsCode, formCode, home, seq, reference, moving>>, Typed'
  PROVE  ShareInv'
<1>1. InHand(s)'
  BY AgainKeeps DEF ShareInv, InHand, Place, HasWs, HasForm
<1> QED  BY <1>1, AgainKeeps, QuietStep

\* The steps that give no letters and no number.
LEMMA ReadShare ==
  ASSUME ShareInv, Typed', NEW s \in Submissions,
         Start(s) \/ WsRead(s) \/ WsProbe(s) \/ WsReread(s) \/ FormRead(s) \/ FormProbe(s) \/ FormReread(s)
  PROVE  ShareInv'
<1>0. /\ pc \in [Submissions -> Stages] /\ local \in [Submissions -> Locals]
      /\ InHand(s) /\ UNCHANGED <<wsCode, formCode, home, seq, reference, moving>>
  BY DEF ShareInv, Typed, TypeOK, Start, WsRead, WsProbe, WsReread, FormRead, FormProbe, FormReread, moveVars
<1> DEFINE Own == /\ pc' = [pc EXCEPT ![s] = pc'[s]] /\ local' = [local EXCEPT ![s] = local'[s]]
                  /\ InHand(s)' /\ pc[s] # "done" /\ pc'[s] # "done"
<1>q. Own => ShareInv'
  BY <1>0, QuietStep
<1> USE DEF At, InHand, Place, HasWs, HasForm
<1>1. CASE Start(s)
  <2>1. Own
    BY <1>0, <1>1 DEF Start, Locals
  <2> QED  BY <2>1, <1>q
<1>2. CASE WsRead(s)
  <2>1. pc[s] = "wsRead" /\ local[s].ws = Place(s)
    BY <1>0, <1>2 DEF WsRead
  <2>2. CASE wsCode[Place(s)] # None
    <3>1. Own
      BY <1>0, <1>2, <2>1, <2>2 DEF WsRead, Locals
    <3> QED  BY <3>1, <1>q
  <2>3. CASE wsCode[Place(s)] = None
    <3>1. Own
      BY <1>0, <1>2, <2>1, <2>3 DEF WsRead, Candidate, Locals
    <3> QED  BY <3>1, <1>q
  <2> QED  BY <2>2, <2>3
<1>3. CASE WsProbe(s)
  <2>1. CASE WsTaken(local[s].candidate)
    BY <1>0, <1>3, <2>1, AgainShare DEF WsProbe
  <2>2. CASE ~WsTaken(local[s].candidate)
    <3>1. Own
      BY <1>0, <1>3, <2>2 DEF WsProbe
    <3> QED  BY <3>1, <1>q
  <2> QED  BY <2>1, <2>2
<1>4. CASE WsReread(s)
  <2>1. pc[s] = "wsReread" /\ local[s].ws = Place(s) /\ wsCode[Place(s)] # None
    BY <1>0, <1>4 DEF WsReread
  <2>2. Own
    BY <1>0, <1>4, <2>1 DEF WsReread, Locals
  <2> QED  BY <2>2, <1>q
<1>5. CASE FormRead(s)
  <2>1. /\ pc[s] = "formRead" /\ local[s].ws = Place(s)
        /\ wsCode[Place(s)] # None /\ local[s].wcode = wsCode[Place(s)]
    BY <1>0, <1>5 DEF FormRead
  <2>2. CASE formCode[Target[s]] # None
    <3>1. Own
      BY <1>0, <1>5, <2>1, <2>2 DEF FormRead, Locals
    <3> QED  BY <3>1, <1>q
  <2>3. CASE formCode[Target[s]] = None
    <3>1. Own
      BY <1>0, <1>5, <2>1, <2>3 DEF FormRead, Locals
    <3> QED  BY <3>1, <1>q
  <2> QED  BY <2>2, <2>3
<1>6. CASE FormProbe(s)
  <2>1. CASE FormTaken(local[s].ws, local[s].candidate)
    BY <1>0, <1>6, <2>1, AgainShare DEF FormProbe
  <2>2. CASE ~FormTaken(local[s].ws, local[s].candidate)
    <3>1. Own
      BY <1>0, <1>6, <2>2 DEF FormProbe
    <3> QED  BY <3>1, <1>q
  <2> QED  BY <2>1, <2>2
<1>7. CASE FormReread(s)
  <2>1. /\ pc[s] = "formReread" /\ local[s].ws = Place(s) /\ formCode[Target[s]] # None
        /\ wsCode[Place(s)] # None /\ local[s].wcode = wsCode[Place(s)]
    BY <1>0, <1>7 DEF FormReread
  <2>2. Own
    BY <1>0, <1>7, <2>1 DEF FormReread, Locals
  <2> QED  BY <2>2, <1>q
<1> QED  BY <1>1, <1>2, <1>3, <1>4, <1>5, <1>6, <1>7

\* Letters given to a workspace: nobody there had any, so no hand and no reference changes.
LEMMA WsClaimShare ==
  ASSUME ShareInv, Typed', NEW s \in Submissions, WsClaim(s)
  PROVE  ShareInv'
<1>0. /\ pc \in [Submissions -> Stages] /\ local \in [Submissions -> Locals]
      /\ wsCode \in [Workspaces -> Codes \cup {None}] /\ home \in [Forms -> Workspaces]
      /\ pc[s] = "wsClaim" /\ local[s].ws = Place(s) /\ Place(s) \in Workspaces
      /\ UNCHANGED <<formCode, home, seq, reference, moving>>
      /\ local[s].candidate \in Codes
  BY DEF ShareInv, Typed, TypeOK, WsClaim, InHand, Place, moveVars, Locals
<1>1. CASE wsCode[Place(s)] # None
  <2>1. /\ pc' = [pc EXCEPT ![s] = "wsReread"] /\ UNCHANGED <<wsCode, local>>
    BY <1>0, <1>1 DEF WsClaim, At
  <2>2. InHand(s)' /\ pc' = [pc EXCEPT ![s] = pc'[s]] /\ local' = [local EXCEPT ![s] = local'[s]]
        /\ pc'[s] # "done"
    BY <1>0, <1>1, <2>1 DEF InHand, Place, HasWs, HasForm
  <2> QED  BY <1>0, <2>1, <2>2, QuietStep
<1>2. CASE wsCode[Place(s)] = None /\ WsTaken(local[s].candidate)
  <2>1. Again(s, "wsProbe") /\ UNCHANGED wsCode
    BY <1>0, <1>2 DEF WsClaim
  <2> QED  BY <1>0, <2>1, AgainShare
<1>3. CASE wsCode[Place(s)] = None /\ ~WsTaken(local[s].candidate)
  <2>1. /\ wsCode' = [wsCode EXCEPT ![Place(s)] = local[s].candidate]
        /\ pc' = [pc EXCEPT ![s] = "formRead"]
        /\ local' = [local EXCEPT ![s].wcode = local[s].candidate]
    BY <1>0, <1>3 DEF WsClaim, At
  <2>2. WsDistinct'
    BY <1>0, <1>3, <2>1 DEF ShareInv, WsDistinct, WsTaken
  <2>3. LettersDistinct' /\ Still'
    BY <1>0 DEF ShareInv, LettersDistinct, Still
  <2>4. Given' = Given /\ NumbersDistinct'
    BY <1>0, <2>1 DEF ShareInv, NumbersDistinct, Given
  <2>5. ASSUME NEW t \in Submissions PROVE InHand(t)' /\ MadeOf(t)'
    <3>1. CASE t = s
      <4>1. /\ local'[s].ws = Place(s) /\ local'[s].wcode = local[s].candidate /\ pc'[s] = "formRead"
            /\ wsCode'[Place(s)] = local[s].candidate /\ Place(s)' = Place(s)
        BY <1>0, <2>1 DEF Place, Locals
      <4> QED  BY <3>1, <4>1, <1>0 DEF InHand, MadeOf, HasWs, HasForm
    <3>2. CASE t # s
      <4>1. pc'[t] = pc[t] /\ local'[t] = local[t] /\ Place(t)' = Place(t) /\ Place(t) \in Workspaces
        BY <1>0, <2>1, <3>2 DEF Place
      <4>2. wsCode[Place(t)] # None => wsCode'[Place(t)] = wsCode[Place(t)]
        BY <1>0, <1>3, <2>1, <4>1
      <4>3. pc[t] = "wsReread" \/ pc[t] \in HasWs => wsCode[Place(t)] # None
        BY DEF ShareInv, InHand
      <4>4. pc[t] = "done" => pc[t] \in HasWs
        BY DEF HasWs
      <4>5. InHand(t)'
        BY <1>0, <4>1, <4>2, <4>3 DEF ShareInv, InHand
      <4>6. MadeOf(t)'
        BY <1>0, <4>1, <4>2, <4>3, <4>4 DEF ShareInv, MadeOf
      <4> QED  BY <4>5, <4>6
    <3> QED  BY <3>1, <3>2
  <2> QED  BY <2>2, <2>3, <2>4, <2>5 DEF ShareInv
<1> QED  BY <1>1, <1>2, <1>3

\* Letters given to a form.
LEMMA FormClaimShare ==
  ASSUME ShareInv, Typed', LettersDistinct', NEW s \in Submissions, FormClaim(s)
  PROVE  ShareInv'
<1> DEFINE f == Target[s]
<1>0. /\ pc \in [Submissions -> Stages] /\ local \in [Submissions -> Locals]
      /\ formCode \in [Forms -> Codes \cup {None}] /\ f \in Forms
      /\ pc[s] = "formClaim" /\ local[s].ws = Place(s)
      /\ wsCode[Place(s)] # None /\ local[s].wcode = wsCode[Place(s)]
      /\ UNCHANGED <<wsCode, home, seq, reference, moving>>
      /\ local[s].candidate \in Codes
  BY DEF ShareInv, Typed, TypeOK, FormClaim, InHand, HasWs, moveVars, Locals
<1>1. CASE formCode[f] # None
  <2>1. /\ pc' = [pc EXCEPT ![s] = "formReread"] /\ UNCHANGED <<formCode, local>>
    BY <1>0, <1>1 DEF FormClaim, At
  <2>2. InHand(s)' /\ pc' = [pc EXCEPT ![s] = pc'[s]] /\ local' = [local EXCEPT ![s] = local'[s]]
        /\ pc'[s] # "done"
    BY <1>0, <1>1, <2>1 DEF InHand, Place, HasWs, HasForm
  <2> QED  BY <1>0, <2>1, <2>2, QuietStep
<1>2. CASE formCode[f] = None /\ FormTaken(home[f], local[s].candidate)
  <2>1. Again(s, "formProbe") /\ UNCHANGED formCode
    BY <1>0, <1>2 DEF FormClaim
  <2>2. pc[s] \in HasWs
    BY <1>0 DEF HasWs
  <2> QED  BY <1>0, <2>1, <2>2, AgainShare
<1>3. CASE formCode[f] = None /\ ~FormTaken(home[f], local[s].candidate)
  <2>1. /\ formCode' = [formCode EXCEPT ![f] = local[s].candidate]
        /\ pc' = [pc EXCEPT ![s] = "seq"]
        /\ local' = [local EXCEPT ![s].fcode = local[s].candidate]
    BY <1>0, <1>3 DEF FormClaim, At
  <2>2. WsDistinct' /\ Still'
    BY <1>0 DEF ShareInv, WsDistinct, Still
  <2>4. Given' = Given /\ NumbersDistinct'
    BY <1>0, <2>1 DEF ShareInv, NumbersDistinct, Given
  <2>5. ASSUME NEW t \in Submissions PROVE InHand(t)' /\ MadeOf(t)'
    <3>1. CASE t = s
      <4>1. /\ local'[s].ws = Place(s) /\ local'[s].wcode = wsCode[Place(s)]
            /\ local'[s].fcode = local[s].candidate /\ pc'[s] = "seq"
            /\ formCode'[f] = local[s].candidate /\ Place(s)' = Place(s)
        BY <1>0, <2>1 DEF Place, Locals
      <4> QED  BY <3>1, <4>1, <1>0 DEF InHand, MadeOf, HasWs, HasForm
    <3>2. CASE t # s
      <4>1. pc'[t] = pc[t] /\ local'[t] = local[t] /\ Place(t)' = Place(t) /\ Target[t] \in Forms
        BY <1>0, <2>1, <3>2 DEF Place
      <4>2. formCode[Target[t]] # None => formCode'[Target[t]] = formCode[Target[t]]
        BY <1>0, <1>3, <2>1, <4>1
      <4>3. pc[t] = "formReread" \/ pc[t] \in HasForm => formCode[Target[t]] # None
        BY DEF ShareInv, InHand
      <4>4. pc[t] = "done" => pc[t] \in HasForm
        BY DEF HasForm
      <4>5. InHand(t)'
        BY <1>0, <4>1, <4>2, <4>3 DEF ShareInv, InHand
      <4>6. MadeOf(t)'
        BY <1>0, <4>1, <4>2, <4>3, <4>4 DEF ShareInv, MadeOf
      <4> QED  BY <4>5, <4>6
    <3> QED  BY <3>1, <3>2
  <2> QED  BY <2>2, <2>4, <2>5 DEF ShareInv
<1> QED  BY <1>1, <1>2, <1>3

\* A number is handed out: higher than every number the form has given before.
LEMMA NextSeqShare ==
  ASSUME ShareInv, Typed', NEW s \in Submissions, NextSeq(s)
  PROVE  ShareInv'
<1> DEFINE f == Target[s]
<1>0. /\ pc \in [Submissions -> Stages] /\ seq \in [Forms -> Nat] /\ f \in Forms
      /\ reference \in [Submissions -> (Codes \cup {None}) \X (Codes \cup {None}) \X Nat]
      /\ pc[s] = "seq" /\ InHand(s)
      /\ pc' = [pc EXCEPT ![s] = "done"] /\ seq' = [seq EXCEPT ![f] = seq[f] + 1]
      /\ reference' = [reference EXCEPT ![s] = <<local[s].wcode, local[s].fcode, seq[f] + 1>>]
      /\ UNCHANGED <<wsCode, formCode, home, local, moving>>
  BY DEF ShareInv, Typed, TypeOK, NextSeq, At, moveVars
<1>1. LettersDistinct' /\ WsDistinct' /\ Still'
  BY <1>0 DEF ShareInv, LettersDistinct, WsDistinct, Still
<1>2. reference'[s] = <<wsCode[Place(s)], formCode[f], seq[f] + 1>> /\ reference'[s][3] = seq[f] + 1
  BY <1>0 DEF InHand, HasWs, HasForm
<1>3. \A t \in Submissions : t # s => pc'[t] = pc[t] /\ reference'[t] = reference[t]
  BY <1>0
<1>4. Given' = Given \cup {s} /\ s \notin Given
  BY <1>0, <1>3 DEF Given
<1>5. \A t \in Given : reference[t][3] \in 1..seq[Target[t]] /\ Target[t] \in Forms
  BY DEF ShareInv, MadeOf, Given
<1>6. \A t \in Given : Target[t] = f => reference[t][3] # seq[f] + 1
  BY <1>0, <1>5
<1>7. NumbersDistinct'
  BY <1>0, <1>2, <1>3, <1>4, <1>6 DEF ShareInv, NumbersDistinct, Given
<1>8. ASSUME NEW t \in Submissions PROVE InHand(t)' /\ MadeOf(t)'
  <2>1. CASE t = s
    <3>1. InHand(s)'
      BY <1>0 DEF InHand, Place, HasWs, HasForm
    <3>2. seq[f] + 1 \in 1..seq'[f]
      BY <1>0
    <3>3. MadeOf(s)'
      BY <1>0, <1>2, <3>2 DEF MadeOf, Place
    <3> QED  BY <2>1, <3>1, <3>3
  <2>2. CASE t # s
    <3>1. pc'[t] = pc[t] /\ reference'[t] = reference[t] /\ Target[t] \in Forms
      BY <1>3, <2>2
    <3>2. InHand(t)'
      BY <1>0, <3>1 DEF ShareInv, InHand, Place
    <3>3. \A n : n \in 1..seq[Target[t]] => n \in 1..seq'[Target[t]]
      BY <1>0, <3>1
    <3>4. MadeOf(t)'
      BY <1>0, <3>1, <3>3 DEF ShareInv, MadeOf, Place
    <3> QED  BY <3>2, <3>4
  <2> QED  BY <2>1, <2>2
<1> QED  BY <1>1, <1>7, <1>8 DEF ShareInv

\* Once a form has begun to move nothing is claimed any more.
UnmovedInv == moves = 0 => ShareInv

\* Every step before the first move keeps the letters apart.
LEMMA ShareNext ==
  ASSUME Typed, UnmovedInv, [Next]_vars
  PROVE  UnmovedInv'
<1> SUFFICES ASSUME moves' = 0 PROVE ShareInv'
  BY DEF UnmovedInv
<1>0. /\ moves \in Nat /\ Typed'
      /\ ~(\E f \in Forms, w \in Workspaces : BeginMove(f, w))
  BY NextTyped DEF Typed, TypeOK, BeginMove
<1>1. CASE \E s \in Submissions : Step(s)
  <2>1. PICK s \in Submissions : Step(s)
    BY <1>1
  <2>2. moves = 0
    BY <2>1 DEF Step, Start, WsRead, WsProbe, WsClaim, WsReread, FormRead, FormProbe, FormClaim,
                FormReread, NextSeq, moveVars
  <2>3. ShareInv /\ LettersDistinct'
    BY <2>1, <2>2, StepLetters DEF UnmovedInv, ShareInv
  <2> QED  BY <1>0, <2>1, <2>3, ReadShare, WsClaimShare, FormClaimShare, NextSeqShare DEF Step
<1>3. CASE EndMove
  BY <1>3 DEF EndMove, UnmovedInv, ShareInv, Still
<1>4. CASE UNCHANGED vars
  <2>0. ShareInv
    BY <1>4 DEF vars, UnmovedInv
  <2>1. LettersDistinct' /\ WsDistinct' /\ Still' /\ NumbersDistinct'
    BY <1>4, <2>0 DEF vars, moveVars, ShareInv, LettersDistinct, WsDistinct, Still, NumbersDistinct, Given
  <2>2. \A t \in Submissions : InHand(t)' /\ MadeOf(t)'
    BY <1>4, <2>0 DEF vars, ShareInv, InHand, MadeOf, Place
  <2> QED  BY <1>0, <2>1, <2>2 DEF ShareInv
<1> QED  BY <1>0, <1>1, <1>3, <1>4 DEF Next

\* References differ: in the number for one form, in the form's letters within a
\* workspace, in the workspace's letters otherwise.
LEMMA ShareUnique == ShareInv => NoTwoShare
<1> SUFFICES ASSUME ShareInv, NEW s \in Given, NEW t \in Given, s # t, reference[s] = reference[t]
             PROVE  FALSE
  BY DEF NoTwoShare
<1>1. /\ MadeOf(s) /\ MadeOf(t) /\ InHand(s) /\ InHand(t) /\ pc[s] = "done" /\ pc[t] = "done"
      /\ Target[s] \in Forms /\ Target[t] \in Forms
      /\ Place(s) \in Workspaces /\ Place(t) \in Workspaces
  BY DEF ShareInv, Given, Typed, TypeOK, Place
<1>2. wsCode[Place(s)] = wsCode[Place(t)] /\ formCode[Target[s]] = formCode[Target[t]]
  BY <1>1 DEF MadeOf
<1>3. wsCode[Place(s)] # None /\ formCode[Target[s]] # None
  BY <1>1 DEF InHand, HasWs, HasForm
<1>4. Place(s) = Place(t)
  BY <1>1, <1>2, <1>3 DEF ShareInv, WsDistinct
<1>5. Target[s] = Target[t]
  BY <1>1, <1>2, <1>3, <1>4 DEF ShareInv, LettersDistinct, Place
<1> QED  BY <1>5 DEF ShareInv, NumbersDistinct

\* What an allocation claims holds from the start to the first move.
LEMMA UnmovedKept == Spec => []UnmovedInv
<1>1. Init => Typed /\ UnmovedInv
  BY InitTyped, ShareInit DEF UnmovedInv
<1>2. Typed /\ UnmovedInv /\ [Next]_vars => Typed' /\ UnmovedInv'
  BY NextTyped, ShareNext
<1> QED  BY <1>1, <1>2, PTL DEF Spec

\* reference.service.ts: no two responses share a reference, for any number of racing
\* submissions, forms and workspaces, until a form begins to move.
THEOREM UnmovedNeverShare == Spec => []SharedOnlyAfterMove
<1>1. UnmovedInv => SharedOnlyAfterMove
  BY ShareUnique DEF UnmovedInv, SharedOnlyAfterMove
<1> QED  BY <1>1, UnmovedKept, PTL
-----------------------------------------------------------------------------
(* The letters of a form, while forms move. *)

\* Whoever has letters in hand has the form's, and a form with letters keeps them.
LettersInv ==
  \A s \in Submissions :
    /\ pc[s] \in {"formReread", "seq", "done"} => formCode[Target[s]] # None
    /\ pc[s] \in HasForm => local[s].fcode = formCode[Target[s]]
    /\ pc[s] = "done" => reference[s][2] = formCode[Target[s]]

\* An allocation only gives letters to a form that has none.
LEMMA CodesStay ==
  ASSUME Typed, NEW s \in Submissions, Step(s), NEW f \in Forms, formCode[f] # None
  PROVE  formCode'[f] = formCode[f]
BY DEF Typed, TypeOK, Step, Start, WsRead, WsProbe, WsClaim, WsReread, FormRead, FormProbe, FormClaim,
       FormReread, NextSeq

\* An allocation leaves the others where they are.
LEMMA OthersStay ==
  ASSUME Typed, NEW s \in Submissions, Step(s), NEW t \in Submissions, t # s
  PROVE  pc'[t] = pc[t] /\ local'[t] = local[t] /\ reference'[t] = reference[t]
BY DEF Typed, TypeOK, Step, Start, WsRead, WsProbe, WsClaim, WsReread, FormRead, FormProbe, FormClaim,
       FormReread, NextSeq, At, Again, Candidate

\* What the stepping allocation has in hand afterwards.
LEMMA OwnLetters ==
  ASSUME Typed, LettersInv, NEW s \in Submissions, Step(s)
  PROVE  /\ pc'[s] \in {"formReread", "seq", "done"} => formCode'[Target[s]] # None
         /\ pc'[s] \in HasForm => local'[s].fcode = formCode'[Target[s]]
         /\ pc'[s] = "done" => reference'[s][2] = formCode'[Target[s]]
<1>0. /\ pc \in [Submissions -> Stages] /\ local \in [Submissions -> Locals]
      /\ formCode \in [Forms -> Codes \cup {None}] /\ Target[s] \in Forms
      /\ reference \in [Submissions -> (Codes \cup {None}) \X (Codes \cup {None}) \X Nat]
  BY DEF Typed, TypeOK
<1>1. CASE Start(s) \/ WsRead(s) \/ WsProbe(s) \/ WsClaim(s) \/ WsReread(s) \/ FormProbe(s)
  BY <1>0, <1>1 DEF Start, WsRead, WsProbe, WsClaim, WsReread, FormProbe, At, Again, HasForm
<1>2. CASE FormRead(s)
  BY <1>0, <1>2 DEF FormRead, At, HasForm, Locals
<1>3. CASE FormClaim(s)
  <2>1. local[s].candidate \in Codes /\ None \notin Codes
    BY <1>0 DEF Locals
  <2>2. CASE formCode[Target[s]] # None
    BY <1>0, <1>3, <2>2 DEF FormClaim, At, HasForm
  <2>3. CASE formCode[Target[s]] = None /\ FormTaken(home[Target[s]], local[s].candidate)
    BY <1>0, <1>3, <2>3 DEF FormClaim, Again, HasForm
  <2>4. CASE formCode[Target[s]] = None /\ ~FormTaken(home[Target[s]], local[s].candidate)
    BY <1>0, <1>3, <2>1, <2>4 DEF FormClaim, At, HasForm, Locals
  <2> QED  BY <2>2, <2>3, <2>4
<1>4. CASE FormReread(s)
  BY <1>0, <1>4 DEF FormReread, At, HasForm, LettersInv, Locals
<1>5. CASE NextSeq(s)
  <2>1. reference'[s] = <<local[s].wcode, local[s].fcode, seq[Target[s]] + 1>>
    BY <1>0, <1>5 DEF NextSeq
  <2> QED  BY <1>0, <1>5, <2>1 DEF NextSeq, At, HasForm, LettersInv
<1> QED  BY <1>1, <1>2, <1>3, <1>4, <1>5 DEF Step

\* reference.service.ts: the letters of a form are fixed by its first response: every
\* reference carries them, however many raced for them and wherever the form moved.
THEOREM FormLettersFixed == Spec => []LettersFixed
<1>1. Init => Typed /\ LettersInv
  BY InitTyped DEF Init, LettersInv, HasForm
<1>2. Typed /\ LettersInv /\ [Next]_vars => Typed' /\ LettersInv'
  <2> SUFFICES ASSUME Typed, LettersInv, [Next]_vars PROVE LettersInv'
    BY NextTyped
  <2>1. ASSUME NEW s \in Submissions, Step(s) PROVE LettersInv'
    <3> SUFFICES ASSUME NEW t \in Submissions
                 PROVE  /\ pc'[t] \in {"formReread", "seq", "done"} => formCode'[Target[t]] # None
                        /\ pc'[t] \in HasForm => local'[t].fcode = formCode'[Target[t]]
                        /\ pc'[t] = "done" => reference'[t][2] = formCode'[Target[t]]
      BY DEF LettersInv
    <3>1. CASE t = s
      BY <2>1, <3>1, OwnLetters
    <3>2. CASE t # s
      BY <2>1, <3>2, OthersStay, CodesStay DEF LettersInv, HasForm
    <3> QED  BY <3>1, <3>2
  <2>2. CASE (\E f \in Forms, w \in Workspaces : BeginMove(f, w)) \/ EndMove
    BY <2>2 DEF BeginMove, EndMove, LettersInv
  <2>3. CASE UNCHANGED vars
    BY <2>3 DEF vars, LettersInv
  <2> QED  BY <2>1, <2>2, <2>3 DEF Next
<1>3. LettersInv /\ UnmovedInv => LettersFixed
  <2> SUFFICES ASSUME LettersInv, UnmovedInv, NEW s \in Given
               PROVE  /\ reference[s][2] = formCode[Target[s]]
                      /\ moves = 0 => reference[s][1] = wsCode[home[Target[s]]]
    BY DEF LettersFixed
  <2>1. reference[s][2] = formCode[Target[s]]
    BY DEF LettersInv, Given
  <2>2. ASSUME moves = 0 PROVE reference[s][1] = wsCode[home[Target[s]]]
    <3>1. reference[s] = <<wsCode[Place(s)], formCode[Target[s]], reference[s][3]>>
      BY <2>2 DEF UnmovedInv, ShareInv, MadeOf, Given
    <3> QED  BY <3>1 DEF Place
  <2> QED  BY <2>1, <2>2
<1> QED  BY <1>1, <1>2, <1>3, UnmovedKept, PTL DEF Spec

-----------------------------------------------------------------------------
(* Submission.                                                              *)

\* The proofs of FormIntake are with those of FormDesk, here a desk without stages.
Pipe == INSTANCE FormDeskProofs WITH
  pc <- at, part <- "edits", Rivals <- {},
  StageIds <- {}, Responses <- {}, Handlers <- {}, Categories <- {0}, First <- 0, Kinds <- {}, Nothing <- 1,
  MaxHandled <- 0, MaxCrashes <- 0,
  stage <- <<>>, resp <- <<>>, version <- 0, req <- <<>>, raced <- FALSE, refused <- FALSE, begun <- 0, crashes <- 0

\* Such a desk is as FormDesk assumes it.
LEMMA DeskWithoutStages == Pipe!Sorting!StagesAssumption
<1>1. IsFiniteSet({}) /\ IsFiniteSet({0})
  BY FS_EmptySet, FS_Singleton
<1>2. \A set : Pipe!Sorting!IsFiniteSet(set) <=> IsFiniteSet(set)
  BY DEF Pipe!Sorting!IsFiniteSet, IsFiniteSet
<1> QED  BY <1>1, <1>2 DEF Pipe!Sorting!StagesAssumption

\* Both readings of FormIntake count alike and know the same documents and requests.
LEMMA SameData ==
  /\ \A set : Pipe!Cardinality(set) = Intake!Cardinality(set)
  /\ Pipe!Count = Intake!Count
  /\ Pipe!FormDocs = Intake!FormDocs /\ Pipe!Statuses = Intake!Statuses
  /\ Pipe!Controls = Intake!Controls /\ Pipe!Answers = Intake!Answers
  /\ Pipe!Blank = Intake!Blank /\ Pipe!NoEdit = Intake!NoEdit
  /\ Pipe!Accepted = Intake!Accepted /\ Pipe!InFlight = Intake!InFlight
<1>1. \A set : Pipe!Cardinality(set) = Intake!Cardinality(set)
  BY DEF Pipe!Cardinality, Intake!Cardinality
<1>2. Pipe!Count = Intake!Count
  BY <1>1 DEF Pipe!Count, Intake!Count
<1>3. /\ Pipe!Statuses = Intake!Statuses /\ Pipe!FormDocs = Intake!FormDocs
      /\ Pipe!Controls = Intake!Controls /\ Pipe!Answers = Intake!Answers
  BY DEF Pipe!Statuses, Intake!Statuses, Pipe!FormDocs, Intake!FormDocs, Pipe!Controls, Intake!Controls,
         Pipe!Answers, Intake!Answers, Pipe!Reasons, Intake!Reasons
<1>4. Pipe!Blank = Intake!Blank /\ Pipe!NoEdit = Intake!NoEdit
  BY DEF Pipe!Blank, Intake!Blank, Pipe!NoEdit, Intake!NoEdit
<1>5. Pipe!Accepted = Intake!Accepted /\ Pipe!InFlight = Intake!InFlight
  BY DEF Pipe!Accepted, Intake!Accepted, Pipe!InFlight, Intake!InFlight
<1> QED  BY <1>1, <1>2, <1>3, <1>4, <1>5

\* A step of a request is the same step in both.
LEMMA SameRequestStep ==
  ASSUME NEW r
  PROVE  Intake!Arrive(r) \/ Intake!Step(r) \/ Intake!Fail(r) => Pipe!Arrive(r) \/ Pipe!Step(r) \/ Pipe!Fail(r)
<1> USE DEF Pipe!DataUnchanged, Intake!DataUnchanged, Pipe!OthersUnchanged, Intake!OthersUnchanged,
            Pipe!editVars, Intake!editVars, Pipe!Goto, Intake!Goto, Pipe!Finish, Intake!Finish,
            Pipe!EnterGate, Intake!EnterGate, Pipe!Blank, Intake!Blank
<1>1. /\ Intake!Arrive(r) => Pipe!Arrive(r)
      /\ Intake!Look(r) => Pipe!Look(r)
      /\ Intake!OverCeiling(r) => Pipe!OverCeiling(r)
      /\ Intake!Honeypot(r) => Pipe!Honeypot(r)
      /\ Intake!Prepare(r) => Pipe!Prepare(r)
      /\ Intake!Validate(r) => Pipe!Validate(r)
  BY DEF Pipe!Arrive, Intake!Arrive, Pipe!Look, Intake!Look, Pipe!OverCeiling, Intake!OverCeiling,
         Pipe!Honeypot, Intake!Honeypot, Pipe!Prepare, Intake!Prepare, Pipe!Validate, Intake!Validate
<1>2. Intake!Judge(r) => Pipe!Judge(r)
  <2>1. Pipe!Reasons = Intake!Reasons /\ (Pipe!Concealed(r) <=> Intake!Concealed(r))
    BY DEF Pipe!Reasons, Intake!Reasons, Pipe!Concealed, Intake!Concealed
  <2>2. \A doc, why : Pipe!Closed(doc, why) <=> Intake!Closed(doc, why)
    BY SameData DEF Pipe!Closed, Intake!Closed, Pipe!DatePassed, Intake!DatePassed, Pipe!LimitFull,
                    Intake!LimitFull
  <2> QED  BY <2>1, <2>2 DEF Pipe!Judge, Intake!Judge
<1>3. /\ Intake!Shut(r) => Pipe!Shut(r)
      /\ Intake!Allocate(r) => Pipe!Allocate(r)
      /\ Intake!Create(r) => Pipe!Create(r)
      /\ Intake!Undo(r) => Pipe!Undo(r)
      /\ Intake!UndoClose(r) => Pipe!UndoClose(r)
      /\ Intake!Fill(r) => Pipe!Fill(r)
      /\ Intake!Reply(r) => Pipe!Reply(r)
  BY DEF Pipe!Shut, Intake!Shut, Pipe!Allocate, Intake!Allocate, Pipe!Create, Intake!Create, Pipe!Undo,
         Intake!Undo, Pipe!UndoClose, Intake!UndoClose, Pipe!Fill, Intake!Fill, Pipe!Reply, Intake!Reply
<1>4. Intake!Recount(r) => Pipe!Recount(r)
  BY SameData DEF Pipe!Recount, Intake!Recount
<1>5. Intake!Fail(r) => Pipe!Fail(r)
  BY SameData DEF Pipe!Fail, Intake!Fail
<1> QED  BY <1>1, <1>2, <1>3, <1>4, <1>5 DEF Pipe!Step, Intake!Step

\* So is a step of an editor, of the clock, of the sweep or of the owner.
LEMMA SameOtherStep ==
  /\ \A r : Intake!PurgeResponse(r) => Pipe!PurgeResponse(r)
  /\ \A e : Intake!BeginEdit(e) \/ Intake!CommitEdit(e) => Pipe!BeginEdit(e) \/ Pipe!CommitEdit(e)
  /\ Intake!RestoreForm \/ Intake!Tick \/ Intake!SweepFinds \/ Intake!SweepCloses
       => Pipe!RestoreForm \/ Pipe!Tick \/ Pipe!SweepFinds \/ Pipe!SweepCloses
<1> USE DEF Pipe!DataUnchanged, Intake!DataUnchanged, Pipe!requestVars, Intake!requestVars,
            Pipe!editVars, Intake!editVars
<1>1. \A r : Intake!PurgeResponse(r) => Pipe!PurgeResponse(r)
  BY DEF Pipe!PurgeResponse, Intake!PurgeResponse
<1>2. \A e : Intake!BeginEdit(e) => Pipe!BeginEdit(e)
  BY SameData DEF Pipe!BeginEdit, Intake!BeginEdit, Pipe!Decide, Intake!Decide, Pipe!SetStatus, Intake!SetStatus,
     Pipe!GoLive, Intake!GoLive, Pipe!Settings, Intake!Settings, Pipe!SetArchived, Intake!SetArchived,
     Pipe!Trash, Intake!Trash
<1>3. \A e : Intake!CommitEdit(e) => Pipe!CommitEdit(e)
  BY SameData DEF Pipe!CommitEdit, Intake!CommitEdit, Pipe!Merge, Intake!Merge
<1>4. Intake!RestoreForm \/ Intake!Tick \/ Intake!SweepFinds \/ Intake!SweepCloses
       => Pipe!RestoreForm \/ Pipe!Tick \/ Pipe!SweepFinds \/ Pipe!SweepCloses
  BY DEF Pipe!RestoreForm, Intake!RestoreForm, Pipe!Tick, Intake!Tick, Pipe!SweepFinds, Intake!SweepFinds,
         Pipe!SweepCloses, Intake!SweepCloses, Pipe!DatePassed, Intake!DatePassed
<1> QED  BY <1>1, <1>2, <1>3, <1>4

\* And so is what is remembered of it.
LEMMA SameMemory == Intake!Remember => Pipe!Remember
<1>1. \A e : Pipe!Chooses(e) <=> Intake!Chooses(e)
  BY SameData DEF Pipe!Chooses, Intake!Chooses, Pipe!CommitEdit, Intake!CommitEdit, Pipe!Merge, Intake!Merge,
                  Pipe!requestVars, Intake!requestVars
<1>2. Pipe!Open(form)' <=> Intake!Open(form)'
  BY DEF Pipe!Open, Intake!Open, Pipe!DatePassed, Intake!DatePassed
<1>3. Pipe!InFlight = Intake!InFlight /\ Pipe!InFlight' = Intake!InFlight'
  BY DEF Pipe!InFlight, Intake!InFlight
<1> QED  BY <1>1, <1>2, <1>3 DEF Pipe!Remember, Intake!Remember

\* What Submission lets the pipeline do, FormIntake does.
LEMMA PipeRuns == SubmissionSpec => Pipe!Spec
<1>1. Intake!Init => Pipe!Init
  BY DEF Pipe!Init, Intake!Init, Pipe!Blank, Intake!Blank, Pipe!NoEdit, Intake!NoEdit
<1>2. Intake!Next => Pipe!Next
  BY SameRequestStep, SameOtherStep, SameMemory DEF Pipe!Next, Intake!Next
<1>3. UNCHANGED intakeOnly => UNCHANGED Pipe!vars
  BY DEF intakeOnly, Pipe!vars, Pipe!requestVars, Pipe!editVars
<1>4. [SubmissionNext]_submissionVars => [Pipe!Next]_(Pipe!vars)
  BY <1>2, <1>3 DEF SubmissionNext, Pipeline, Lettering, submissionVars
<1>5. SubmissionInit => Pipe!Init
  BY <1>1 DEF SubmissionInit
<1> QED  BY <1>4, <1>5, PTL DEF SubmissionSpec, Pipe!Spec

\* What Submission lets the letters do, References does.
LEMMA LettersRun == SubmissionSpec => Spec
<1>1. [SubmissionNext]_submissionVars => [Next]_vars
  BY DEF SubmissionNext, Pipeline, Lettering, submissionVars
<1>2. SubmissionInit => Init
  BY DEF SubmissionInit
<1> QED  BY <1>1, <1>2, PTL DEF SubmissionSpec, Spec
-----------------------------------------------------------------------------
\* Whatever races, dies, is edited or moved: everything is of its type, the accepted
\* responses fit a limit the form has carried, no number is given twice, nothing refused
\* stays behind, and the letters of a form are those its first response got.
THEOREM SafeAlways == SubmissionSpec => []SubmissionSafe
<1>1. Pipe!Spec => [](Pipe!TypeOK /\ Pipe!AcceptedWithinLimit /\ Pipe!NumbersUnique /\ Pipe!OnlyAcceptedRemain)
  <2>1. Pipe!Spec => []Pipe!TypeOK
    BY Pipe!TypeCorrect, SubmissionAssumption, DeskWithoutStages
  <2>2. Pipe!Spec => []Pipe!AcceptedWithinLimit
    BY Pipe!LimitHolds, SubmissionAssumption, DeskWithoutStages
  <2>3. Pipe!Spec => []Pipe!NumbersUnique
    BY Pipe!NumbersHold, SubmissionAssumption, DeskWithoutStages
  <2>4. Pipe!Spec => []Pipe!OnlyAcceptedRemain
    BY Pipe!RemainHolds, SubmissionAssumption, DeskWithoutStages
  <2> QED  BY <2>1, <2>2, <2>3, <2>4, PTL
<1>2. Pipe!TypeOK => Intake!TypeOK
  BY SameData DEF Pipe!TypeOK, Intake!TypeOK, Pipe!Fields, Intake!Fields
<1>3. Pipe!AcceptedWithinLimit => Intake!AcceptedWithinLimit
  BY SameData DEF Pipe!AcceptedWithinLimit, Intake!AcceptedWithinLimit
<1>4. Pipe!NumbersUnique => Intake!NumbersUnique
  BY SameData DEF Pipe!NumbersUnique, Intake!NumbersUnique
<1>5. Pipe!OnlyAcceptedRemain => Intake!OnlyAcceptedRemain
  BY SameData DEF Pipe!OnlyAcceptedRemain, Intake!OnlyAcceptedRemain
<1>6. /\ Pipe!TypeOK /\ Pipe!AcceptedWithinLimit /\ Pipe!NumbersUnique /\ Pipe!OnlyAcceptedRemain
      /\ TypeOK /\ LettersFixed
      => SubmissionSafe
  BY <1>2, <1>3, <1>4, <1>5 DEF SubmissionSafe
<1> QED  BY <1>1, <1>6, PipeRuns, LettersRun, TypesHold, FormLettersFixed, PTL

\* Every step of a submission, and of everybody else, is one the contract of the form
\* knows: it accepts, refuses, removes, sets the limit, or does nothing.
THEOREM ContractKept == SubmissionSpec => ImplementsContract
<1>1. Pipe!Spec => Pipe!ImplementsContract
  BY Pipe!ContractHolds, SubmissionAssumption, DeskWithoutStages
<1>2. /\ Pipe!Visitors = Intake!Visitors /\ Pipe!Verdict = Intake!Verdict
      /\ Pipe!Accepted = Intake!Accepted
  BY DEF Pipe!Visitors, Intake!Visitors, Pipe!Verdict, Intake!Verdict, Pipe!Accepted, Intake!Accepted
<1>3. Pipe!Contract!Init => Intake!Contract!Init
  <2>1. \A set : Pipe!Contract!Cardinality(set) = Intake!Contract!Cardinality(set)
    BY DEF Pipe!Contract!Cardinality, Intake!Contract!Cardinality
  <2> QED  BY <1>2, <2>1 DEF Pipe!Contract!Init, Intake!Contract!Init
<1>4. [Pipe!Contract!Next]_(Pipe!Contract!vars) => [Intake!Contract!Next]_(Intake!Contract!vars)
  <2>1. Pipe!Verdict' = Intake!Verdict' /\ Pipe!Accepted' = Intake!Accepted'
    BY DEF Pipe!Visitors, Intake!Visitors, Pipe!Verdict, Intake!Verdict, Pipe!Accepted, Intake!Accepted
  <2>2. \A set : Pipe!Contract!Fits(set) <=> Intake!Contract!Fits(set)
    <3>1. \A set : Pipe!Contract!Cardinality(set) = Intake!Contract!Cardinality(set)
      BY DEF Pipe!Contract!Cardinality, Intake!Contract!Cardinality
    <3> QED  BY <3>1 DEF Pipe!Contract!Fits, Intake!Contract!Fits
  <2>3. \A v : Pipe!Contract!Accept(v) => Intake!Contract!Accept(v)
    BY <1>2, <2>1, <2>2 DEF Pipe!Contract!Accept, Intake!Contract!Accept
  <2>4. \A v : Pipe!Contract!Refuse(v) \/ Pipe!Contract!Remove(v) => Intake!Contract!Refuse(v) \/ Intake!Contract!Remove(v)
    BY <1>2, <2>1 DEF Pipe!Contract!Refuse, Intake!Contract!Refuse, Pipe!Contract!Remove, Intake!Contract!Remove
  <2>5. Pipe!Contract!SetLimit => Intake!Contract!SetLimit
    BY <1>2, <2>1 DEF Pipe!Contract!SetLimit, Intake!Contract!SetLimit
  <2>6. UNCHANGED Pipe!Contract!vars => UNCHANGED Intake!Contract!vars
    BY <1>2, <2>1 DEF Pipe!Contract!vars, Intake!Contract!vars
  <2> QED  BY <1>2, <2>3, <2>4, <2>5, <2>6 DEF Pipe!Contract!Next, Intake!Contract!Next
<1> QED  BY <1>1, <1>3, <1>4, PipeRuns, PTL DEF ImplementsContract, Pipe!ImplementsContract, Intake!ImplementsContract,
         Pipe!Contract!Spec, Intake!Contract!Spec

=============================================================================
