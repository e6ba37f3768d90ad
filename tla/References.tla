----------------------------- MODULE References -----------------------------
(***************************************************************************)
(* How a response gets its reference, KALCUS0042: the workspace's letters, *)
(* the form's letters and the form's running number.  Both codes are given *)
(* on first use by a probe and a conditional write under a unique index;   *)
(* submissions of several forms do this at the same time, in any order,    *)
(* while forms may be moved between workspaces.                            *)
(*                                                                         *)
(* Codes are 0..Space-1; the letters of a name are its preferred code.     *)
(***************************************************************************)
EXTENDS Naturals, FiniteSets

CONSTANTS
  Workspaces, Forms,
  Submissions,    (* responses that will be given a reference              *)
  Prefers,        (* the code the letters of each name spell               *)
  Home,           (* the workspace each form is created in                 *)
  Target,         (* the form each submission answers                      *)
  Space,          (* CODE_SPACE                                            *)
  None,
  MaxMoves        (* bound: how often forms are moved                      *)

Codes == 0..(Space - 1)

ASSUME ReferencesAssumption ==
  /\ Workspaces \cap Forms = {}
  /\ Prefers \in [Workspaces \cup Forms -> Codes]
  /\ Home \in [Forms -> Workspaces] /\ Target \in [Submissions -> Forms]
  /\ Space \in Nat \ {0} /\ None \notin Codes /\ MaxMoves \in Nat

Stages == {"start", "wsRead", "wsProbe", "wsClaim", "wsReread", "formRead", "formProbe",
           "formClaim", "formReread", "seq", "done", "failed"}

Locals == [ws: Workspaces \cup {None}, candidate: Codes, tries: 0..(Space - 1),
           wcode: Codes \cup {None}, fcode: Codes \cup {None}]

VARIABLES
  wsCode,      (* Workspace.refCode                                        *)
  formCode,    (* Form.refCode                                             *)
  home,        (* Form.workspaceId                                         *)
  seq,         (* FormReferenceCounter.seq of each form                    *)
  pc,          (* where each allocation is                                 *)
  local,       (* its workspace, candidate code, tries, and the two codes  *)
  reference,   (* what it returned                                         *)
  shared,      (* forms with FormAccessGrants                              *)
  moving,      (* the move under way: form and destination                 *)
  moves

vars == <<wsCode, formCode, home, seq, pc, local, reference, shared, moving, moves>>
moveVars == <<shared, moving, moves>>

Blank == [ws |-> None, candidate |-> 0, tries |-> 0, wcode |-> None, fcode |-> None]
NoMove == [form |-> None, to |-> None]
NoReference == <<None, None, 0>>

Init ==
  /\ wsCode = [w \in Workspaces |-> None]
  /\ formCode = [f \in Forms |-> None]
  /\ home = Home
  /\ seq = [f \in Forms |-> 0]
  /\ pc = [s \in Submissions |-> "start"]
  /\ local = [s \in Submissions |-> Blank]
  /\ reference = [s \in Submissions |-> NoReference]
  /\ shared \in SUBSET Forms
  /\ moving = NoMove /\ moves = 0

\* Variant: the same letters are tried again.
NextSame(code) == code
\* Variant: counting runs past the last letter.
NextPastEnd(code) == code + 1

\* The letters after these, counting in base 26.
NextCode(code) == (code + 1) % Space

At(s, from, to) == pc[s] = from /\ pc' = [pc EXCEPT ![s] = to]
Candidate(s, code) == local' = [local EXCEPT ![s].candidate = code, ![s].tries = 0]

\* allocateReference reads which workspace the form is in.
Start(s) ==
  /\ At(s, "start", "wsRead")
  /\ local' = [local EXCEPT ![s].ws = home[Target[s]]]
  /\ UNCHANGED <<wsCode, formCode, home, seq, reference, moveVars>>
-----------------------------------------------------------------------------
(* ensureWorkspaceCode *)

WsRead(s) ==
  LET w == local[s].ws
  IN /\ pc[s] = "wsRead"
     /\ \/ /\ wsCode[w] # None
           /\ At(s, "wsRead", "formRead") /\ local' = [local EXCEPT ![s].wcode = wsCode[w]]
        \/ /\ wsCode[w] = None
           /\ At(s, "wsRead", "wsProbe") /\ Candidate(s, Prefers[w])
     /\ UNCHANGED <<wsCode, formCode, home, seq, reference, moveVars>>

\* Another round of the loop with the next letters, until all were tried.
Again(s, probe) ==
  IF local[s].tries + 1 = Space
  THEN /\ pc' = [pc EXCEPT ![s] = "failed"]
       /\ UNCHANGED local
  ELSE /\ pc' = [pc EXCEPT ![s] = probe]
       /\ local' = [local EXCEPT ![s].candidate = NextCode(local[s].candidate), ![s].tries = @ + 1]

WsTaken(code) == \E w \in Workspaces : wsCode[w] = code

WsProbe(s) ==
  /\ pc[s] = "wsProbe"
  /\ IF WsTaken(local[s].candidate) THEN Again(s, "wsProbe")
     ELSE At(s, "wsProbe", "wsClaim") /\ UNCHANGED local
  /\ UNCHANGED <<wsCode, formCode, home, seq, reference, moveVars>>

\* The conditional update: somebody was first, the index refuses, or it is ours.
WsClaim(s) ==
  LET w == local[s].ws
      code == local[s].candidate
  IN /\ pc[s] = "wsClaim"
     /\ \/ /\ wsCode[w] # None
           /\ At(s, "wsClaim", "wsReread") /\ UNCHANGED <<wsCode, local>>
        \/ /\ wsCode[w] = None /\ WsTaken(code)
           /\ Again(s, "wsProbe") /\ UNCHANGED wsCode
        \/ /\ wsCode[w] = None /\ ~WsTaken(code)
           /\ wsCode' = [wsCode EXCEPT ![w] = code]
           /\ At(s, "wsClaim", "formRead") /\ local' = [local EXCEPT ![s].wcode = code]
     /\ UNCHANGED <<formCode, home, seq, reference, moveVars>>

WsReread(s) ==
  /\ At(s, "wsReread", "formRead")
  /\ local' = [local EXCEPT ![s].wcode = wsCode[local[s].ws]]
  /\ UNCHANGED <<wsCode, formCode, home, seq, reference, moveVars>>
-----------------------------------------------------------------------------
(* ensureFormCode: the workspace is read again, it need not be the same. *)

FormRead(s) ==
  LET f == Target[s]
  IN /\ pc[s] = "formRead"
     /\ \/ /\ formCode[f] # None
           /\ At(s, "formRead", "seq") /\ local' = [local EXCEPT ![s].fcode = formCode[f]]
        \/ /\ formCode[f] = None
           /\ At(s, "formRead", "formProbe")
           /\ local' = [local EXCEPT ![s].candidate = Prefers[f], ![s].tries = 0, ![s].ws = home[f]]
     /\ UNCHANGED <<wsCode, formCode, home, seq, reference, moveVars>>

FormTaken(w, code) == \E f \in Forms : home[f] = w /\ formCode[f] = code

FormProbe(s) ==
  /\ pc[s] = "formProbe"
  /\ IF FormTaken(local[s].ws, local[s].candidate) THEN Again(s, "formProbe")
     ELSE At(s, "formProbe", "formClaim") /\ UNCHANGED local
  /\ UNCHANGED <<wsCode, formCode, home, seq, reference, moveVars>>

\* Variant: no unique index, the probe alone decides.
FormClaimUnindexed(s) ==
  LET f == Target[s]
      code == local[s].candidate
  IN /\ pc[s] = "formClaim"
     /\ \/ /\ formCode[f] # None
           /\ At(s, "formClaim", "formReread") /\ UNCHANGED <<formCode, local>>
        \/ /\ formCode[f] = None
           /\ formCode' = [formCode EXCEPT ![f] = code]
           /\ At(s, "formClaim", "seq") /\ local' = [local EXCEPT ![s].fcode = code]
     /\ UNCHANGED <<wsCode, home, seq, reference, moveVars>>

\* Variant: who finds the form already has letters goes on with its own.
FormClaimOwn(s) ==
  LET f == Target[s]
      code == local[s].candidate
  IN /\ pc[s] = "formClaim"
     /\ \/ /\ formCode[f] = None /\ FormTaken(home[f], code)
           /\ Again(s, "formProbe") /\ UNCHANGED formCode
        \/ /\ formCode[f] # None \/ ~FormTaken(home[f], code)
           /\ formCode' = IF formCode[f] = None THEN [formCode EXCEPT ![f] = code] ELSE formCode
           /\ At(s, "formClaim", "seq") /\ local' = [local EXCEPT ![s].fcode = code]
     /\ UNCHANGED <<wsCode, home, seq, reference, moveVars>>

\* The unique index is on the workspace the form is in now.
FormClaim(s) ==
  LET f == Target[s]
      code == local[s].candidate
  IN /\ pc[s] = "formClaim"
     /\ \/ /\ formCode[f] # None
           /\ At(s, "formClaim", "formReread") /\ UNCHANGED <<formCode, local>>
        \/ /\ formCode[f] = None /\ FormTaken(home[f], code)
           /\ Again(s, "formProbe") /\ UNCHANGED formCode
        \/ /\ formCode[f] = None /\ ~FormTaken(home[f], code)
           /\ formCode' = [formCode EXCEPT ![f] = code]
           /\ At(s, "formClaim", "seq") /\ local' = [local EXCEPT ![s].fcode = code]
     /\ UNCHANGED <<wsCode, home, seq, reference, moveVars>>

FormReread(s) ==
  /\ At(s, "formReread", "seq")
  /\ local' = [local EXCEPT ![s].fcode = formCode[Target[s]]]
  /\ UNCHANGED <<wsCode, formCode, home, seq, reference, moveVars>>

\* Variant: the counter is started ($setOnInsert) but never advanced.
NextSeqStarts(s) ==
  LET f == Target[s]
  IN /\ At(s, "seq", "done")
     /\ seq' = [seq EXCEPT ![f] = 1]
     /\ reference' = [reference EXCEPT ![s] = <<local[s].wcode, local[s].fcode, 1>>]
     /\ UNCHANGED <<wsCode, formCode, home, local, moveVars>>

\* nextSeq: one atomic upsert with $inc, and the reference is put together.
NextSeq(s) ==
  LET f == Target[s]
  IN /\ At(s, "seq", "done")
     /\ seq' = [seq EXCEPT ![f] = @ + 1]
     /\ reference' = [reference EXCEPT ![s] = <<local[s].wcode, local[s].fcode, seq[f] + 1>>]
     /\ UNCHANGED <<wsCode, formCode, home, local, moveVars>>

Step(s) ==
  \/ Start(s) \/ WsRead(s) \/ WsProbe(s) \/ WsClaim(s) \/ WsReread(s)
  \/ FormRead(s) \/ FormProbe(s) \/ FormClaim(s) \/ FormReread(s) \/ NextSeq(s)
-----------------------------------------------------------------------------
(* moveForm: the shares go first, then the form changes workspace. *)

BeginMove(f, w) ==
  /\ moving = NoMove /\ moves < MaxMoves /\ home[f] # w
  /\ moving' = [form |-> f, to |-> w]
  /\ shared' = shared \ {f}
  /\ moves' = moves + 1
  /\ UNCHANGED <<wsCode, formCode, home, seq, pc, local, reference>>

\* The save is refused when a form over there has the same letters: 500, nothing undone.
EndMove ==
  LET f == moving.form
  IN /\ moving # NoMove
     /\ moving' = NoMove
     /\ home' = IF formCode[f] # None /\ FormTaken(moving.to, formCode[f]) THEN home
                ELSE [home EXCEPT ![f] = moving.to]
     /\ UNCHANGED <<wsCode, formCode, seq, pc, local, reference, shared, moves>>

Next ==
  \/ \E s \in Submissions : Step(s)
  \/ \E f \in Forms, w \in Workspaces : BeginMove(f, w)
  \/ EndMove

Spec == Init /\ [][Next]_vars
Fairness == \A s \in Submissions : WF_vars(Step(s))
FairSpec == Spec /\ Fairness
-----------------------------------------------------------------------------
(* Properties. *)

TypeOK ==
  /\ wsCode \in [Workspaces -> Codes \cup {None}]
  /\ formCode \in [Forms -> Codes \cup {None}]
  /\ home \in [Forms -> Workspaces]
  /\ seq \in [Forms -> Nat]
  /\ pc \in [Submissions -> Stages]
  /\ local \in [Submissions -> Locals]
  /\ reference \in [Submissions -> (Codes \cup {None}) \X (Codes \cup {None}) \X Nat]
  /\ shared \subseteq Forms
  /\ moving \in {NoMove} \cup [form: Forms, to: Workspaces] /\ moves \in Nat

Given == {s \in Submissions : pc[s] = "done"}

\* reference.service.ts: no two responses share a reference, whoever raced whom for
\* the letters of a workspace or of a form.
NoTwoShare == \A s, t \in Given : s # t => reference[s] # reference[t]

\* The same, as long as no form has begun to move: what is left to be true of it.
SharedOnlyAfterMove == moves = 0 => NoTwoShare

\* reference.service.ts: the letters of a form are fixed by its first response, and
\* everyone who raced for them ends up with the same ones.
LettersFixed ==
  \A s \in Given :
    /\ reference[s][2] = formCode[Target[s]]
    /\ moves = 0 => reference[s][1] = wsCode[home[Target[s]]]

\* Two forms of a workspace never carry the same letters, however they got there.
LettersDistinct ==
  \A f, g \in Forms : f # g /\ home[f] = home[g] /\ formCode[f] # None => formCode[f] # formCode[g]

\* With letters to spare every allocation returns, however often it has to try again.
AllocationReturns ==
  \A s \in Submissions : pc[s] # "done" ~> pc[s] = "done"
=============================================================================
