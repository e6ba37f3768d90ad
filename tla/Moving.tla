-------------------------------- MODULE Moving --------------------------------
(* One form that moves between workspaces and personal spaces, the shares     *)
(* given on it and the pins people keep of it: moveForm, createFormGrant and  *)
(* revokeFormGrant in controllers/form.controller.ts, services/pin.service.ts *)
(* and controllers/pin.controller.ts.                                         *)
(*                                                                            *)
(* A move is four writes on three collections. Shares are given and pins are  *)
(* set by requests that looked at the form some round trips before.           *)
EXTENDS Naturals

CONSTANTS
  Users, Workspaces, Personal, Nil,
  Hands,        \* requests under way at the same time
  OneMover,     \* one move of the form at a time
  MaxRequests,  \* bound: requests
  MaxCuts       \* bound: requests cut short, and saves refused

Homes == Workspaces \cup {Personal}
Roles == {"admin", "viewer"}   \* an owner may do here what an admin may

ASSUME MovingAssumption ==
  /\ Personal \notin Workspaces /\ Nil \notin Users \cup Homes \cup Roles
  /\ OneMover \in BOOLEAN /\ MaxRequests \in Nat /\ MaxCuts \in Nat

VARIABLES
  home, creator,  \* Form.workspaceId, or Personal, and Form.createdBy
  role,           \* Membership.role per workspace, or Nil
  grant,          \* FormAccessGrant rows: the role, where the giver saw the form, given across a move?
  told,           \* who got a form_shared notification
  pin,            \* FormPin rows: their workspaceId, and whether the form had moved meanwhile
  req,            \* the request in each hand
  untold, torn,   \* history: whose notification was cut off; was a move cut short?
  started, cuts

movingVars == <<home, creator, role, grant, told, pin, req, untold, torn, started, cuts>>

NoRequest == [op |-> "none", at |-> "idle", by |-> Nil, whom |-> Nil, role |-> Nil,
         home |-> Nil, to |-> Nil, keep |-> {}]

MovingInit ==
  /\ home \in Homes /\ creator \in Users
  /\ role \in [Workspaces -> [Users -> Roles \cup {Nil}]]
  /\ grant = [u \in Users |-> Nil] /\ pin = [u \in Users |-> Nil]
  /\ told = {} /\ untold = {} /\ torn = FALSE
  /\ req = [h \in Hands |-> NoRequest]
  /\ started = 0 /\ cuts = 0

Put(h, r) == req' = [req EXCEPT ![h] = r]
Start(h, r) == req[h] = NoRequest /\ started < MaxRequests /\ started' = started + 1 /\ Put(h, r)
Done(h) == Put(h, NoRequest)

FullAccess(u, w) == IF w = Personal THEN u = creator ELSE role[w][u] = "admin"
MayRead(u) == FullAccess(u, home) \/ (home # Personal /\ role[home][u] # Nil) \/ grant[u] # Nil

------------------------------------------------------------------------------
(* Moving                                                                     *)

Moving(h) == req[h].op = "move"

\* Out of a workspace: its owner or an admin. Out of a personal space: its
\* creator. Into a workspace: one who may create forms there.
Move(h, u, w) ==
  /\ FullAccess(u, home)
  /\ w # Personal => role[w][u] = "admin"
  /\ OneMover => \A j \in Hands : ~Moving(j)
  /\ Start(h, [NoRequest EXCEPT !.op = "move", !.at = "shares", !.by = u, !.home = home, !.to = w])
  /\ UNCHANGED <<home, creator, role, grant, told, pin, untold, torn, cuts>>

\* Variant: only a move into a workspace ends the shares.
EndSharesWorkspace(h) ==
  LET r == req[h]
  IN /\ Moving(h) /\ r.at = "shares"
     /\ grant' = IF r.to = Personal THEN grant ELSE [u \in Users |-> Nil]
     /\ Put(h, [r EXCEPT !.at = "save"])
     /\ UNCHANGED <<home, creator, role, told, pin, untold, torn, started, cuts>>
\* The shares end before the form is saved.
EndShares(h) ==
  LET r == req[h]
  IN /\ Moving(h) /\ r.at = "shares"
     /\ grant' = [u \in Users |-> Nil]
     /\ Put(h, [r EXCEPT !.at = "save"])
     /\ UNCHANGED <<home, creator, role, told, pin, untold, torn, started, cuts>>

\* One save; a personal form belongs to the one that moved it.
SaveMove(h) ==
  LET r == req[h]
  IN /\ Moving(h) /\ r.at = "save"
     /\ home' = r.to
     /\ creator' = IF r.to = Personal THEN r.by ELSE creator
     /\ Put(h, [r EXCEPT !.at = "members"])
     /\ UNCHANGED <<role, grant, told, pin, untold, torn, started, cuts>>

\* The unique index on the form's letter refuses the save.
SaveMoveRefused(h) ==
  /\ Moving(h) /\ req[h].at = "save" /\ cuts < MaxCuts
  /\ cuts' = cuts + 1 /\ Done(h)
  /\ UNCHANGED <<home, creator, role, grant, told, pin, untold, torn, started>>

\* reconcilePinsAfterMove: who may keep a pin, ...
ReadMembers(h) ==
  LET r == req[h]
  IN /\ Moving(h) /\ r.at = "members"
     /\ Put(h, [r EXCEPT !.at = "drop",
                         !.keep = IF r.to = Personal THEN {r.by} ELSE {u \in Users : role[r.to][u] # Nil}])
     /\ UNCHANGED <<home, creator, role, grant, told, pin, untold, torn, started, cuts>>

\* ... the other pins go, ...
DropPins(h) ==
  LET r == req[h]
  IN /\ Moving(h) /\ r.at = "drop"
     /\ pin' = [u \in Users |-> IF u \in r.keep THEN pin[u] ELSE Nil]
     /\ Put(h, [r EXCEPT !.at = "follow"])
     /\ UNCHANGED <<home, creator, role, grant, told, untold, torn, started, cuts>>

\* Variant: only the pins of the workspace the form left follow it.
FollowPinsLeft(h) ==
  LET r == req[h]
  IN /\ Moving(h) /\ r.at = "follow"
     /\ pin' = [u \in Users |-> IF pin[u] = Nil \/ (r.to = Personal /\ pin[u].home # Personal) THEN pin[u]
                                ELSE [home |-> r.to, late |-> FALSE]]
     /\ Done(h)
     /\ UNCHANGED <<home, creator, role, grant, told, untold, torn, started, cuts>>
\* ... and the rest follow the form.
FollowPins(h) ==
  LET r == req[h]
  IN /\ Moving(h) /\ r.at = "follow"
     /\ pin' = [u \in Users |-> IF pin[u] = Nil THEN Nil ELSE [home |-> r.to, late |-> FALSE]]
     /\ Done(h)
     /\ UNCHANGED <<home, creator, role, grant, told, untold, torn, started, cuts>>

------------------------------------------------------------------------------
(* Sharing                                                                    *)

\* assertCanManageGrants: the workspace's owner or an admin, or the creator.
Share(h, u, v, r) ==
  /\ FullAccess(u, home) /\ u # v
  /\ Start(h, [NoRequest EXCEPT !.op = "share", !.at = "look", !.by = u, !.whom = v, !.role = r, !.home = home])
  /\ UNCHANGED <<home, creator, role, grant, told, pin, untold, torn, cuts>>

\* Nil is given to one who has full access; the role he had is read.
LookAtShare(h) ==
  LET r == req[h]
  IN /\ r.op = "share" /\ r.at = "look"
     /\ IF FullAccess(r.whom, home) THEN Done(h)
        ELSE Put(h, [r EXCEPT !.at = "write",
                              !.to = IF grant[r.whom] = Nil THEN Nil ELSE grant[r.whom].role])
     /\ UNCHANGED <<home, creator, role, grant, told, pin, untold, torn, started, cuts>>

Crossed(r) == home # r.home \/ \E j \in Hands : Moving(j) /\ req[j].at = "save"

\* Variant: the role he had is read after the row is written.
WriteShareTells(h) ==
  LET r == req[h]
  IN /\ r.op = "share" /\ r.at = "write"
     /\ grant' = [grant EXCEPT ![r.whom] = [role |-> r.role, home |-> r.home, late |-> Crossed(r)]]
     /\ Done(h)
     /\ UNCHANGED <<home, creator, role, told, pin, untold, torn, started, cuts>>
\* The row is inserted or replaced; the same role again is not told.
WriteShare(h) ==
  LET r == req[h]
  IN /\ r.op = "share" /\ r.at = "write"
     /\ grant' = [grant EXCEPT ![r.whom] = [role |-> r.role, home |-> r.home, late |-> Crossed(r)]]
     /\ IF r.to = r.role THEN Done(h) ELSE Put(h, [r EXCEPT !.at = "tell"])
     /\ UNCHANGED <<home, creator, role, told, pin, untold, torn, started, cuts>>

TellShare(h) ==
  /\ req[h].op = "share" /\ req[h].at = "tell"
  /\ told' = told \cup {req[h].whom}
  /\ Done(h)
  /\ UNCHANGED <<home, creator, role, grant, pin, untold, torn, started, cuts>>

\* revokeFormGrant deletes the row of one user.
Revoke(u, v) ==
  /\ FullAccess(u, home) /\ grant[v] # Nil
  /\ started < MaxRequests /\ started' = started + 1
  /\ grant' = [grant EXCEPT ![v] = Nil]
  /\ UNCHANGED <<home, creator, role, told, pin, req, untold, torn, cuts>>

------------------------------------------------------------------------------
(* Pins                                                                       *)

\* pinFormHandler: one who may read the form; an existing pin is the answer.
Pin(h, u) ==
  /\ MayRead(u) /\ pin[u] = Nil
  /\ Start(h, [NoRequest EXCEPT !.op = "pin", !.by = u, !.home = home])
  /\ UNCHANGED <<home, creator, role, grant, told, pin, untold, torn, cuts>>

\* Inserted with the workspace that was read, unless another request did.
WritePin(h) ==
  LET r == req[h]
  IN /\ r.op = "pin"
     /\ pin' = IF pin[r.by] # Nil THEN pin
               ELSE [pin EXCEPT ![r.by] = [home |-> r.home, late |-> home # r.home]]
     /\ Done(h)
     /\ UNCHANGED <<home, creator, role, grant, told, untold, torn, started, cuts>>

Unpin(u) ==
  /\ pin[u] # Nil /\ started < MaxRequests /\ started' = started + 1
  /\ pin' = [pin EXCEPT ![u] = Nil]
  /\ UNCHANGED <<home, creator, role, grant, told, req, untold, torn, cuts>>

------------------------------------------------------------------------------
\* Members come, go and change roles.
ChangeRole(w, u, r) ==
  /\ role[w][u] # r /\ started < MaxRequests /\ started' = started + 1
  /\ role' = [role EXCEPT ![w][u] = r]
  /\ UNCHANGED <<home, creator, grant, told, pin, req, untold, torn, cuts>>

\* The process stops, or a round trip fails.
CutShort(h) ==
  LET r == req[h]
  IN /\ r # NoRequest /\ cuts < MaxCuts
     /\ cuts' = cuts + 1 /\ Done(h)
     /\ torn' = (torn \/ (Moving(h) /\ r.at \in {"members", "drop", "follow"}))
     /\ untold' = IF r.at = "tell" THEN untold \cup {r.whom} ELSE untold
     /\ UNCHANGED <<home, creator, role, grant, told, pin, started>>

MovingNext ==
  \/ \E h \in Hands :
       \/ EndShares(h) \/ SaveMove(h) \/ SaveMoveRefused(h) \/ ReadMembers(h) \/ DropPins(h) \/ FollowPins(h)
       \/ LookAtShare(h) \/ WriteShare(h) \/ TellShare(h) \/ WritePin(h) \/ CutShort(h)
       \/ \E u \in Users : Pin(h, u) \/ \E w \in Homes : Move(h, u, w)
       \/ \E u, v \in Users, r \in Roles : Share(h, u, v, r)
  \/ \E u, v \in Users : Revoke(u, v)
  \/ \E u \in Users : Unpin(u) \/ \E w \in Workspaces, r \in Roles \cup {Nil} : ChangeRole(w, u, r)

------------------------------------------------------------------------------
\* moveForm: shares "were granted in the old context; they do not carry into a
\* new one". A share in force was given where the form is now, unless it was
\* written while the form was on its way.
SharesStayBehind ==
  \A u \in Users : grant[u] # Nil /\ ~grant[u].late => grant[u].home = home

\* reconcilePinsAfterMove: once a move is through, every pin is kept under the
\* form's own workspace, but for one written by a request that had read the
\* form before. (A move cut short leaves them behind.)
PinsFollow ==
  torn \/ (\E h \in Hands : Moving(h))
  \/ \A u \in Users : pin[u] # Nil /\ ~pin[u].late => pin[u].home = home

\* createFormGrant: whoever holds a share was told, or is about to be: no order
\* of two requests makes each take the other's word for it.
HoldersTold ==
  \A u \in Users : grant[u] # Nil =>
    \/ u \in told \cup untold
    \/ \E h \in Hands : req[h].at = "tell" /\ req[h].whom = u
==============================================================================
