------------------------------ MODULE Membership ------------------------------
(* A workspace's people: controllers/invitation.controller.ts,                 *)
(* controllers/team.controller.ts and controllers/workspace.controller.ts.     *)
(*                                                                             *)
(* A handler reads rows, decides, and writes them back later: the requests of  *)
(* members and of the person invited interleave between those round trips, and *)
(* the process may stop between two of them.                                   *)
EXTENDS Access, Integers

CONSTANTS
  Guest,        \* the user every invitation is addressed to
  Invites,      \* invitation rows
  Actors,       \* requests under way at the same time
  MaxRequests,  \* bound: requests
  MaxFaults,    \* bound: requests cut short
  OneManager    \* is at most one request about roles under way at a time?

ASSUME MembershipAssumption ==
  /\ Guest \in Users /\ IsFiniteSet(Users)
  /\ MaxRequests \in Nat /\ MaxFaults \in Nat /\ OneManager \in BOOLEAN

VARIABLES
  owner,      \* Workspace.owner
  role,       \* Membership.role, or None without a row
  grant,      \* FormAccessGrant.role
  invite,     \* Invitation rows: status, role, past expiry
  session,    \* who has a session that is not revoked
  request,    \* per actor, the handler under way and what it read
  uses,       \* history: memberships each invitation has made
  started, faults

vars == <<owner, role, grant, invite, session, request, uses, started, faults>>

Idle == [kind |-> "idle", at |-> "idle", who |-> None, inv |-> None, role |-> None]
NoInvite == [status |-> "none", role |-> None, past |-> FALSE]
Tables == [owner |-> owner, role |-> role, grant |-> grant]

Init ==
  /\ \E u \in Users \ {Guest} :
       owner = u /\ role = [v \in Users |-> IF v = u THEN "owner"
                                             ELSE IF v = Guest THEN None ELSE "editor"]
  /\ grant = [x \in Users \X Targets |-> None]
  /\ invite = [i \in Invites |-> NoInvite]
  /\ session = Users
  /\ request = [a \in Actors |-> Idle]
  /\ uses = [i \in Invites |-> 0]
  /\ started = 0 /\ faults = 0

Managing == {"role", "remove", "transfer", "leave"}
ToManage(a) == OneManager => \A b \in Actors : request[b].kind \notin Managing

\* A request passed requirePermission and read the rows it decides on.
Open(a, kind, at, who, inv, r) ==
  /\ request[a] = Idle /\ started < MaxRequests
  /\ started' = started + 1
  /\ request' = [request EXCEPT ![a] = [kind |-> kind, at |-> at, who |-> who,
                                        inv |-> inv, role |-> r]]
Close(a) == request' = [request EXCEPT ![a] = Idle]
Go(a, at) == request' = [request EXCEPT ![a].at = at]
At(a, kind, at) == request[a].kind = kind /\ request[a].at = at
Asked(a) == request[a]

May(u, p) == Decide(Tables, [user |-> u, asks |-> p, path |-> None, query |-> None,
                             scope |-> "Main"]).ok
Manages(u) == May(u, <<"team", "manage">>)
Pending(i) == invite[i].status = "pending"
rest == <<owner, role, grant, session, uses, faults>>

------------------------------------------------------------------------------
(* Invitations.                                                               *)

\* sendInvitation reads: the address is no member's, and is there an invitation
\* that is still pending?
Send(a) ==
  /\ \E u \in Users : Manages(u)
  /\ role[Guest] = None /\ owner # Guest
  /\ \E r \in {"admin", "viewer"} :
       \E i \in IF \E j \in Invites : Pending(j) THEN {j \in Invites : Pending(j)}
                ELSE {j \in Invites : invite[j].status = "none"} :
         Open(a, "send", IF Pending(i) THEN "update" ELSE "create", Guest, i, r)
  /\ UNCHANGED <<rest, invite>>

\* A pending row gets the new role and a fresh link; its status is not written.
\* A new row is refused by the index on pending rows when another is pending.
SendWrite(a) ==
  LET i == Asked(a).inv
  IN /\ request[a].kind = "send"
     /\ IF At(a, "send", "update")
        THEN invite' = [invite EXCEPT ![i].role = Asked(a).role]
        ELSE IF (\E j \in Invites : Pending(j)) \/ invite[i].status # "none"
        THEN UNCHANGED invite
        ELSE invite' = [invite EXCEPT ![i] = [status |-> "pending",
                                              role |-> Asked(a).role, past |-> FALSE]]
     /\ Close(a)
     /\ UNCHANGED <<rest, started>>

\* Variant: the row is dated before it is sent.
PassExpiryAny(i) ==
  /\ ~invite[i].past
  /\ invite' = [invite EXCEPT ![i].past = TRUE]
  /\ UNCHANGED <<rest, request, started>>
\* Seven days pass.
PassExpiry(i) ==
  /\ Pending(i) /\ ~invite[i].past
  /\ invite' = [invite EXCEPT ![i].past = TRUE]
  /\ UNCHANGED <<rest, request, started>>

\* resendInvitation: a fresh link on the row; neither status nor expiry move.
Resend(a) ==
  /\ \E u \in Users : Manages(u)
  /\ \E i \in Invites : Pending(i) /\ ~invite[i].past /\ Open(a, "resend", "write", Guest, i, None)
  /\ UNCHANGED <<rest, invite>>

\* revokeInvitation and declineInvitation read a row that is pending ...
Revoke(a) ==
  /\ \E u \in Users : Manages(u)
  /\ \E i \in Invites : Pending(i) /\ Open(a, "revoke", "write", Guest, i, None)
  /\ UNCHANGED <<rest, invite>>

Decline(a) ==
  /\ \E i \in Invites : Pending(i) /\ Open(a, "decline", "write", Guest, i, None)
  /\ UNCHANGED <<rest, invite>>

\* ... and save the document they read, whatever became of the row meanwhile.
SaveInvite(a) ==
  /\ request[a].kind \in {"resend", "revoke", "decline"}
  /\ invite' = CASE request[a].kind = "revoke"  -> [invite EXCEPT ![Asked(a).inv].status = "revoked"]
                 [] request[a].kind = "decline" -> [invite EXCEPT ![Asked(a).inv].status = "declined"]
                 [] OTHER -> invite
  /\ Close(a)
  /\ UNCHANGED <<rest, started>>

\* What previewInvitation and listInvitations show of a row.
Shown(i) == IF Pending(i) /\ invite[i].past THEN "expired" ELSE invite[i].status

\* acceptInvitation reads the row and the caller's membership.  A member's
\* pending invitation is used up; a row that is not pending or past its expiry
\* ends the request.
Accept(a) ==
  \E i \in Invites :
    /\ invite[i].status # "none"
    /\ IF role[Guest] # None
       THEN /\ invite' = IF Pending(i) THEN [invite EXCEPT ![i].status = "accepted"] ELSE invite
            /\ request[a] = Idle /\ started < MaxRequests
            /\ started' = started + 1
            /\ UNCHANGED request
       ELSE IF Shown(i) = "expired"
       THEN /\ invite' = IF Pending(i) THEN [invite EXCEPT ![i].status = "expired"] ELSE invite
            /\ request[a] = Idle /\ started < MaxRequests
            /\ started' = started + 1
            /\ UNCHANGED request
       ELSE /\ Pending(i)
            /\ Open(a, "accept", "claim", Guest, i, invite[i].role)
            /\ UNCHANGED invite
    /\ UNCHANGED rest

\* Variant: the claim does not ask whether the row is still pending.
ClaimAnyway(a) ==
  LET i == Asked(a).inv
  IN /\ At(a, "accept", "claim")
     /\ invite' = [invite EXCEPT ![i].status = "accepted"]
     /\ Go(a, "create")
     /\ UNCHANGED <<rest, started>>
\* One of several claims turns pending into accepted.
Claim(a) ==
  LET i == Asked(a).inv
  IN /\ At(a, "accept", "claim")
     /\ IF Pending(i)
        THEN invite' = [invite EXCEPT ![i].status = "accepted"] /\ Go(a, "create")
        ELSE UNCHANGED invite /\ Close(a)
     /\ UNCHANGED <<rest, started>>

\* Variant: an upsert, which gives a member the invitation's role.
CreateOrSet(a) ==
  /\ At(a, "accept", "create")
  /\ role' = [role EXCEPT ![Guest] = Asked(a).role]
  /\ uses' = [uses EXCEPT ![Asked(a).inv] = IF role[Guest] = None THEN @ + 1 ELSE @]
  /\ Close(a)
  /\ UNCHANGED <<owner, grant, invite, session, started, faults>>
\* The membership of the role that was read; a row that exists already is kept.
Create(a) ==
  /\ At(a, "accept", "create")
  /\ IF role[Guest] = None
     THEN /\ role' = [role EXCEPT ![Guest] = Asked(a).role]
          /\ uses' = [uses EXCEPT ![Asked(a).inv] = @ + 1]
     ELSE UNCHANGED <<role, uses>>
  /\ Close(a)
  /\ UNCHANGED <<owner, grant, invite, session, started, faults>>

\* The write fails: the claim is given back, which the index on pending rows
\* refuses when a new invitation was sent meanwhile.
CreateFails(a) ==
  /\ At(a, "accept", "create") /\ faults < MaxFaults
  /\ faults' = faults + 1
  /\ invite' = IF \E j \in Invites : Pending(j) THEN invite
               ELSE [invite EXCEPT ![Asked(a).inv].status = "pending"]
  /\ Close(a)
  /\ UNCHANGED <<owner, role, grant, session, uses, started>>

------------------------------------------------------------------------------
(* Roles.                                                                     *)

\* adminChangeAllowed: below the owner, nobody touches or makes an admin.
ChangeAllowed(u, from, to) ==
  RoleIn(Tables, u, "Main") = "owner" \/ "admin" \notin {from, to}
IsOwner(u) == owner = u \/ role[u] = "owner"

\* updateMemberRole reads the target: a member, and not an owner.
ChangeRole(a) ==
  /\ ToManage(a)
  /\ \E u, v \in Users, r \in {"admin", "viewer"} :
       /\ Manages(u) /\ role[v] # None /\ ~IsOwner(v) /\ ChangeAllowed(u, role[v], r)
       /\ Open(a, "role", IF role[v] = "viewer" THEN "raise" ELSE "write", v, None, r)
  /\ UNCHANGED <<rest, invite>>

Rank == [viewer |-> 1, editor |-> 2, admin |-> 3, owner |-> 4]

\* The role is saved on the row that was read, if it is still there; less access
\* ends the member's sessions.
ChangeRoleWrite(a) ==
  LET v == Asked(a).who
  IN /\ At(a, "role", "write") \/ At(a, "role", "raise")
     /\ role' = IF role[v] = None THEN role ELSE [role EXCEPT ![v] = Asked(a).role]
     /\ IF At(a, "role", "write") /\ Asked(a).role = "viewer" THEN Go(a, "sessions") ELSE Close(a)
     /\ UNCHANGED <<owner, grant, invite, session, uses, started, faults>>

\* removeMember reads: not an owner, not the last member.
Remove(a) ==
  /\ ToManage(a)
  /\ Cardinality({u \in Users : role[u] # None}) > 1
  /\ \E u, v \in Users :
       /\ Manages(u) /\ role[v] # None /\ ~IsOwner(v) /\ ChangeAllowed(u, role[v], None)
       /\ Open(a, "remove", "write", v, None, None)
  /\ UNCHANGED <<rest, invite>>

RemoveWrite(a) ==
  /\ At(a, "remove", "write")
  /\ role' = [role EXCEPT ![Asked(a).who] = None]
  /\ Go(a, "sessions")
  /\ UNCHANGED <<owner, grant, invite, session, uses, started, faults>>

CutSessions(a) ==
  /\ request[a].at = "sessions"
  /\ session' = session \ {Asked(a).who}
  /\ Close(a)
  /\ UNCHANGED <<owner, role, grant, invite, uses, started, faults>>

SignIn(u) ==
  /\ u \notin session
  /\ session' = session \cup {u}
  /\ UNCHANGED <<owner, role, grant, invite, request, uses, started, faults>>

\* transferOwnership: the new owner's role, the workspace's owner, the old
\* owner's role, three writes.
Transfer(a) ==
  /\ ToManage(a)
  /\ \E v \in Users : role[v] # None /\ v # owner
       /\ (\E u \in Users : RoleIn(Tables, u, "Main") = "owner")
       /\ Open(a, "transfer", "target", v, None, owner)
  /\ UNCHANGED <<rest, invite>>

\* Variant: the old owner steps down first.
TransferWriteDemoteFirst(a) ==
  LET v == Asked(a).who
  IN /\ request[a].kind = "transfer"
     /\ CASE Asked(a).at = "target" ->
               /\ role' = [role EXCEPT ![Asked(a).role] = IF @ = None THEN None ELSE "admin"]
               /\ Go(a, "space") /\ UNCHANGED owner
          [] Asked(a).at = "space" -> owner' = v /\ Go(a, "previous") /\ UNCHANGED role
          [] Asked(a).at = "previous" ->
               /\ role' = [role EXCEPT ![v] = IF @ = None THEN None ELSE "owner"]
               /\ Close(a) /\ UNCHANGED owner
     /\ UNCHANGED <<grant, invite, session, uses, started, faults>>
TransferWrite(a) ==
  LET v == Asked(a).who
  IN /\ request[a].kind = "transfer"
     /\ CASE Asked(a).at = "target" ->
               /\ role' = [role EXCEPT ![v] = IF @ = None THEN None ELSE "owner"]
               /\ Go(a, "space") /\ UNCHANGED owner
          [] Asked(a).at = "space" -> owner' = v /\ Go(a, "previous") /\ UNCHANGED role
          [] Asked(a).at = "previous" ->
               /\ role' = [role EXCEPT ![Asked(a).role] = IF @ = None THEN None ELSE "admin"]
               /\ Close(a) /\ UNCHANGED owner
     /\ UNCHANGED <<grant, invite, session, uses, started, faults>>

\* leaveWorkspace: an owner leaves only when there is another one.
Leave(a) ==
  /\ ToManage(a)
  /\ \E u \in Users :
       /\ role[u] # None
       /\ role[u] = "owner" => Cardinality({v \in Users : role[v] = "owner"}) > 1
       /\ Open(a, "leave", "write", u, None, None)
  /\ UNCHANGED <<rest, invite>>

LeaveWrite(a) ==
  /\ At(a, "leave", "write")
  /\ role' = [role EXCEPT ![Asked(a).who] = None]
  /\ IF owner = Asked(a).who THEN Go(a, "successor") ELSE Close(a)
  /\ UNCHANGED <<owner, grant, invite, session, uses, started, faults>>

Successor(a) ==
  /\ At(a, "leave", "successor")
  /\ LET next == {v \in Users : role[v] = "owner"}
     IN \/ next = {} /\ UNCHANGED owner
        \/ owner' \in next
  /\ Close(a)
  /\ UNCHANGED <<role, grant, invite, session, uses, started, faults>>

\* The owner on the workspace row without a Membership row gets one on the next
\* request that passes requirePermission.
Heal ==
  /\ role[owner] = None /\ owner \in session
  /\ role' = [role EXCEPT ![owner] = "owner"]
  /\ UNCHANGED <<owner, grant, invite, session, request, uses, started, faults>>

\* A share on a form is given, changed or taken back.
Share(u, f, r) ==
  /\ started < MaxRequests /\ started' = started + 1
  /\ grant[<<u, f>>] # r
  /\ grant' = [grant EXCEPT ![<<u, f>>] = r]
  /\ UNCHANGED <<owner, role, invite, session, request, uses, faults>>

\* The process stops: what a request has not written is never written.
Crash(a) ==
  /\ request[a] # Idle /\ faults < MaxFaults
  /\ faults' = faults + 1
  /\ Close(a)
  /\ UNCHANGED <<owner, role, grant, invite, session, uses, started>>

Next ==
  \/ \E a \in Actors :
       \/ Send(a) \/ SendWrite(a) \/ Resend(a) \/ Revoke(a) \/ Decline(a) \/ SaveInvite(a)
       \/ Accept(a) \/ Claim(a) \/ Create(a) \/ CreateFails(a)
       \/ ChangeRole(a) \/ ChangeRoleWrite(a) \/ Remove(a) \/ RemoveWrite(a)
       \/ CutSessions(a) \/ Transfer(a) \/ TransferWrite(a)
       \/ Leave(a) \/ LeaveWrite(a) \/ Successor(a) \/ Crash(a)
  \/ \E i \in Invites : PassExpiry(i)
  \/ \E u \in Users : SignIn(u)
  \/ \E u \in Users, f \in Targets, r \in {"editor", "viewer", None} : Share(u, f, r)
  \/ Heal

Spec == Init /\ [][Next]_vars

------------------------------------------------------------------------------
\* The variables keep their types, and no invitation is past its expiry before
\* it was sent.
TypeOK ==
  /\ owner \in Users
  /\ role \in [Users -> Roles \cup {None}]
  /\ grant \in [Users \X Targets -> {"editor", "viewer", None}]
  /\ session \subseteq Users
  /\ \A i \in Invites : invite[i].status \in {"none", "pending", "accepted", "declined",
                                              "revoked", "expired"}
                        /\ (invite[i].past => invite[i].status # "none")

\* "An invitation is single-use": over every interleaving of accepting, sending
\* again, revoking and declining, of removals and of claims that were given
\* back, one row makes one membership.
SingleUse == \A i \in Invites : uses[i] <= 1

\* The workspace has a member with the role of its owner, or its owner gets the
\* row back with the next request, whenever no change of roles is under way.
SomeOwner ==
  (\A a \in Actors : request[a].kind \notin Managing) =>
    \E u \in Users : role[u] = "owner" \/ (role[u] = None /\ owner = u)

\* Nobody loses a role, or gains the owner's, but by a handler about roles: an
\* invitation never touches a member it did not make.
InvitesOnlyAdd ==
  [][\A u \in Users : role[u] # None /\ role'[u] # role[u] =>
       \E a \in Actors : request[a].kind \in Managing]_vars

Quiet == \A a \in Actors : request[a] = Idle

\* GrantsOnlyAdd holds of every table the handlers leave behind, those of a
\* transfer or a removal that stopped half way included.
AccessIsGranted == Quiet => GrantsOnlyAdd(Tables)

\* ResourceDecides of the same tables.
AccessIsTheResources == Quiet => ResourceDecides(Tables)

\* DeleteIsTheOwners of the same tables.
AccessToDelete == Quiet => DeleteIsTheOwners(Tables)
==============================================================================
