------------------------------- MODULE Console -------------------------------
(* The accounts of one email address, as the operator console, the sign-in    *)
(* and their owner change them: services/superadmin.service.ts, the session   *)
(* of controllers/auth.controller.ts, controllers/user.controller.ts and      *)
(* createWorkspace.                                                           *)
(*                                                                            *)
(* An account is a login at the sign-in provider, a User row, a workspace with *)
(* its owner's Membership, and sessions: five stores, written one after the   *)
(* other by requests that run side by side, stop half way, or are refused by  *)
(* the provider.  The row and the login are unique per address.               *)
EXTENDS FiniteSets, Integers

CONSTANTS
  Rows,           \* User rows of the address, numbered in the order they are made
  Logins,         \* its accounts at the provider, numbered likewise
  Requests,       \* requests side by side
  MaxRequests,    \* bound: requests in all
  MaxFaults       \* bound: refusals of the provider and processes that stop

\* What is assumed of the constants.
ConsoleAssumption ==
  /\ Rows \subseteq Nat \ {0} /\ Logins \subseteq Nat \ {0} /\ 1 \in Rows \cap Logins
  /\ MaxRequests \in Nat /\ MaxFaults \in Nat

VARIABLES
  login,      \* at the provider: "none" | "on" | "off" (disabled) | "gone"
  row,        \* User.status: "none" | "active" | "suspended" | "gone"
  uid,        \* User.firebaseUid
  spaces,     \* rows that own a Workspace
  members,    \* rows with the owner's Membership of it
  homes,      \* rows whose workspaceId is set
  sessions,   \* rows with a live session
  audit,      \* AuditLog: pairs of an action and a row
  job,        \* per request, what it does and has read
  asked, faults,
  effects,    \* history: what took place, as the audit log would name it
  stray       \* history: rows and logins at which something failed, or two
              \*   requests crossed, and suspended rows that got another login

accounts == <<login, row, uid, spaces, members, homes, sessions, audit, effects>>
consoleVars == <<login, row, uid, spaces, members, homes, sessions, audit, effects,
                 job, asked, faults, stray>>

NoRow == 0
NoLogin == 0
Idle == [kind |-> "idle", at |-> "idle", row |-> NoRow, login |-> NoLogin,
         was |-> "none", now |-> "none"]
Present(u) == row[u] \in {"active", "suspended"}
Existing == {u \in Rows : Present(u)}
Enabled == {l \in Logins : login[l] = "on"}
Known == {l \in Logins : login[l] \in {"on", "off"}}
Fresh(f) == {x \in DOMAIN f : f[x] = "none" /\ \A y \in DOMAIN f : y < x => f[y] # "none"}

\* An address nobody has, one with a login only, or one with a whole account.
ConsoleInit ==
  \E start \in {"nobody", "login", "account"} :
    /\ login = [x \in Logins |-> IF x = 1 /\ start # "nobody" THEN "on" ELSE "none"]
    /\ row = [x \in Rows |-> IF x = 1 /\ start = "account" THEN "active" ELSE "none"]
    /\ uid = [x \in Rows |-> IF x = 1 /\ start = "account" THEN 1 ELSE NoLogin]
    /\ spaces = {} /\ members = {} /\ homes = {} /\ audit = {} /\ effects = {}
    /\ sessions = Existing
    /\ job = [r \in Requests |-> Idle]
    /\ asked = 0 /\ faults = 0 /\ stray = {}

Begin(r, j) == job[r] = Idle /\ asked < MaxRequests /\ asked' = asked + 1 /\ job' = [job EXCEPT ![r] = j]
At(r, kind, at) == job[r].kind = kind /\ job[r].at = at
To(r, at) == job' = [job EXCEPT ![r].at = at] /\ UNCHANGED asked
End(r) == job' = [job EXCEPT ![r] = Idle] /\ UNCHANGED asked
Refused(r) == End(r) /\ UNCHANGED <<accounts, faults>>
\* A store or the provider refuses.
Refuses == faults < MaxFaults /\ faults' = faults + 1

\* The console's actions, as they are named in the audit log.
Took(action, u) == effects' = effects \cup {<<action, u>>}
Log(r, action) ==
  /\ audit' = audit \cup {<<action, job[r].row>>}
  /\ End(r)
  /\ UNCHANGED <<login, row, uid, spaces, members, homes, sessions, effects, faults>>

------------------------------------------------------------------------------
(* createAdmin.                                                               *)

Create(r) ==
  /\ Existing = {}
  /\ Begin(r, [Idle EXCEPT !.kind = "create", !.at = "login"])
  /\ UNCHANGED <<accounts, faults>>

\* The provider makes the login, refuses an address it knows, or fails: then
\* nothing was created.
CreateLogin(r) ==
  /\ At(r, "create", "login")
  /\ \/ Known # {} /\ Refused(r)
     \/ Refuses /\ End(r) /\ UNCHANGED accounts
     \/ /\ Known = {}
        /\ \E l \in Fresh(login) :
             /\ login' = [login EXCEPT ![l] = "on"]
             /\ job' = [job EXCEPT ![r].at = "row", ![r].login = l]
        /\ UNCHANGED <<row, uid, spaces, members, homes, sessions, audit, effects, asked, faults>>

\* Variant: nothing keeps two rows with one address apart.
InsertRowAny(u, l) ==
  /\ u \in Fresh(row)
  /\ row' = [row EXCEPT ![u] = "active"] /\ uid' = [uid EXCEPT ![u] = l]
\* User.create: the email is unique.
InsertRow(u, l) ==
  /\ u \in Fresh(row) /\ Existing = {}
  /\ row' = [row EXCEPT ![u] = "active"] /\ uid' = [uid EXCEPT ![u] = l]

CreateRow(r) ==
  /\ At(r, "create", "row")
  /\ \/ Existing # {} /\ Refused(r)
     \/ \E u \in Rows :
          /\ InsertRow(u, job[r].login)
          /\ Took("create", u)
          /\ job' = [job EXCEPT ![r].at = "space", ![r].row = u]
          /\ UNCHANGED <<login, spaces, members, homes, sessions, audit, asked, faults>>

CreateSpace(r) ==
  /\ At(r, "create", "space") /\ To(r, "home")
  /\ spaces' = spaces \cup {job[r].row}
  /\ UNCHANGED <<login, row, uid, members, homes, sessions, audit, effects, faults>>

\* Variant: the owner's Membership is not made.
CreateHomeOnly(r) ==
  /\ At(r, "create", "home")
  /\ \/ ~Present(job[r].row) /\ Refused(r)
     \/ /\ Present(job[r].row) /\ To(r, "audit")
        /\ homes' = homes \cup {job[r].row}
        /\ UNCHANGED <<login, row, uid, spaces, members, sessions, audit, effects, faults>>
\* newAdmin.save: a row that is gone is an error.
CreateHome(r) ==
  /\ At(r, "create", "home")
  /\ \/ ~Present(job[r].row) /\ Refused(r)
     \/ /\ Present(job[r].row) /\ To(r, "member")
        /\ homes' = homes \cup {job[r].row}
        /\ UNCHANGED <<login, row, uid, spaces, members, sessions, audit, effects, faults>>

CreateMember(r) ==
  /\ At(r, "create", "member") /\ To(r, "audit")
  /\ members' = members \cup {job[r].row}
  /\ UNCHANGED <<login, row, uid, spaces, homes, sessions, audit, effects, faults>>

LogCreate(r) == At(r, "create", "audit") /\ Log(r, "create")

------------------------------------------------------------------------------
(* updateAdmin with a status.                                                 *)

Update(r) ==
  /\ \E u \in Existing, now \in {"active", "suspended"} :
       Begin(r, [kind |-> "update", at |-> IF now = "suspended" THEN "sessions" ELSE "login",
                 row |-> u, login |-> uid[u], was |-> row[u], now |-> now])
  /\ UNCHANGED <<accounts, faults>>

EndSessions(r) ==
  /\ At(r, "update", "sessions") /\ To(r, "login")
  /\ sessions' = sessions \ {job[r].row}
  /\ UNCHANGED <<login, row, uid, spaces, members, homes, audit, effects, faults>>

\* Variant: an account that is active again keeps its disabled login.
SwitchLoginOff(r) ==
  /\ At(r, "update", "login") /\ To(r, "save")
  /\ LET l == job[r].login IN
     \/ /\ login[l] \in {"on", "off"}
        /\ login' = [login EXCEPT ![l] = IF job[r].now = "active" THEN @ ELSE "off"]
        /\ UNCHANGED faults
     \/ login[l] = "gone" /\ UNCHANGED <<login, faults>>
     \/ Refuses /\ UNCHANGED login
  /\ UNCHANGED <<row, uid, spaces, members, homes, sessions, audit, effects>>
\* The login is disabled or enabled; a failure is only written to the log.
SwitchLogin(r) ==
  /\ At(r, "update", "login") /\ To(r, "save")
  /\ LET l == job[r].login IN
     \/ /\ login[l] \in {"on", "off"}
        /\ login' = [login EXCEPT ![l] = IF job[r].now = "active" THEN "on" ELSE "off"]
        /\ UNCHANGED faults
     \/ login[l] = "gone" /\ UNCHANGED <<login, faults>>
     \/ Refuses /\ UNCHANGED login
  /\ UNCHANGED <<row, uid, spaces, members, homes, sessions, audit, effects>>

Named(j) == CASE j.was = j.now -> "edit" [] j.now = "suspended" -> "suspend" [] OTHER -> "reactivate"

\* admin.save writes what was changed on the row that was read, and fails when
\* the row is gone.
SaveStatus(r) ==
  /\ At(r, "update", "save")
  /\ LET u == job[r].row IN
     \/ ~Present(u) /\ Refused(r)
     \/ /\ Present(u) /\ To(r, "audit")
        /\ row' = [row EXCEPT ![u] = IF job[r].was = job[r].now THEN @ ELSE job[r].now]
        /\ Took(Named(job[r]), u)
        /\ UNCHANGED <<login, uid, spaces, members, homes, sessions, audit, faults>>

LogUpdate(r) == At(r, "update", "audit") /\ Log(r, Named(job[r]))

------------------------------------------------------------------------------
(* deleteAdmin, and deleteAccountFlow of the owner.                           *)

Delete(r) ==
  /\ \E u \in Existing :
       Begin(r, [Idle EXCEPT !.kind = "delete", !.at = "login", !.row = u, !.login = uid[u]])
  /\ UNCHANGED <<accounts, faults>>

\* The owner, signed in and with a token of the login; the workspace is shared
\* with nobody.
Close(r) ==
  /\ \E u \in Existing \cap sessions :
       /\ row[u] = "active" /\ login[uid[u]] = "on"
       /\ Begin(r, [Idle EXCEPT !.kind = "close", !.at = "login", !.row = u, !.login = uid[u]])
  /\ UNCHANGED <<accounts, faults>>

Ending(r) == job[r].kind \in {"delete", "close"}

\* The login goes first.  When the provider fails, the console goes on and the
\* owner is asked to try again; a login it does not know stops neither.
DeleteLogin(r) ==
  /\ Ending(r) /\ job[r].at = "login"
  /\ \/ /\ login' = [login EXCEPT ![job[r].login] = "gone"]
        /\ To(r, "members") /\ UNCHANGED faults
     \/ /\ Refuses /\ UNCHANGED login
        /\ IF job[r].kind = "delete" THEN To(r, "members") ELSE End(r)
  /\ UNCHANGED <<row, uid, spaces, members, homes, sessions, audit, effects>>

\* deleteWorkspaceData of the workspaces the row owns.
DeleteMembers(r) ==
  /\ Ending(r) /\ job[r].at = "members" /\ To(r, "space")
  /\ members' = members \ {job[r].row} /\ homes' = homes \ {job[r].row}
  /\ UNCHANGED <<login, row, uid, spaces, sessions, audit, effects, faults>>
DeleteSpace(r) ==
  /\ Ending(r) /\ job[r].at = "space" /\ To(r, "sessions")
  /\ spaces' = spaces \ {job[r].row}
  /\ UNCHANGED <<login, row, uid, members, homes, sessions, audit, effects, faults>>

\* The rest of deleteAccountData, then the row.
DeleteSessions(r) ==
  /\ Ending(r) /\ job[r].at = "sessions" /\ To(r, "row")
  /\ sessions' = sessions \ {job[r].row} /\ members' = members \ {job[r].row}
  /\ UNCHANGED <<login, row, uid, spaces, homes, audit, effects, faults>>

\* Variant: the deletion is not written to the audit log.
DeleteRowUnlogged(r) ==
  /\ Ending(r) /\ job[r].at = "row"
  /\ row' = [row EXCEPT ![job[r].row] = "gone"]
  /\ Took("delete", job[r].row) /\ End(r)
  /\ UNCHANGED <<login, uid, spaces, members, homes, sessions, audit, faults>>
DeleteRow(r) ==
  /\ Ending(r) /\ job[r].at = "row"
  /\ row' = [row EXCEPT ![job[r].row] = "gone"]
  /\ IF job[r].kind = "delete" THEN To(r, "audit") /\ Took("delete", job[r].row)
                               ELSE End(r) /\ UNCHANGED effects
  /\ UNCHANGED <<login, uid, spaces, members, homes, sessions, audit, faults>>

LogDelete(r) == At(r, "delete", "audit") /\ Log(r, "delete")

------------------------------------------------------------------------------
(* The person: a login of his own, signing in, a workspace of his own.        *)

\* Somebody registers the address at the provider, and has it confirmed.
Register ==
  /\ Known = {} /\ asked < MaxRequests /\ asked' = asked + 1
  /\ \E l \in Fresh(login) : login' = [login EXCEPT ![l] = "on"]
  /\ UNCHANGED <<row, uid, spaces, members, homes, sessions, audit, effects, job, faults>>

\* session: the token is verified, and the row is looked up by login or address.
SignIn(r) ==
  /\ \E l \in Enabled :
       IF Existing = {}
       THEN Begin(r, [Idle EXCEPT !.kind = "signin", !.at = "row", !.login = l])
       ELSE \E u \in Existing :
              Begin(r, [Idle EXCEPT !.kind = "signin", !.row = u, !.login = l, !.was = row[u],
                                    !.at = IF uid[u] = l THEN "session" ELSE "bind"])
  /\ UNCHANGED <<accounts, faults>>

SignUpRow(r) ==
  /\ At(r, "signin", "row")
  /\ \/ Existing # {} /\ Refused(r)
     \/ \E u \in Rows :
          /\ InsertRow(u, job[r].login)
          /\ job' = [job EXCEPT ![r].at = "session", ![r].row = u, ![r].was = "active"]
          /\ UNCHANGED <<login, spaces, members, homes, sessions, audit, effects, asked, faults>>

\* The row with the address gets the login it was reached by.
Bind(r) ==
  /\ At(r, "signin", "bind")
  /\ \/ ~Present(job[r].row) /\ Refused(r)
     \/ /\ Present(job[r].row) /\ To(r, "session")
        /\ uid' = [uid EXCEPT ![job[r].row] = job[r].login]
        /\ UNCHANGED <<login, row, spaces, members, homes, sessions, audit, effects, faults>>

\* Variant: the status is not looked at.
MakeSessionAny(r) ==
  /\ At(r, "signin", "session") /\ End(r)
  /\ sessions' = sessions \cup {job[r].row}
  /\ UNCHANGED <<login, row, uid, spaces, members, homes, audit, effects, faults>>
\* A suspended account, as the row was read, gets no session.
MakeSession(r) ==
  /\ At(r, "signin", "session") /\ End(r)
  /\ sessions' = IF job[r].was = "suspended" THEN sessions ELSE sessions \cup {job[r].row}
  /\ UNCHANGED <<login, row, uid, spaces, members, homes, audit, effects, faults>>

\* createWorkspace of somebody who has none; one making of a workspace per account
\* is in view at a time.
OwnSpace(r) ==
  /\ \E u \in (Existing \cap sessions) \ spaces :
       /\ row[u] = "active"
       /\ \A s \in Requests : job[s].row = u => job[s].kind \notin {"create", "space"}
       /\ Begin(r, [Idle EXCEPT !.kind = "space", !.at = "space", !.row = u])
  /\ UNCHANGED <<accounts, faults>>
OwnSpaceRow(r) ==
  /\ At(r, "space", "space") /\ To(r, "member")
  /\ spaces' = spaces \cup {job[r].row}
  /\ UNCHANGED <<login, row, uid, members, homes, sessions, audit, effects, faults>>

OwnSpaceMember(r) ==
  /\ At(r, "space", "member")
  /\ \/ members' = members \cup {job[r].row} /\ To(r, "home") /\ UNCHANGED faults
     \/ Refuses /\ To(r, "undo") /\ UNCHANGED members
  /\ UNCHANGED <<login, row, uid, spaces, homes, sessions, audit, effects>>
\* Variant: the workspace stays when its Membership cannot be made.
UndoSpaceNot(r) == At(r, "space", "undo") /\ Refused(r)
\* The owner's Membership could not be made: the workspace goes again.
UndoSpace(r) ==
  /\ At(r, "space", "undo") /\ End(r)
  /\ spaces' = spaces \ {job[r].row}
  /\ UNCHANGED <<login, row, uid, members, homes, sessions, audit, effects, faults>>
OwnSpaceHome(r) ==
  /\ At(r, "space", "home") /\ End(r)
  /\ homes' = IF Present(job[r].row) THEN homes \cup {job[r].row} ELSE homes
  /\ UNCHANGED <<login, row, uid, spaces, members, sessions, audit, effects, faults>>

\* The process stops in the middle of a request.
Stop(r) == job[r] # Idle /\ Refuses /\ End(r) /\ UNCHANGED accounts

------------------------------------------------------------------------------
Step(r) ==
  \/ Create(r) \/ CreateLogin(r) \/ CreateRow(r) \/ CreateSpace(r) \/ CreateHome(r)
  \/ CreateMember(r) \/ LogCreate(r)
  \/ Update(r) \/ EndSessions(r) \/ SwitchLogin(r) \/ SaveStatus(r) \/ LogUpdate(r)
  \/ Delete(r) \/ Close(r) \/ DeleteLogin(r) \/ DeleteMembers(r) \/ DeleteSpace(r)
  \/ DeleteSessions(r) \/ DeleteRow(r) \/ LogDelete(r)
  \/ SignIn(r) \/ SignUpRow(r) \/ Bind(r) \/ MakeSession(r)
  \/ OwnSpace(r) \/ OwnSpaceRow(r) \/ OwnSpaceMember(r) \/ UndoSpace(r) \/ OwnSpaceHome(r)
  \/ Stop(r)

\* Two requests at one row that do not commute: changes of the status, a status
\* and a sign-in, a deletion and anything that writes.
Clash(k, l) ==
  \/ k = "update" /\ l \in {"update", "signin"}
  \/ k \in {"delete", "close"} /\ l \in {"create", "space", "signin", "update"}
About(r) == {<<"row", job[r].row>>, <<"login", job[r].login>>} \ {<<"row", NoRow>>, <<"login", NoLogin>>}
Crossing(r, s) == r # s /\ About(r) \cap About(s) # {} /\ Clash(job[r].kind, job[s].kind)
Crossed == UNION {About(r) : r \in {x \in Requests : \E y \in Requests : Crossing(x, y) \/ Crossing(y, x)}}
Failed(r) == IF faults' > faults /\ job'[r].at # "undo" THEN {<<"failed", job[r].row>>} ELSE {}

\* A suspended row that gets another login: the address has an enabled one again.
Rebound == {<<"rebound", u>> : u \in {v \in Rows : row[v] = "suspended" /\ uid'[v] # uid[v]}}

ConsoleNext ==
  \/ \E r \in Requests : Step(r) /\ stray' = stray \cup Crossed' \cup Failed(r) \cup Rebound
  \/ Register /\ UNCHANGED stray

ConsoleSpec == ConsoleInit /\ [][ConsoleNext]_consoleVars

------------------------------------------------------------------------------
Uncrossed(u) ==
  LET mine == {<<"row", u>>, <<"login", uid[u]>>} IN
  mine \cap stray = {} /\ \A r \in Requests : mine \cap About(r) = {}
AtRest(u) == Uncrossed(u) /\ <<"failed", u>> \notin stray

ConsoleTypeOK ==
  /\ login \in [Logins -> {"none", "on", "off", "gone"}]
  /\ row \in [Rows -> {"none", "active", "suspended", "gone"}]
  /\ uid \in [Rows -> Logins \cup {NoLogin}]
  /\ spaces \cup members \cup homes \cup sessions \subseteq Rows
  /\ Cardinality(Existing) <= 1 /\ Cardinality(Known) <= 1

\* An admin the console made is whole: workspace, owner's Membership and home; no
\* workspace is without its owner's Membership; and of an account that was deleted
\* nothing is left, the login least of all.
AccountsWhole ==
  \A u \in Rows : AtRest(u) =>
    /\ Present(u) /\ <<"create", u>> \in audit => u \in spaces \cap members \cap homes
    /\ u \in spaces => u \in members
    /\ row[u] = "gone" => /\ u \notin spaces \cup members \cup homes \cup sessions
                          /\ login[uid[u]] = "gone"

\* A suspended account has no session, even where the provider refused to disable
\* its login; and where nothing failed its login is disabled, as an active one's is not,
\* unless a sign-in bound the suspended row to another login.
LoginsAgree ==
  \A u \in Existing :
    /\ Uncrossed(u) /\ row[u] = "suspended" => u \notin sessions
    /\ AtRest(u) /\ <<"rebound", u>> \notin stray => (row[u] = "suspended" <=> login[uid[u]] = "off")

\* services/superadminOps.service.ts: "Every mutation writes an AuditLog row".  A
\* change without its row is still under way, or was cut short; and no row tells of
\* a change that did not take place.
Audited ==
  /\ \A e \in effects \ audit : ~AtRest(e[2])
  /\ audit \subseteq effects
==============================================================================
