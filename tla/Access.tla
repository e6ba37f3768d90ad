-------------------------------- MODULE Access --------------------------------
(* Who may do what: middleware/permission.middleware.ts.                       *)
(*                                                                             *)
(* Every protected route runs requirePermission before its handler.  It finds  *)
(* the workspace the request is about, the caller's role there or a grant on   *)
(* one form, and lets the request pass in that context or refuses it.  There   *)
(* are a shared workspace Main with the form Shared, a personal form Private   *)
(* of its Creator, and another workspace that every user owns for himself.     *)
EXTENDS FiniteSets

CONSTANTS Users, Creator, None

ASSUME AccessAssumption == Creator \in Users /\ None \notin Users \cup {"owner", "admin", "editor", "viewer", "Shared", "Private"}

Roles == {"owner", "admin", "editor", "viewer"}
Targets == {"Shared", "Private"}

\* The permissions that tell the roles apart, as resource and act.
Permissions == {<<"responses", "read">>, <<"responses", "delete">>,
                <<"forms", "write">>, <<"forms", "publish">>, <<"forms", "delete">>,
                <<"team", "manage">>}

\* Variant: a wildcard that takes the owner's own permission along.
GrantedFormsStar(role) ==
  CASE role = "owner"  -> {<<"*", "*">>}
    [] role = "admin"  -> {<<"forms", "*">>, <<"responses", "*">>, <<"team", "*">>}
    [] role = "editor" -> {<<"forms", "write">>, <<"responses", "read">>}
    [] role = "viewer" -> {<<"responses", "read">>}
    [] OTHER           -> {}
\* ROLE_PERMISSIONS: member is the same as editor here, reviewer as viewer.
Granted(role) ==
  CASE role = "owner"  -> {<<"*", "*">>}
    [] role = "admin"  -> {<<"forms", "write">>, <<"forms", "publish">>,
                           <<"responses", "*">>, <<"team", "*">>}
    [] role = "editor" -> {<<"forms", "write">>, <<"responses", "read">>}
    [] role = "viewer" -> {<<"responses", "read">>}
    [] OTHER           -> {}

\* hasPermission: everything, this very permission, or all of its resource.
Has(role, p) ==
  {<<"*", "*">>, p, <<p[1], "*">>} \cap Granted(role) # {}

\* A request: the caller, the permission the route asks for, the form it names
\* in its path or only in ?formId=, and the scope its headers ask for.
Requests == [user : Users, asks : Permissions, path : Targets \cup {None},
             query : {"Shared", None}, scope : {"Main", "Own", "personal", None}]

Allow(context, role) == [ok |-> TRUE, context |-> context, role |-> role]
Refuse == [ok |-> FALSE, context |-> None, role |-> None]

(* S is the state of the access tables: S.role, the Membership rows of Main,   *)
(* S.owner, Workspace.owner, and S.grant, the FormAccessGrant rows.            *)

\* A grant adds access and never lowers it: it is set aside for who has the
\* form's workspace behind him.
MembershipSuffices(S, u, f, p) ==
  IF f = "Private" THEN u = Creator
  ELSE \/ S.role[u] \in {"owner", "admin"}
       \/ S.owner = u
       \/ S.role[u] # None /\ Has(S.role[u], p)

\* Membership, or the owner on the workspace row whose Membership row is missing.
RoleIn(S, u, w) ==
  IF w = "Own" THEN "owner"
  ELSE IF S.role[u] # None THEN S.role[u]
  ELSE IF S.owner = u THEN "owner" ELSE None

InWorkspace(S, q, w) ==
  LET r == RoleIn(S, q.user, w)
  IN IF r # None /\ Has(r, q.asks) THEN Allow(w, r) ELSE Refuse

\* Workspace permissions are never asked of a personal space.
WorkspaceLevel(p) == p[1] = "team"

\* The caller's own workspace is the default.
WithoutResource(S, q) ==
  IF q.scope = "personal" /\ ~WorkspaceLevel(q.asks) THEN Allow("personal", None)
  ELSE InWorkspace(S, q, IF q.scope \in {"Main", "Own"} THEN q.scope ELSE "Own")

NamedForm(q) == IF q.path # None THEN q.path ELSE q.query

\* Variant: the grant is looked at first, and alone.
GrantCountsFirst(S, q) ==
  /\ NamedForm(q) # None
  /\ S.grant[<<q.user, NamedForm(q)>>] # None
GrantCounts(S, q) ==
  /\ NamedForm(q) # None
  /\ S.grant[<<q.user, NamedForm(q)>>] # None
  /\ ~MembershipSuffices(S, q.user, NamedForm(q), q.asks)

\* Variant: the personal signal is honoured before the form is looked up.
DecideSignalFirst(S, q) ==
  IF q.scope = "personal" /\ ~WorkspaceLevel(q.asks) THEN Allow("personal", None)
  ELSE IF GrantCounts(S, q)
  THEN LET r == S.grant[<<q.user, NamedForm(q)>>]
       IN IF Has(r, q.asks)
          THEN Allow(IF NamedForm(q) = "Shared" THEN "Main" ELSE "personal", r)
          ELSE Refuse
  ELSE IF q.path = "Private"
  THEN IF q.user = Creator THEN Allow("personal", None) ELSE Refuse
  ELSE IF q.path = "Shared" THEN InWorkspace(S, q, "Main")
  ELSE WithoutResource(S, q)
\* requirePermission.  What the path names decides, before any header.
Decide(S, q) ==
  IF GrantCounts(S, q)
  THEN LET r == S.grant[<<q.user, NamedForm(q)>>]
       IN IF Has(r, q.asks)
          THEN Allow(IF NamedForm(q) = "Shared" THEN "Main" ELSE "personal", r)
          ELSE Refuse
  ELSE IF q.path = "Private"
  THEN IF q.user = Creator THEN Allow("personal", None) ELSE Refuse
  ELSE IF q.path = "Shared" THEN InWorkspace(S, q, "Main")
  ELSE WithoutResource(S, q)

------------------------------------------------------------------------------
\* Those whose path names a form, and those that delete one.
OnForm == {q \in Requests : q.path # None}
Deletions == {q \in Requests : q.asks = <<"forms", "delete">>}
NoGrants(S) == [S EXCEPT !.grant = [x \in DOMAIN S.grant |-> None]]

\* "A grant can only add access, never lower it": whoever may do something to
\* a form without his grant may do it with the grant as well, in the workspace
\* of that form.
GrantsOnlyAdd(S) ==
  LET none == NoGrants(S) IN \A q \in OnForm : Decide(none, q).ok => Decide(S, q).ok

\* The personal signal and the workspace headers choose nothing for a request
\* whose path names a form, and a personal form opens to its creator and to who
\* holds a grant on it.
ResourceDecides(S) ==
  \A q \in OnForm :
    /\ Decide(S, q) = Decide(S, [q EXCEPT !.scope = None])
    /\ q.path = "Private" /\ Decide(S, q).ok =>
         q.user = Creator \/ S.grant[<<q.user, "Private">>] # None

\* forms:delete is the owner's alone: over wildcards, grants and defaults no
\* admin deletes the shared form or an answer's form.
DeleteIsTheOwners(S) ==
  \A q \in Deletions : Decide(S, q).ok /\ Decide(S, q).context = "Main" =>
    S.role[q.user] = "owner" \/ S.owner = q.user
==============================================================================
