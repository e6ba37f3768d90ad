------------------------------- MODULE Triage -------------------------------
(* Handling the responses of one form: services/response.service.ts (stage,   *)
(* assignee, tags, Trash, offboarding), services/bulk.service.ts and          *)
(* services/tag.service.ts.                                                   *)
(*                                                                            *)
(* Requests read, decide and write in separate round trips; members go and    *)
(* tags are deleted or merged between those.                                  *)
EXTENDS Naturals, FiniteSets

CONSTANTS
  Responses,    \* responses of the form
  Tests,        \* those left while testing (isTest): unseen by a find without ids
  People,       \* users that can be assigned
  Tags,         \* tag ids of the workspace
  Slots,        \* requests under way at the same time
  None,
  MaxRequests,  \* bound: requests
  MaxFaults     \* bound: requests cut short

ASSUME TriageAssumption ==
  /\ Tests \subseteq Responses /\ None \notin People \cup Tags
  /\ MaxRequests \in Nat /\ MaxFaults \in Nat

VARIABLES
  resp,      \* Response rows: assignee, tags, in Trash or not
  tagRows,   \* ids of the Tag rows there are
  member,    \* who has a Membership row
  shared,    \* who has a FormAccessGrant row for the form
  trashed,   \* is the form in Trash?
  request,   \* the handler in each slot and what it read
  excused,   \* history: <<response, person or tag>> outside the rules, and why below
  started, faults

triageVars == <<resp, tagRows, member, shared, trashed, request, excused, started, faults>>

Idle == [kind |-> "idle", at |-> "idle", todo |-> {}, arg |-> None, into |-> None, seen |-> {}, was |-> FALSE]

Init ==
  /\ \E u \in People \cup {None}, T \in {{}, Tags} :
       resp = [r \in Responses |-> [assignee |-> u, tags |-> T, deleted |-> FALSE]]
  /\ tagRows = Tags
  /\ member \in SUBSET People
  /\ shared = People \ member
  /\ trashed = FALSE
  /\ request = [k \in Slots |-> Idle]
  /\ excused = {} /\ started = 0 /\ faults = 0

\* userHasAccessToForm.
CanTake(u) == u \in member \cup shared
\* The people and tags that a check lets through now.
Valids == member \cup shared \cup tagRows

Open(k, r) ==
  /\ request[k] = Idle /\ started < MaxRequests
  /\ started' = started + 1
  /\ request' = [request EXCEPT ![k] = r]
Close(k) == request' = [request EXCEPT ![k] = Idle]
people == <<member, shared>>

------------------------------------------------------------------------------
(* Changes of responses, one by one (PATCH /responses/:id, DELETE) or in bulk. *)

Changes == {"assign", "tag", "untag", "delete", "restore"}

\* Variant: any tag id is taken.
ValidTag(kind, arg) == kind = "assign" => arg = None \/ CanTake(arg)
\* What the change needs of the moment it is applied to a response.
Valid(kind, arg) ==
  CASE kind = "assign" -> arg = None \/ CanTake(arg)
    [] kind \in {"tag", "untag"} -> arg \in tagRows
    [] OTHER -> TRUE

Args(kind) == CASE kind = "assign" -> People \cup {None}
                [] kind \in {"tag", "untag"} -> Tags
                [] OTHER -> {None}

\* A bulk request reads its responses and their form at the start; what is in
\* Trash may be among them. The caller's rights are worked out once per form.
Bulk(k) ==
  /\ ~trashed
  /\ \E kind \in Changes : \E arg \in Args(kind) : \E todo \in SUBSET Responses \ {{}} :
       Open(k, [Idle EXCEPT !.kind = kind, !.at = "check", !.todo = todo, !.arg = arg])
  /\ UNCHANGED <<resp, tagRows, people, trashed, excused, faults>>

\* Each in turn: checked, then written; the ones that fail are left out.
BulkCheck(k, r) ==
  LET q == request[k]
  IN /\ q.at = "check" /\ r \in q.todo
     /\ request' = [request EXCEPT ![k] =
          IF Valid(q.kind, q.arg) THEN [q EXCEPT !.at = "write", !.seen = {r}, !.was = q.arg \in Valids]
          ELSE IF q.todo = {r} THEN Idle ELSE [q EXCEPT !.todo = @ \ {r}]]
     /\ UNCHANGED <<resp, tagRows, people, trashed, excused, started, faults>>

\* updateResponseAssignee: one response, not in Trash, of a form that is not.
Assign(k, r) ==
  /\ ~trashed /\ ~resp[r].deleted
  /\ \E u \in People \cup {None} :
       /\ Valid("assign", u)
       /\ Open(k, [Idle EXCEPT !.kind = "assign", !.at = "write", !.todo = {r}, !.arg = u, !.seen = {r},
                              !.was = u \in Valids])
  /\ UNCHANGED <<resp, tagRows, people, trashed, excused, faults>>

\* updateResponseTags: the whole list, every tag of which exists.
Retag(k, r) ==
  /\ ~trashed /\ ~resp[r].deleted
  /\ \E T \in SUBSET tagRows :
       Open(k, [Idle EXCEPT !.kind = "retag", !.at = "write", !.todo = {r}, !.into = T, !.seen = {r},
                              !.was = T \subseteq Valids])
  /\ UNCHANGED <<resp, tagRows, people, trashed, excused, faults>>

\* deleteResponse moves one response to Trash.
Delete(k, r) ==
  /\ ~trashed
  /\ Open(k, [Idle EXCEPT !.kind = "delete", !.at = "write", !.todo = {r}, !.seen = {r}])
  /\ UNCHANGED <<resp, tagRows, people, trashed, excused, faults>>

\* A tag that is put on r now may be missed by its removal under way: a merge
\* that has not seen r, a deletion that has passed r.
Missed(r, t) ==
  \/ t \notin tagRows
  \/ \E j \in Slots : \/ request[j].kind = "merge" /\ request[j].arg = t /\ r \notin request[j].todo
                      \/ request[j].kind = "deltag" /\ request[j].arg = t /\ request[j].at = "row"

Applied(row, q) ==
  CASE q.kind = "assign"  -> [row EXCEPT !.assignee = q.arg]
    [] q.kind = "retag"   -> [row EXCEPT !.tags = q.into]
    [] q.kind = "tag"     -> [row EXCEPT !.tags = @ \cup {q.arg}]
    [] q.kind = "untag"   -> [row EXCEPT !.tags = @ \ {q.arg}]
    [] q.kind = "delete"  -> [row EXCEPT !.deleted = TRUE]
    [] q.kind = "restore" -> [row EXCEPT !.deleted = FALSE]

Write(k) ==
  LET q == request[k]
  IN /\ q.at = "write"
     /\ \E r \in q.seen :
          /\ resp' = [resp EXCEPT ![r] = Applied(@, q)]
          /\ excused' = IF ~q.was THEN excused ELSE excused
               \cup {<<r, u>> : u \in {u \in {q.arg} \cap People : ~CanTake(u)}}
               \cup {<<r, t>> : t \in {t \in resp'[r].tags \ resp[r].tags : Missed(r, t)}}
          /\ request' = [request EXCEPT ![k] =
               IF q.todo = {r} THEN Idle
               ELSE [q EXCEPT !.todo = @ \ {r}, !.at = "check", !.seen = {}]]
     /\ UNCHANGED <<tagRows, people, trashed, started, faults>>

------------------------------------------------------------------------------
(* Tags: deleteTag takes the tag off every response, then the row away;       *)
(* mergeTag does both in one transaction.                                     *)

DeleteTag(k, t) ==
  /\ t \in tagRows
  /\ Open(k, [Idle EXCEPT !.kind = "deltag", !.at = "pull", !.arg = t])
  /\ UNCHANGED <<resp, tagRows, people, trashed, excused, faults>>

PullTag(k) ==
  /\ request[k].kind = "deltag" /\ request[k].at = "pull"
  /\ resp' = [r \in Responses |-> [resp[r] EXCEPT !.tags = @ \ {request[k].arg}]]
  /\ request' = [request EXCEPT ![k].at = "row"]
  /\ UNCHANGED <<tagRows, people, trashed, excused, started, faults>>

DropTag(k) ==
  /\ request[k].kind = "deltag" /\ request[k].at = "row"
  /\ tagRows' = tagRows \ {request[k].arg}
  /\ Close(k)
  /\ UNCHANGED <<resp, people, trashed, excused, started, faults>>

Tagged(t) == {r \in Responses : t \in resp[r].tags}

MergeTag(k, s, t) ==
  /\ {s, t} \subseteq tagRows /\ s # t
  /\ Open(k, [Idle EXCEPT !.kind = "merge", !.at = "commit", !.arg = s, !.into = t,
                          !.todo = Tagged(s), !.seen = resp])
  /\ UNCHANGED <<resp, tagRows, people, trashed, excused, faults>>

\* Variant: the source is taken off first, so the second update finds nothing.
MergedPullFirst(row, s, t) == [row EXCEPT !.tags = @ \ {s}]
\* Variant: the target is added as a list of one.
MergedNested(row, s, t) == [row EXCEPT !.tags = (@ \cup {{t}}) \ {s}]
\* Both updates of the transaction: the target is added, the source taken off.
Merged(row, s, t) == [row EXCEPT !.tags = (@ \cup {t}) \ {s}]

\* A response written since the transaction began makes it start over.
CommitMerge(k) ==
  LET q == request[k]
  IN /\ q.kind = "merge"
     /\ IF \E r \in q.todo : resp[r] # q.seen[r]
        THEN /\ request' = [request EXCEPT ![k].todo = Tagged(q.arg), ![k].seen = resp]
             /\ UNCHANGED <<resp, tagRows, excused>>
        ELSE /\ resp' = [r \in Responses |->
                  IF r \in q.todo THEN Merged(resp[r], q.arg, q.into) ELSE resp[r]]
             /\ tagRows' = tagRows \ {q.arg}
             /\ excused' = excused \cup {<<r, q.into>> : r \in
                             {r \in q.todo : q.into \notin resp[r].tags /\ Missed(r, q.into)}}
             /\ Close(k)
     /\ UNCHANGED <<people, trashed, started, faults>>

------------------------------------------------------------------------------
(* People: removing a member unassigns the responses that are assigned to it; *)
(* leaving and losing a share do not.                                         *)

Assigned(u) == {r \in Responses : resp[r].assignee = u}
Hidden(r) == trashed \/ resp[r].deleted \/ r \in Tests

Remove(k, u) ==
  /\ u \in member
  /\ Open(k, [Idle EXCEPT !.kind = "remove", !.at = "list", !.arg = u])
  /\ member' = member \ {u}
  /\ UNCHANGED <<resp, tagRows, shared, trashed, excused, faults>>

\* Variant: what carries a tag counts as dealt with.
ListAssignedUntagged(u) == {r \in Assigned(u) : ~Hidden(r) /\ resp[r].tags = {}}
\* offboardMemberAssignments: the list, read once ...
ListAssigned(u) == {r \in Assigned(u) : ~Hidden(r)}
Offboard(k) ==
  LET u == request[k].arg
  IN /\ request[k].kind = "remove" /\ request[k].at = "list"
     /\ excused' = excused \cup {<<r, u>> : r \in {r \in Assigned(u) : Hidden(r)}}
     /\ request' = [request EXCEPT ![k] = IF ListAssigned(u) = {} THEN Idle
                                          ELSE [@ EXCEPT !.at = "each", !.todo = ListAssigned(u)]]
     /\ UNCHANGED <<resp, tagRows, people, trashed, started, faults>>

\* ... and unassigned one by one, to whomever each is assigned by now.
Unassign(k, r) ==
  LET q == request[k]
  IN /\ q.kind = "remove" /\ r \in q.todo
     /\ resp' = [resp EXCEPT ![r].assignee = None]
     /\ request' = [request EXCEPT ![k] = IF q.todo = {r} THEN Idle ELSE [q EXCEPT !.todo = @ \ {r}]]
     /\ UNCHANGED <<tagRows, people, trashed, excused, started, faults>>

Leave(u) ==
  /\ started < MaxRequests /\ started' = started + 1
  /\ \/ u \in member /\ member' = member \ {u} /\ UNCHANGED shared
     \/ u \in shared /\ shared' = shared \ {u} /\ UNCHANGED member
  /\ excused' = excused \cup {<<r, u>> : r \in Assigned(u)}
  /\ UNCHANGED <<resp, tagRows, trashed, request, faults>>

Trash ==
  /\ started < MaxRequests /\ started' = started + 1
  /\ trashed' = ~trashed
  /\ UNCHANGED <<resp, tagRows, people, request, excused, faults>>

\* The process stops in the middle of a handler.
Cut(k) ==
  LET q == request[k]
  IN /\ q # Idle /\ faults < MaxFaults
     /\ faults' = faults + 1
     /\ excused' = excused
          \cup (IF q.kind = "remove" THEN {<<r, q.arg>> : r \in Assigned(q.arg)} ELSE {})
     /\ Close(k)
     /\ UNCHANGED <<resp, tagRows, people, trashed, started>>

Next ==
  \/ \E k \in Slots :
       \/ Bulk(k) \/ Write(k) \/ PullTag(k) \/ DropTag(k) \/ CommitMerge(k)
       \/ Offboard(k) \/ Cut(k)
       \/ \E r \in Responses : BulkCheck(k, r) \/ Assign(k, r) \/ Retag(k, r) \/ Delete(k, r) \/ Unassign(k, r)
       \/ \E t \in Tags : DeleteTag(k, t) \/ \E s \in Tags : MergeTag(k, s, t)
       \/ \E u \in People : Remove(k, u)
  \/ \E u \in People : Leave(u)
  \/ Trash

------------------------------------------------------------------------------
\* Every attribute keeps its type; a request's responses are of the form.
TypeOK ==
  /\ resp \in [Responses -> [assignee : People \cup {None}, tags : SUBSET Tags, deleted : BOOLEAN]]
  /\ tagRows \subseteq Tags /\ member \subseteq People /\ shared \subseteq People

\* Removing a member leaves it no response, but the ones in Trash or left while
\* testing when the list was read, and the ones that a request checked before
\* the removal assigns after it.
RemovedHoldNothing ==
  \A r \in Responses : \A u \in People :
    resp[r].assignee = u /\ ~CanTake(u) =>
      \/ <<r, u>> \in excused
      \/ \E k \in Slots : /\ request[k].kind = "remove" /\ request[k].arg = u
                          /\ request[k].at = "list" \/ r \in request[k].todo

\* A tag that is gone is on no response, but those it was put on while its
\* deletion or its merge was under way.
TagsExist ==
  \A r \in Responses : \A t \in resp[r].tags \ tagRows : <<r, t>> \in excused

\* A merge loses no mark: the responses that carry the source when its row goes
\* carry the target instead, but those the transaction had not seen.
MergeCarriesOver ==
  [][\A k \in Slots :
       request[k].kind = "merge" /\ request'[k] = Idle /\ faults' = faults =>
         \A r \in Tagged(request[k].arg) :
           \/ request[k].into \in resp'[r].tags /\ request[k].arg \notin resp'[r].tags
           \/ <<r, request[k].arg>> \in excused]_triageVars
=============================================================================
