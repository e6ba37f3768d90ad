---------------------------- MODULE HandlingProofs ----------------------------
(* Proofs about Handling, for any number of responses, people, tags, criteria,  *)
(* requests and steps: what removals, deletions, merges, edits of notes,        *)
(* deletions of criteria and places on the Board promise.  One part is          *)
(* followed, the others rest, so that the parts' invariants are proved side by  *)
(* side and put together at the end.                                            *)
EXTENDS Handling, FiniteSetTheorems, TLAPS

Here == Marks!There

(* Responses: what each request that is under way has read and may write, and  *)
(* what keeps a member that went and a tag that goes off the responses.        *)

\* What a request may be: a change of responses that is checked or written, the end of a
\* tag, a merge, a removal.
Changing == Changes \cup {"retag"}
Typed(q) ==
  /\ DOMAIN q = {"kind", "at", "todo", "arg", "into", "seen", "was"}
  /\ q.kind \in {"idle", "deltag", "merge", "remove"} \cup Changing
  /\ q.todo \subseteq Responses
  /\ q.kind = "idle" => q.at = "idle" /\ q.todo = {}
  /\ q.kind = "deltag" => q.at \in {"pull", "row"} /\ q.arg \in Tags /\ q.todo = {}
  /\ q.kind = "merge" => q.at = "commit" /\ q.arg \in Tags /\ q.into \in Tags /\ q.arg # q.into
  /\ q.kind = "remove" => q.at \in {"list", "each"} /\ q.arg \in People /\ (q.at = "list" => q.todo = {})
  /\ q.kind \in Changing => q.at \in {"check", "write"} /\ q.seen \subseteq q.todo
  /\ q.kind \in Changes => q.arg \in Args(q.kind) /\ (q.at = "check" => q.seen = {})
  /\ q.kind = "retag" => /\ q.at = "write" /\ q.into \subseteq Tags /\ q.was
                         /\ \A r \in q.seen : q.todo = {r}
  /\ q.kind \in {"tag", "untag"} /\ q.at = "write" => q.was
  /\ q.kind = "assign" /\ q.at = "write" /\ q.arg # None => q.was
RequestInv == DOMAIN request = Slots /\ \A k \in Slots : Typed(request[k])

\* A tag that is on a response although it is gone, is about to go, or is merged without
\* that response, is there by a write that was late.
TagInv ==
  \A r \in Responses : \A t \in resp[r].tags :
    Missed(r, t) => <<r, t>> \in excused

TriageInv == TypeOK /\ RequestInv /\ faults \in Nat /\ RemovedHoldNothing /\ TagInv

(* Criteria and scores. *)
Pending(c) == \E e \in Editors : Marks!At(e, "delete", "write") /\ editing[e].which = c
CriterionTypes ==
  /\ DOMAIN criterion = Criteria
  /\ \A c \in Criteria : DOMAIN criterion[c] = {"there", "order", "default"}
  /\ DOMAIN editing = Editors
  /\ \A e \in Editors : DOMAIN editing[e] = {"kind", "at", "which", "who", "order"}
\* A form without criteria never had one: no request has got beyond the seed. Later there
\* is a default no deletion is under way for.
DefaultInv ==
  IF Here = {} THEN \A e \in Editors : editing[e].at \in {"idle", "seed"}
  ELSE \E c \in Here : criterion[c].default /\ ~Pending(c)
ScoreInv == CriterionTypes /\ DefaultInv /\ entries \in [Reviewers \X Criteria -> {0, 1}]

(* Notes. *)
Reached(u) ==
  \/ u \in told \cup missed
  \/ \E h \in Hands : writing[h].at = "notify" /\ u \in writing[h].todo
\* What holds of the mentions of the note holds of those an edit has read.
NoteInv ==
  /\ DOMAIN writing = Hands
  /\ \A h \in Hands : /\ DOMAIN writing[h] = {"at", "mentions", "before", "todo"}
                      /\ writing[h].at \in {"create", "save"} =>
                           \A u \in writing[h].before \ {Author} : Reached(u)
  /\ note # None => \A u \in note \ {Author} : Reached(u)

(* The Board. *)
Ranks == Int \cup {None}
\* What a request that places a card holds: a card, the column it read without that card,
\* and two neighbours in it.
Holding(p) ==
  /\ DOMAIN p = {"card", "from", "column", "ranks", "above", "below", "at"}
  /\ p.at \in {"idle", "top", "between"}
  /\ p.at = "idle" => p.card = None
  /\ p.at # "idle" => /\ p.card \in Cards /\ p.column \subseteq Cards \ {p.card}
                      /\ p.ranks \in [p.column -> Ranks]
  /\ p.at = "between" => /\ p.above \in p.column \cup {None} /\ p.below \in p.column \cup {None}
                         /\ Order!Neighbours(p.ranks, p.column, p.above, p.below)
\* As long as nobody else has touched the column, it is as it was read, numbered or not.
AsRead(h) ==
  placing[h].at # "idle" /\ ~dirty[h] =>
    /\ stage[placing[h].card] = placing[h].from
    /\ placing[h].column = Order!Column(placing[h].from) \ {placing[h].card}
    /\ \A d \in placing[h].column : placing[h].ranks[d] = rank[d]
BoardInv ==
  /\ stage \in [Cards -> Columns] /\ rank \in [Cards -> Ranks]
  /\ DOMAIN placing = Hands /\ DOMAIN dirty = Hands
  /\ \A h \in Hands : Holding(placing[h]) /\ AsRead(h)

HandlingInv == TriageInv /\ ScoreInv /\ NoteInv /\ BoardInv

\* A request that begins is one of those above.
LEMMA OpenTyped ==
  ASSUME RequestInv, NEW k \in Slots, NEW q, Open(k, q), Typed(q)
  PROVE  RequestInv'
BY DEF RequestInv, Open, Typed

\* A request that goes on or ends is, too.
LEMMA StepTyped ==
  ASSUME RequestInv, NEW k \in Slots, NEW q, request' = [request EXCEPT ![k] = q], Typed(q)
  PROVE  RequestInv'
BY DEF RequestInv, Typed

\* So is a slot at rest.
LEMMA IdleTyped == Typed(Idle)
BY DEF Typed, Idle, Changing, Changes

\* Requests keep to what they may be.
LEMMA RequestsKept ==
  ASSUME RequestInv, TypeOK, Next
  PROVE  RequestInv'
<1>a. \A k \in Slots : Typed(request[k])
  BY DEF RequestInv
<1>1. ASSUME NEW k \in Slots, Bulk(k) PROVE RequestInv'
  <2>0. PICK kind \in Changes : \E arg \in Args(kind) : \E todo \in SUBSET Responses \ {{}} :
          Open(k, [Idle EXCEPT !.kind = kind, !.at = "check", !.todo = todo, !.arg = arg])
    BY <1>1 DEF Bulk
  <2>1. PICK arg \in Args(kind), todo \in SUBSET Responses \ {{}} :
          Open(k, [Idle EXCEPT !.kind = kind, !.at = "check", !.todo = todo, !.arg = arg])
    BY <2>0
  <2>2. Typed([Idle EXCEPT !.kind = kind, !.at = "check", !.todo = todo, !.arg = arg])
    BY DEF Typed, Idle, Changing, Changes
  <2> QED BY <2>1, <2>2, OpenTyped
<1>2. ASSUME NEW k \in Slots, Write(k) PROVE RequestInv'
  <2>1. PICK q : q = request[k]
    OBVIOUS
  <2>2. Typed(q) /\ q.at = "write"
    BY <1>2, <1>a, <2>1 DEF Write
  <2>3. PICK r \in q.seen : request' = [request EXCEPT ![k] =
               IF q.todo = {r} THEN Idle
               ELSE [q EXCEPT !.todo = @ \ {r}, !.at = "check", !.seen = {}]]
    BY <1>2, <2>1 DEF Write
  <2>4. CASE q.todo = {r}
    BY <2>3, <2>4, IdleTyped, StepTyped
  <2>5. CASE q.todo # {r}
    <3>1. q.kind \in Changes
      BY <2>2, <2>3, <2>5 DEF Typed, Changing, Changes
    <3>2. Typed([q EXCEPT !.todo = @ \ {r}, !.at = "check", !.seen = {}])
      BY <2>2, <3>1 DEF Typed, Changing, Changes
    <3> QED BY <2>3, <2>5, <3>2, StepTyped
  <2> QED BY <2>4, <2>5
<1>3. ASSUME NEW k \in Slots, PullTag(k) PROVE RequestInv'
  <2>1. PICK q : q = request[k]
    OBVIOUS
  <2>2. Typed([q EXCEPT !.at = "row"]) /\ request' = [request EXCEPT ![k] = [q EXCEPT !.at = "row"]]
    BY <1>3, <1>a, <2>1 DEF PullTag, Typed, Changing, Changes
  <2> QED BY <2>2, StepTyped
<1>4. ASSUME NEW k \in Slots, DropTag(k) PROVE RequestInv'
  BY <1>4, IdleTyped, StepTyped DEF DropTag, Close
<1>5. ASSUME NEW k \in Slots, CommitMerge(k) PROVE RequestInv'
  <2>1. PICK q : q = request[k]
    OBVIOUS
  <2>2. CASE request' = [request EXCEPT ![k] = Idle]
    BY <2>2, IdleTyped, StepTyped
  <2>3. CASE request' = [request EXCEPT ![k].todo = Tagged(q.arg), ![k].seen = resp]
    <3>1. request' = [request EXCEPT ![k] = [q EXCEPT !.todo = Tagged(q.arg), !.seen = resp]]
      BY <2>1, <2>3, <1>a DEF RequestInv
    <3>2. Typed([q EXCEPT !.todo = Tagged(q.arg), !.seen = resp])
      BY <1>5, <1>a, <2>1 DEF CommitMerge, Typed, Tagged, Changing, Changes
    <3> QED BY <3>1, <3>2, StepTyped
  <2> QED BY <1>5, <2>1, <2>2, <2>3 DEF CommitMerge, Close
<1>6. ASSUME NEW k \in Slots, Offboard(k) PROVE RequestInv'
  <2>1. PICK q : q = request[k]
    OBVIOUS
  <2>2. CASE request' = [request EXCEPT ![k] = Idle]
    BY <2>2, IdleTyped, StepTyped
  <2>3. CASE request' = [request EXCEPT ![k] = [q EXCEPT !.at = "each", !.todo = ListAssigned(q.arg)]]
    <3>1. Typed([q EXCEPT !.at = "each", !.todo = ListAssigned(q.arg)])
      BY <1>6, <1>a, <2>1 DEF Offboard, Typed, ListAssigned, Assigned, Changing, Changes
    <3> QED BY <2>3, <3>1, StepTyped
  <2> QED BY <1>6, <2>1, <2>2, <2>3 DEF Offboard
<1>7. ASSUME NEW k \in Slots, Cut(k) PROVE RequestInv'
  BY <1>7, IdleTyped, StepTyped DEF Cut, Close
<1>8. ASSUME NEW k \in Slots, NEW r \in Responses, BulkCheck(k, r) PROVE RequestInv'
  <2>1. PICK q : q = request[k]
    OBVIOUS
  <2>2. Typed(q) /\ q.at = "check" /\ r \in q.todo
    BY <1>8, <1>a, <2>1 DEF BulkCheck
  <2>3. CASE request' = [request EXCEPT ![k] = Idle]
    BY <2>3, IdleTyped, StepTyped
  <2>4. CASE /\ Valid(q.kind, q.arg)
             /\ request' = [request EXCEPT ![k] =
                              [q EXCEPT !.at = "write", !.seen = {r}, !.was = q.arg \in Valids]]
    <3>1. q.kind \in Changes
      BY <2>2 DEF Typed, Changing, Changes
    <3>2. q.kind \in {"tag", "untag"} => q.arg \in Valids
      BY <2>4 DEF Valid, Valids
    <3>3. q.kind = "assign" /\ q.arg # None => q.arg \in Valids
      BY <2>4 DEF Valid, Valids, CanTake
    <3>4. Typed([q EXCEPT !.at = "write", !.seen = {r}, !.was = q.arg \in Valids])
      BY <2>2, <3>1, <3>2, <3>3 DEF Typed, Changing, Changes
    <3> QED BY <2>4, <3>4, StepTyped
  <2>5. CASE request' = [request EXCEPT ![k] = [q EXCEPT !.todo = @ \ {r}]] /\ ~Valid(q.kind, q.arg)
    <3>1. q.kind \in Changes
      BY <2>2 DEF Typed, Changing, Changes
    <3>2. Typed([q EXCEPT !.todo = @ \ {r}])
      BY <2>2, <3>1 DEF Typed, Changing, Changes
    <3> QED BY <2>5, <3>2, StepTyped
  <2> QED BY <1>8, <2>1, <2>3, <2>4, <2>5 DEF BulkCheck
<1>9. ASSUME NEW k \in Slots, NEW r \in Responses, Assign(k, r) PROVE RequestInv'
  <2>1. PICK u \in People \cup {None} :
          /\ Valid("assign", u)
          /\ Open(k, [Idle EXCEPT !.kind = "assign", !.at = "write", !.todo = {r}, !.arg = u, !.seen = {r},
                                  !.was = u \in Valids])
    BY <1>9 DEF Assign
  <2>2. u # None => u \in Valids
    BY <2>1 DEF Valid, Valids, CanTake
  <2>3. Typed([Idle EXCEPT !.kind = "assign", !.at = "write", !.todo = {r}, !.arg = u, !.seen = {r},
                           !.was = u \in Valids])
    BY <2>2 DEF Typed, Idle, Changing, Changes, Args
  <2> QED BY <2>1, <2>3, OpenTyped
<1>10. ASSUME NEW k \in Slots, NEW r \in Responses, Retag(k, r) PROVE RequestInv'
  <2>1. PICK T \in SUBSET tagRows :
          Open(k, [Idle EXCEPT !.kind = "retag", !.at = "write", !.todo = {r}, !.into = T, !.seen = {r},
                                  !.was = T \subseteq Valids])
    BY <1>10 DEF Retag
  <2>2. T \subseteq Valids /\ T \subseteq Tags
    BY DEF Valids, TypeOK
  <2>3. Typed([Idle EXCEPT !.kind = "retag", !.at = "write", !.todo = {r}, !.into = T, !.seen = {r},
                                  !.was = T \subseteq Valids])
    BY <2>2 DEF Typed, Idle, Changing, Changes
  <2> QED BY <2>1, <2>3, OpenTyped
<1>11. ASSUME NEW k \in Slots, NEW r \in Responses, Delete(k, r) PROVE RequestInv'
  <2>1. Typed([Idle EXCEPT !.kind = "delete", !.at = "write", !.todo = {r}, !.seen = {r}])
    BY DEF Typed, Idle, Changing, Changes, Args
  <2> QED BY <1>11, <2>1, OpenTyped DEF Delete
<1>12. ASSUME NEW k \in Slots, NEW r \in Responses, Unassign(k, r) PROVE RequestInv'
  <2>1. PICK q : q = request[k]
    OBVIOUS
  <2>2. Typed([q EXCEPT !.todo = @ \ {r}])
    BY <1>12, <1>a, <2>1 DEF Unassign, Typed, Changing, Changes
  <2> QED BY <1>12, <2>1, <2>2, IdleTyped, StepTyped DEF Unassign
<1>13. ASSUME NEW k \in Slots, NEW t \in Tags, DeleteTag(k, t) PROVE RequestInv'
  <2>1. Typed([Idle EXCEPT !.kind = "deltag", !.at = "pull", !.arg = t])
    BY DEF Typed, Idle, Changing, Changes
  <2> QED BY <1>13, <2>1, OpenTyped DEF DeleteTag
<1>14. ASSUME NEW k \in Slots, NEW s \in Tags, NEW t \in Tags, MergeTag(k, s, t) PROVE RequestInv'
  <2>1. Typed([Idle EXCEPT !.kind = "merge", !.at = "commit", !.arg = s, !.into = t,
                           !.todo = Tagged(s), !.seen = resp])
    BY <1>14 DEF MergeTag, Typed, Idle, Tagged, Changing, Changes
  <2> QED BY <1>14, <2>1, OpenTyped DEF MergeTag
<1>15. ASSUME NEW k \in Slots, NEW u \in People, Remove(k, u) PROVE RequestInv'
  <2>1. Typed([Idle EXCEPT !.kind = "remove", !.at = "list", !.arg = u])
    BY DEF Typed, Idle, Changing, Changes
  <2> QED BY <1>15, <2>1, OpenTyped DEF Remove
<1>16. ASSUME NEW u \in People, Leave(u) PROVE RequestInv'
  BY <1>16 DEF Leave, RequestInv, Typed
<1>17. CASE Trash
  BY <1>17 DEF Trash, RequestInv, Typed
<1> QED BY <1>1, <1>2, <1>3, <1>4, <1>5, <1>6, <1>7, <1>8, <1>9, <1>10, <1>11, <1>12, <1>13, <1>14,
           <1>15, <1>16, <1>17 DEF Next

\* The rows keep their types, whatever is written to them.
LEMMA RowsKept ==
  ASSUME RequestInv, TypeOK, Next
  PROVE  TypeOK'
<1> DEFINE Row == [assignee : People \cup {None}, tags : SUBSET Tags, deleted : BOOLEAN]
<1>a. resp \in [Responses -> Row] /\ \A k \in Slots : Typed(request[k])
  BY DEF TypeOK, RequestInv
<1>1. ASSUME NEW k \in Slots, Write(k) PROVE TypeOK'
  <2>1. PICK q : q = request[k]
    OBVIOUS
  <2>2. Typed(q) /\ q.at = "write"
    BY <1>1, <1>a, <2>1 DEF Write
  <2>3. PICK r \in q.seen : resp' = [resp EXCEPT ![r] = Applied(@, q)]
    BY <1>1, <2>1 DEF Write
  <2>4. q.kind \in Changes \cup {"retag"} /\ r \in Responses
    BY <2>2 DEF Typed, Changing, Changes
  <2>5. Applied(resp[r], q) \in Row
    <3>1. resp[r] \in Row
      BY <1>a, <2>4
    <3>2. CASE q.kind = "assign"
      BY <2>2, <3>1, <3>2 DEF Typed, Applied, Changes, Args
    <3>3. CASE q.kind = "retag"
      BY <2>2, <3>1, <3>3 DEF Typed, Applied
    <3>4. CASE q.kind \in {"tag", "untag"}
      BY <2>2, <3>1, <3>4 DEF Typed, Applied, Changes, Args
    <3>5. CASE q.kind \in {"delete", "restore"}
      BY <3>1, <3>5 DEF Applied
    <3> QED BY <2>4, <3>2, <3>3, <3>4, <3>5 DEF Changes
  <2> HIDE DEF Row
  <2>6. resp' \in [Responses -> Row]
    BY <1>a, <2>3, <2>5
  <2> QED BY <1>1, <2>6 DEF Write, TypeOK, people, Row
<1>2. ASSUME NEW k \in Slots, PullTag(k) PROVE TypeOK'
  BY <1>2 DEF PullTag, TypeOK, people
<1>3. ASSUME NEW k \in Slots, DropTag(k) PROVE TypeOK'
  BY <1>3 DEF DropTag, TypeOK, people
<1>4. ASSUME NEW k \in Slots, CommitMerge(k) PROVE TypeOK'
  <2>1. Typed(request[k])
    BY <1>a
  <2>2. request[k].into \in Tags
    BY <1>4, <2>1 DEF CommitMerge, Typed
  <2> QED BY <1>4, <2>2 DEF CommitMerge, TypeOK, people, Merged
<1>5. ASSUME NEW k \in Slots, NEW r \in Responses, Unassign(k, r) PROVE TypeOK'
  BY <1>5 DEF Unassign, TypeOK, people
<1>6. ASSUME NEW k \in Slots, NEW u \in People, Remove(k, u) PROVE TypeOK'
  BY <1>6 DEF Remove, TypeOK
<1>7. ASSUME NEW u \in People, Leave(u) PROVE TypeOK'
  BY <1>7 DEF Leave, TypeOK
<1>8. CASE UNCHANGED <<resp, tagRows, people>>
  BY <1>8 DEF TypeOK, people
<1> QED BY <1>1, <1>2, <1>3, <1>4, <1>5, <1>6, <1>7, <1>8
        DEF Next, Bulk, Offboard, Cut, BulkCheck, Assign, Retag, Delete, DeleteTag, MergeTag, Trash, people

\* A step that assigns nothing and takes no removal further leaves nothing behind.
LEMMA HoldersStay ==
  ASSUME RemovedHoldNothing, DOMAIN request = Slots, NEW k \in Slots, request[k].kind # "remove",
         NEW q, request' = [request EXCEPT ![k] = q],
         \A r \in Responses : resp'[r].assignee = resp[r].assignee,
         \A u \in People : CanTake(u) => CanTake(u)', excused \subseteq excused'
  PROVE  RemovedHoldNothing'
<1> SUFFICES ASSUME NEW r \in Responses, NEW u \in People, resp'[r].assignee = u, ~CanTake(u)'
             PROVE  \/ <<r, u>> \in excused'
                    \/ \E j \in Slots : /\ request'[j].kind = "remove" /\ request'[j].arg = u
                                        /\ request'[j].at = "list" \/ r \in request'[j].todo
  BY DEF RemovedHoldNothing
<1>1. resp[r].assignee = u /\ ~CanTake(u)
  OBVIOUS
<1>2. CASE <<r, u>> \in excused
  BY <1>2
<1>3. ASSUME NEW j \in Slots, request[j].kind = "remove", request[j].arg = u,
             request[j].at = "list" \/ r \in request[j].todo
      PROVE  request'[j] = request[j]
  BY <1>3
<1> QED BY <1>1, <1>2, <1>3 DEF RemovedHoldNothing

\* A removal leaves nothing with the one that went, but what is excused.
LEMMA HoldersKept ==
  ASSUME RequestInv, TypeOK, RemovedHoldNothing, Next
  PROVE  RemovedHoldNothing'
<1>a. DOMAIN request = Slots /\ \A k \in Slots : Typed(request[k])
  BY DEF RequestInv
<1>b. Idle.kind = "idle"
  BY DEF Idle
<1>1. ASSUME NEW k \in Slots, NEW q, Open(k, q), UNCHANGED <<resp, people, excused>> PROVE RemovedHoldNothing'
  BY <1>1, <1>a, <1>b, HoldersStay DEF Open, people, CanTake
<1>2. ASSUME NEW k \in Slots, Write(k) PROVE RemovedHoldNothing'
  <2>1. PICK q : q = request[k]
    OBVIOUS
  <2>2. Typed(q) /\ q.at = "write" /\ q.kind # "remove" /\ q.kind \in Changing
    BY <1>2, <1>a, <2>1 DEF Write, Typed
  <2>3. PICK r \in q.seen :
          /\ resp' = [resp EXCEPT ![r] = Applied(@, q)]
          /\ excused' = IF ~q.was THEN excused ELSE excused
               \cup {<<r, u>> : u \in {u \in {q.arg} \cap People : ~CanTake(u)}}
               \cup {<<r, t>> : t \in {t \in resp'[r].tags \ resp[r].tags : Missed(r, t)}}
          /\ request' = [request EXCEPT ![k] =
               IF q.todo = {r} THEN Idle
               ELSE [q EXCEPT !.todo = @ \ {r}, !.at = "check", !.seen = {}]]
    BY <1>2, <2>1 DEF Write
  <2>4. UNCHANGED people /\ excused \subseteq excused'
    BY <1>2, <2>3 DEF Write
  <2>5. CASE q.kind # "assign"
    <3>1. r \in Responses
      BY <2>2, <2>3 DEF Typed, Changing
    <3>2. Applied(resp[r], q).assignee = resp[r].assignee
      BY <2>2, <2>5, <3>1 DEF Changing, Changes, Applied, TypeOK
    <3>3. \A x \in Responses : resp'[x].assignee = resp[x].assignee
      BY <2>3, <3>1, <3>2 DEF TypeOK
    <3> QED BY <1>a, <2>1, <2>2, <2>3, <2>4, <3>3, HoldersStay DEF people, CanTake
  <2>6. CASE q.kind = "assign"
    <3> SUFFICES ASSUME NEW x \in Responses, NEW u \in People, resp'[x].assignee = u, ~CanTake(u)
                 PROVE  \/ <<x, u>> \in excused'
                        \/ \E j \in Slots : /\ request'[j].kind = "remove" /\ request'[j].arg = u
                                            /\ request'[j].at = "list" \/ x \in request'[j].todo
      BY <2>4 DEF RemovedHoldNothing, people, CanTake
    <3>1. CASE x = r
      <4>1. u = q.arg
        BY <2>3, <2>6, <3>1 DEF Applied, TypeOK
      <4>2. u # None
        BY TriageAssumption
      <4>3. q.was
        BY <2>2, <2>6, <4>1, <4>2 DEF Typed
      <4> QED BY <2>3, <3>1, <4>1, <4>3
    <3>2. CASE x # r
      <4>1. resp[x].assignee = u
        BY <2>3, <3>2 DEF TypeOK
      <4>2. CASE <<x, u>> \in excused
        BY <2>4, <4>2
      <4>3. ASSUME NEW j \in Slots, request[j].kind = "remove" PROVE request'[j] = request[j]
        BY <4>3, <1>a, <2>1, <2>2, <2>3
      <4> QED BY <4>1, <4>2, <4>3 DEF RemovedHoldNothing
    <3> QED BY <3>1, <3>2
  <2> QED BY <2>5, <2>6
<1>3. ASSUME NEW k \in Slots, PullTag(k) PROVE RemovedHoldNothing'
  <2>1. \A r \in Responses : resp'[r].assignee = resp[r].assignee
    BY <1>3 DEF PullTag, TypeOK
  <2>2. request' = [request EXCEPT ![k] = [request[k] EXCEPT !.at = "row"]]
    BY <1>3, <1>a DEF PullTag
  <2> QED BY <1>3, <1>a, <2>1, <2>2, HoldersStay DEF PullTag, people, CanTake
<1>4. ASSUME NEW k \in Slots, DropTag(k) PROVE RemovedHoldNothing'
  BY <1>4, <1>a, HoldersStay DEF DropTag, Close, people, CanTake
<1>5. ASSUME NEW k \in Slots, CommitMerge(k) PROVE RemovedHoldNothing'
  <2>1. \A r \in Responses : resp'[r].assignee = resp[r].assignee
    BY <1>5 DEF CommitMerge, Merged, TypeOK
  <2>2. excused \subseteq excused' /\ request[k].kind = "merge" /\ UNCHANGED people
    BY <1>5 DEF CommitMerge
  <2>3. \E q : request' = [request EXCEPT ![k] = q]
    <3>1. CASE request' = [request EXCEPT ![k].todo = Tagged(request[k].arg), ![k].seen = resp]
      <4>1. request' = [request EXCEPT ![k] = [request[k] EXCEPT !.todo = Tagged(request[k].arg), !.seen = resp]]
        BY <3>1, <1>a
      <4> QED BY <4>1
    <3> QED BY <1>5, <3>1 DEF CommitMerge, Close
  <2> QED BY <1>a, <2>1, <2>2, <2>3, HoldersStay DEF people, CanTake
<1>6. ASSUME NEW k \in Slots, Offboard(k) PROVE RemovedHoldNothing'
  <2> SUFFICES ASSUME NEW r \in Responses, NEW u \in People, resp[r].assignee = u, ~CanTake(u)
               PROVE  \/ <<r, u>> \in excused'
                      \/ \E j \in Slots : /\ request'[j].kind = "remove" /\ request'[j].arg = u
                                          /\ request'[j].at = "list" \/ r \in request'[j].todo
    BY <1>6 DEF Offboard, RemovedHoldNothing, people, CanTake
  <2>1. excused \subseteq excused'
    BY <1>6 DEF Offboard
  <2>2. CASE <<r, u>> \in excused
    BY <2>1, <2>2
  <2>3. ASSUME NEW j \in Slots, j # k PROVE request'[j] = request[j]
    BY <1>6, <1>a, <2>3 DEF Offboard
  <2>4. CASE u = request[k].arg
    <3>1. CASE Hidden(r)
      BY <1>6, <2>4, <3>1 DEF Offboard, Assigned
    <3>2. CASE ~Hidden(r)
      <4>1. r \in ListAssigned(u)
        BY <3>2 DEF ListAssigned, Assigned
      <4>2. request'[k] = [request[k] EXCEPT !.at = "each", !.todo = ListAssigned(u)]
        BY <1>6, <1>a, <2>4, <4>1 DEF Offboard
      <4>3. request'[k].kind = "remove" /\ request'[k].arg = u /\ r \in request'[k].todo
        BY <1>6, <1>a, <2>4, <4>1, <4>2 DEF Offboard, Typed
      <4> QED BY <4>3
    <3> QED BY <3>1, <3>2
  <2> QED BY <2>2, <2>3, <2>4 DEF RemovedHoldNothing
<1>7. ASSUME NEW k \in Slots, Cut(k) PROVE RemovedHoldNothing'
  <2> SUFFICES ASSUME NEW r \in Responses, NEW u \in People, resp[r].assignee = u, ~CanTake(u)
               PROVE  \/ <<r, u>> \in excused'
                      \/ \E j \in Slots : /\ request'[j].kind = "remove" /\ request'[j].arg = u
                                          /\ request'[j].at = "list" \/ r \in request'[j].todo
    BY <1>7 DEF Cut, RemovedHoldNothing, people, CanTake
  <2>1. excused \subseteq excused'
    BY <1>7 DEF Cut
  <2>2. ASSUME NEW j \in Slots, j # k PROVE request'[j] = request[j]
    BY <1>7, <1>a, <2>2 DEF Cut, Close
  <2>3. CASE request[k].kind = "remove" /\ request[k].arg = u
    BY <1>7, <2>3 DEF Cut, Assigned
  <2> QED BY <2>1, <2>2, <2>3 DEF RemovedHoldNothing
<1>8. ASSUME NEW k \in Slots, NEW r \in Responses, BulkCheck(k, r) PROVE RemovedHoldNothing'
  <2>1. request[k].kind # "remove"
    BY <1>8, <1>a DEF BulkCheck, Typed
  <2>2. \E q : request' = [request EXCEPT ![k] = q]
    BY <1>8 DEF BulkCheck
  <2> QED BY <1>8, <1>a, <2>1, <2>2, HoldersStay DEF BulkCheck, people, CanTake
<1>9. ASSUME NEW k \in Slots, NEW x \in Responses, Unassign(k, x) PROVE RemovedHoldNothing'
  <2> SUFFICES ASSUME NEW r \in Responses, NEW u \in People, resp'[r].assignee = u, ~CanTake(u)
               PROVE  \/ <<r, u>> \in excused'
                      \/ \E j \in Slots : /\ request'[j].kind = "remove" /\ request'[j].arg = u
                                          /\ request'[j].at = "list" \/ r \in request'[j].todo
    BY <1>9 DEF Unassign, RemovedHoldNothing, people, CanTake
  <2>1. u # None
    BY TriageAssumption
  <2>2. r # x /\ resp[r].assignee = u /\ UNCHANGED excused
    BY <1>9, <2>1 DEF Unassign, TypeOK
  <2>3. ASSUME NEW j \in Slots, j # k PROVE request'[j] = request[j]
    BY <1>9, <1>a, <2>3 DEF Unassign
  <2>4. ASSUME request[k].arg = u, request[k].at = "list" \/ r \in request[k].todo
        PROVE  request'[k].kind = "remove" /\ request'[k].arg = u /\ r \in request'[k].todo
    <3>1. PICK q : q = request[k]
      OBVIOUS
    <3>2. Typed(q) /\ q.kind = "remove" /\ x \in q.todo /\ r \in q.todo
      BY <1>9, <1>a, <2>4, <3>1 DEF Unassign, Typed
    <3>3. request'[k] = [q EXCEPT !.todo = @ \ {x}]
      BY <1>9, <1>a, <2>2, <3>1, <3>2 DEF Unassign
    <3> QED BY <2>2, <2>4, <3>1, <3>2, <3>3 DEF Typed
  <2> QED BY <2>2, <2>3, <2>4 DEF RemovedHoldNothing
<1>10. ASSUME NEW k \in Slots, NEW w \in People, Remove(k, w) PROVE RemovedHoldNothing'
  <2> SUFFICES ASSUME NEW r \in Responses, NEW u \in People, resp[r].assignee = u, ~CanTake(u)'
               PROVE  \/ <<r, u>> \in excused'
                      \/ \E j \in Slots : /\ request'[j].kind = "remove" /\ request'[j].arg = u
                                          /\ request'[j].at = "list" \/ r \in request'[j].todo
    BY <1>10 DEF Remove, RemovedHoldNothing
  <2>1. CASE u = w
    <3>1. request'[k] = [Idle EXCEPT !.kind = "remove", !.at = "list", !.arg = w]
      BY <1>10, <1>a DEF Remove, Open
    <3> QED BY <2>1, <3>1 DEF Idle
  <2>2. CASE u # w
    <3>1. ~CanTake(u) /\ UNCHANGED excused
      BY <1>10, <2>2 DEF Remove, CanTake
    <3>2. ASSUME NEW j \in Slots, request[j].kind = "remove" PROVE request'[j] = request[j]
      BY <1>10, <1>a, <1>b, <3>2 DEF Remove, Open
    <3> QED BY <3>1, <3>2 DEF RemovedHoldNothing
  <2> QED BY <2>1, <2>2
<1>11. ASSUME NEW w \in People, Leave(w) PROVE RemovedHoldNothing'
  <2> SUFFICES ASSUME NEW r \in Responses, NEW u \in People, resp[r].assignee = u, ~CanTake(u)'
               PROVE  \/ <<r, u>> \in excused'
                      \/ \E j \in Slots : /\ request[j].kind = "remove" /\ request[j].arg = u
                                          /\ request[j].at = "list" \/ r \in request[j].todo
    BY <1>11 DEF Leave, RemovedHoldNothing
  <2>1. CASE u = w
    BY <1>11, <2>1 DEF Leave, Assigned
  <2>2. CASE u # w
    <3>1. ~CanTake(u) /\ excused \subseteq excused'
      BY <1>11, <2>2 DEF Leave, CanTake
    <3> QED BY <3>1 DEF RemovedHoldNothing
  <2> QED BY <2>1, <2>2
<1>12. CASE Trash
  BY <1>12 DEF Trash, RemovedHoldNothing, people, CanTake
<1> QED BY <1>1, <1>2, <1>3, <1>4, <1>5, <1>6, <1>7, <1>8, <1>9, <1>10, <1>11, <1>12
        DEF Next, Bulk, Assign, Retag, Delete, DeleteTag, MergeTag, people

\* No request ends a tag, or begins to merge one, that did not before.
Quieter(q, p) == q = p \/ (q.kind # "merge" /\ ~(q.kind = "deltag" /\ q.at = "row"))

\* While no tag goes and none is put anywhere, what is late is what was.
LEMMA TagsStay ==
  ASSUME TagInv, DOMAIN request = Slots, NEW k \in Slots, NEW q, request' = [request EXCEPT ![k] = q],
         Quieter(q, request[k]), tagRows' = tagRows, excused \subseteq excused',
         \A r \in Responses : resp'[r].tags \subseteq resp[r].tags
  PROVE  TagInv'
<1> SUFFICES ASSUME NEW r \in Responses, NEW t \in resp'[r].tags, Missed(r, t)'
             PROVE  Missed(r, t)
  BY DEF TagInv
<1> QED BY DEF Missed, Quieter

\* A step that leaves requests and tags alone makes nothing late.
LEMMA TagsStayIdle ==
  ASSUME TagInv, UNCHANGED <<request, tagRows>>, excused \subseteq excused',
         \A r \in Responses : resp'[r].tags \subseteq resp[r].tags
  PROVE  TagInv'
BY DEF TagInv, Missed

\* A tag that goes, or is merged, is on no response but by a write that was late.
LEMMA TagsKept ==
  ASSUME RequestInv, TypeOK, TagInv, Next
  PROVE  TagInv'
<1>a. DOMAIN request = Slots /\ \A k \in Slots : Typed(request[k])
  BY DEF RequestInv
<1>b. Idle.kind = "idle" /\ \A p : Quieter(Idle, p)
  BY DEF Idle, Quieter
<1>1. ASSUME NEW k \in Slots, NEW q, Open(k, q), UNCHANGED <<resp, tagRows>>, excused \subseteq excused',
             Quieter(q, Idle)
      PROVE  TagInv'
  BY <1>1, <1>a, TagsStay DEF Open
<1>2. ASSUME NEW k \in Slots, Bulk(k) PROVE TagInv'
  <2>0. PICK kind \in Changes : \E arg \in Args(kind) : \E todo \in SUBSET Responses \ {{}} :
          Open(k, [Idle EXCEPT !.kind = kind, !.at = "check", !.todo = todo, !.arg = arg])
    BY <1>2 DEF Bulk
  <2>1. PICK arg \in Args(kind), todo \in SUBSET Responses \ {{}} :
          Open(k, [Idle EXCEPT !.kind = kind, !.at = "check", !.todo = todo, !.arg = arg])
    BY <2>0
  <2>2. Quieter([Idle EXCEPT !.kind = kind, !.at = "check", !.todo = todo, !.arg = arg], Idle)
    BY DEF Quieter, Idle, Changes
  <2> QED BY <1>1, <1>2, <2>1, <2>2 DEF Bulk
<1>3. ASSUME NEW k \in Slots, Write(k) PROVE TagInv'
  <2>1. PICK q : q = request[k]
    OBVIOUS
  <2>2. Typed(q) /\ q.at = "write" /\ q.kind \in Changing
    BY <1>3, <1>a, <2>1 DEF Write, Typed
  <2>3. PICK x \in q.seen :
          /\ resp' = [resp EXCEPT ![x] = Applied(@, q)]
          /\ excused' = IF ~q.was THEN excused ELSE excused
               \cup {<<x, u>> : u \in {u \in {q.arg} \cap People : ~CanTake(u)}}
               \cup {<<x, t>> : t \in {t \in resp'[x].tags \ resp[x].tags : Missed(x, t)}}
          /\ request' = [request EXCEPT ![k] =
               IF q.todo = {x} THEN Idle
               ELSE [q EXCEPT !.todo = @ \ {x}, !.at = "check", !.seen = {}]]
    BY <1>3, <2>1 DEF Write
  <2>4. UNCHANGED tagRows /\ excused \subseteq excused' /\ x \in Responses
    BY <1>3, <2>2, <2>3 DEF Write, Typed
  <2> SUFFICES ASSUME NEW r \in Responses, NEW t \in resp'[r].tags, Missed(r, t)'
               PROVE  <<r, t>> \in excused'
    BY DEF TagInv
  <2>5. Missed(r, t)
    <3>1. ASSUME NEW j \in Slots, j # k PROVE request'[j] = request[j]
      BY <1>a, <2>3, <3>1
    <3>2. request'[k].kind # "merge" /\ request'[k].kind # "deltag"
      BY <1>a, <1>b, <2>2, <2>3 DEF Changing, Changes, Typed
    <3> QED BY <2>4, <3>1, <3>2 DEF Missed
  <2>6. CASE t \in resp[r].tags
    BY <2>4, <2>5, <2>6 DEF TagInv
  <2>7. CASE t \notin resp[r].tags
    <3>1. r = x
      BY <2>3, <2>7 DEF TypeOK
    <3>2. t \in Applied(resp[x], q).tags
      BY <2>3, <2>4, <3>1 DEF TypeOK
    <3>3. q.kind \in {"retag", "tag", "untag"}
      BY <2>2, <2>4, <2>7, <3>1, <3>2 DEF Applied, Changing, Changes, TypeOK
    <3>4. q.was
      BY <2>2, <3>3 DEF Typed
    <3> QED BY <2>3, <2>5, <2>7, <3>1, <3>4
  <2> QED BY <2>6, <2>7
<1>4. ASSUME NEW k \in Slots, PullTag(k) PROVE TagInv'
  <2>1. PICK q : q = request[k]
    OBVIOUS
  <2>2. Typed(q) /\ q.kind = "deltag"
    BY <1>4, <1>a, <2>1 DEF PullTag
  <2>3. request' = [request EXCEPT ![k] = [q EXCEPT !.at = "row"]] /\ UNCHANGED <<tagRows, excused>>
    BY <1>4, <1>a, <2>1 DEF PullTag
  <2>4. resp' = [r \in Responses |-> [resp[r] EXCEPT !.tags = @ \ {q.arg}]]
    BY <1>4, <2>1 DEF PullTag
  <2> SUFFICES ASSUME NEW r \in Responses, NEW t \in resp'[r].tags, Missed(r, t)'
               PROVE  <<r, t>> \in excused
    BY <2>3 DEF TagInv
  <2>5. t \in resp[r].tags /\ t # q.arg
    BY <2>4 DEF TypeOK
  <2>6. ASSUME NEW j \in Slots, j # k PROVE request'[j] = request[j]
    BY <1>a, <2>3, <2>6
  <2>7. request'[k].kind = "deltag" /\ request'[k].arg = q.arg
    BY <1>a, <2>2, <2>3 DEF Typed
  <2>8. Missed(r, t)
    BY <2>3, <2>5, <2>6, <2>7 DEF Missed
  <2> QED BY <2>5, <2>8 DEF TagInv
<1>5. ASSUME NEW k \in Slots, DropTag(k) PROVE TagInv'
  <2> SUFFICES ASSUME NEW r \in Responses, NEW t \in resp[r].tags, Missed(r, t)'
               PROVE  Missed(r, t)
    BY <1>5 DEF DropTag, TagInv
  <2>1. ASSUME NEW j \in Slots, j # k PROVE request'[j] = request[j]
    BY <1>5, <1>a, <2>1 DEF DropTag, Close
  <2>2. request'[k] = Idle /\ tagRows' = tagRows \ {request[k].arg}
    BY <1>5, <1>a DEF DropTag, Close
  <2> QED BY <1>5, <1>b, <2>1, <2>2 DEF Missed, DropTag
<1>6. ASSUME NEW k \in Slots, CommitMerge(k) PROVE TagInv'
  <2>1. PICK q : q = request[k]
    OBVIOUS
  <2>2. Typed(q) /\ q.kind = "merge"
    BY <1>6, <1>a, <2>1 DEF CommitMerge
  <2>3. CASE /\ request' = [request EXCEPT ![k].todo = Tagged(q.arg), ![k].seen = resp]
             /\ UNCHANGED <<resp, tagRows, excused>>
    <3>1. request' = [request EXCEPT ![k] = [q EXCEPT !.todo = Tagged(q.arg), !.seen = resp]]
      BY <1>a, <2>1, <2>3
    <3> SUFFICES ASSUME NEW r \in Responses, NEW t \in resp[r].tags, Missed(r, t)'
                 PROVE  Missed(r, t)
      BY <2>3 DEF TagInv
    <3>2. ASSUME NEW j \in Slots, j # k PROVE request'[j] = request[j]
      BY <1>a, <3>1, <3>2
    <3>3. request'[k].arg = q.arg /\ request'[k].todo = Tagged(q.arg) /\ request'[k].kind = "merge"
      BY <1>a, <2>2, <3>1 DEF Typed
    <3>4. CASE t \notin tagRows
      BY <3>4 DEF Missed
    <3>5. ASSUME NEW j \in Slots, \/ request'[j].kind = "merge" /\ request'[j].arg = t /\ r \notin request'[j].todo
                                  \/ request'[j].kind = "deltag" /\ request'[j].arg = t /\ request'[j].at = "row"
          PROVE  Missed(r, t)
      <4>1. j # k
        BY <3>3, <3>5 DEF Tagged
      <4> QED BY <3>2, <3>5, <4>1 DEF Missed
    <3> QED BY <2>3, <3>4, <3>5 DEF Missed
  <2>4. CASE /\ resp' = [r \in Responses |->
                  IF r \in q.todo THEN Merged(resp[r], q.arg, q.into) ELSE resp[r]]
             /\ tagRows' = tagRows \ {q.arg}
             /\ excused' = excused \cup {<<r, q.into>> : r \in
                             {r \in q.todo : q.into \notin resp[r].tags /\ Missed(r, q.into)}}
             /\ Close(k)
    <3> SUFFICES ASSUME NEW r \in Responses, NEW t \in resp'[r].tags, Missed(r, t)'
                 PROVE  <<r, t>> \in excused'
      BY DEF TagInv
    <3>1. ASSUME NEW j \in Slots, j # k PROVE request'[j] = request[j]
      BY <1>a, <2>4, <3>1 DEF Close
    <3>2. request'[k] = Idle /\ q.arg # q.into
      BY <1>a, <2>2, <2>4 DEF Close, Typed
    <3>3. CASE t = q.arg
      <4>1. r \notin q.todo /\ t \in resp[r].tags
        BY <2>4, <3>2, <3>3 DEF Merged, TypeOK
      <4>2. Missed(r, t)
        BY <2>1, <2>2, <3>3, <4>1 DEF Missed
      <4> QED BY <2>4, <4>1, <4>2 DEF TagInv
    <3>4. CASE t # q.arg
      <4>1. Missed(r, t)
        BY <1>b, <2>4, <3>1, <3>2, <3>4 DEF Missed
      <4>2. CASE t \in resp[r].tags
        BY <2>4, <4>1, <4>2 DEF TagInv
      <4>3. CASE t \notin resp[r].tags
        <5>1. r \in q.todo /\ t = q.into
          BY <2>4, <4>3 DEF Merged, TypeOK
        <5> QED BY <2>4, <4>1, <4>3, <5>1
      <4> QED BY <4>2, <4>3
    <3> QED BY <3>3, <3>4
  <2> QED BY <1>6, <2>1, <2>3, <2>4 DEF CommitMerge
<1>7. ASSUME NEW k \in Slots, Offboard(k) PROVE TagInv'
  <2>1. PICK q : q = request[k]
    OBVIOUS
  <2>2. CASE request' = [request EXCEPT ![k] = Idle]
    BY <1>7, <1>a, <1>b, <2>2, TagsStay DEF Offboard
  <2>3. CASE request' = [request EXCEPT ![k] = [q EXCEPT !.at = "each", !.todo = ListAssigned(q.arg)]]
    <3>1. Quieter([q EXCEPT !.at = "each", !.todo = ListAssigned(q.arg)], q)
      BY <1>7, <1>a, <2>1 DEF Offboard, Typed, Quieter
    <3> QED BY <1>7, <1>a, <2>1, <2>3, <3>1, TagsStay DEF Offboard
  <2> QED BY <1>7, <2>1, <2>2, <2>3 DEF Offboard
<1>8. ASSUME NEW k \in Slots, Cut(k) PROVE TagInv'
  BY <1>8, <1>a, <1>b, TagsStay DEF Cut, Close
<1>9. ASSUME NEW k \in Slots, NEW r \in Responses, BulkCheck(k, r) PROVE TagInv'
  <2>1. PICK q : q = request[k]
    OBVIOUS
  <2>2. Typed(q) /\ q.kind \in Changing
    BY <1>9, <1>a, <2>1 DEF BulkCheck, Typed
  <2>3. CASE request' = [request EXCEPT ![k] = Idle]
    BY <1>9, <1>a, <1>b, <2>3, TagsStay DEF BulkCheck
  <2>4. CASE request' = [request EXCEPT ![k] =
                           [q EXCEPT !.at = "write", !.seen = {r}, !.was = q.arg \in Valids]]
    <3>1. Quieter([q EXCEPT !.at = "write", !.seen = {r}, !.was = q.arg \in Valids], q)
      BY <2>2 DEF Typed, Quieter, Changing, Changes
    <3> QED BY <1>9, <1>a, <2>1, <2>4, <3>1, TagsStay DEF BulkCheck
  <2>5. CASE request' = [request EXCEPT ![k] = [q EXCEPT !.todo = @ \ {r}]]
    <3>1. Quieter([q EXCEPT !.todo = @ \ {r}], q)
      BY <2>2 DEF Typed, Quieter, Changing, Changes
    <3> QED BY <1>9, <1>a, <2>1, <2>5, <3>1, TagsStay DEF BulkCheck
  <2> QED BY <1>9, <2>1, <2>3, <2>4, <2>5 DEF BulkCheck
<1>10. ASSUME NEW k \in Slots, NEW r \in Responses, Assign(k, r) PROVE TagInv'
  <2>1. PICK u \in People \cup {None} :
          Open(k, [Idle EXCEPT !.kind = "assign", !.at = "write", !.todo = {r}, !.arg = u, !.seen = {r},
                                  !.was = u \in Valids])
    BY <1>10 DEF Assign
  <2>2. Quieter([Idle EXCEPT !.kind = "assign", !.at = "write", !.todo = {r}, !.arg = u, !.seen = {r},
                             !.was = u \in Valids], Idle)
    BY DEF Quieter, Idle
  <2> QED BY <1>1, <1>10, <2>1, <2>2 DEF Assign
<1>11. ASSUME NEW k \in Slots, NEW r \in Responses, Retag(k, r) PROVE TagInv'
  <2>1. PICK T \in SUBSET tagRows :
          Open(k, [Idle EXCEPT !.kind = "retag", !.at = "write", !.todo = {r}, !.into = T, !.seen = {r},
                                  !.was = T \subseteq Valids])
    BY <1>11 DEF Retag
  <2>2. Quieter([Idle EXCEPT !.kind = "retag", !.at = "write", !.todo = {r}, !.into = T, !.seen = {r},
                             !.was = T \subseteq Valids], Idle)
    BY DEF Quieter, Idle
  <2> QED BY <1>1, <1>11, <2>1, <2>2 DEF Retag
<1>12. ASSUME NEW k \in Slots, NEW r \in Responses, Delete(k, r) PROVE TagInv'
  <2>1. Quieter([Idle EXCEPT !.kind = "delete", !.at = "write", !.todo = {r}, !.seen = {r}], Idle)
    BY DEF Quieter, Idle
  <2> QED BY <1>1, <1>12, <2>1 DEF Delete
<1>13. ASSUME NEW k \in Slots, NEW r \in Responses, Unassign(k, r) PROVE TagInv'
  <2>1. PICK q : q = request[k]
    OBVIOUS
  <2>2. Typed(q) /\ q.kind = "remove"
    BY <1>13, <1>a, <2>1 DEF Unassign
  <2>3. \A x \in Responses : resp'[x].tags \subseteq resp[x].tags
    BY <1>13 DEF Unassign, TypeOK
  <2>4. Quieter([q EXCEPT !.todo = @ \ {r}], q)
    BY <2>2 DEF Typed, Quieter
  <2>5. \/ request' = [request EXCEPT ![k] = Idle]
        \/ request' = [request EXCEPT ![k] = [q EXCEPT !.todo = @ \ {r}]]
    BY <1>13, <2>1 DEF Unassign
  <2>6. UNCHANGED <<tagRows, excused>>
    BY <1>13 DEF Unassign
  <2> QED BY <1>a, <1>b, <2>1, <2>3, <2>4, <2>5, <2>6, TagsStay
<1>14. ASSUME NEW k \in Slots, NEW t \in Tags, DeleteTag(k, t) PROVE TagInv'
  <2>1. Quieter([Idle EXCEPT !.kind = "deltag", !.at = "pull", !.arg = t], Idle)
    BY DEF Quieter, Idle
  <2> QED BY <1>1, <1>14, <2>1 DEF DeleteTag
<1>15. ASSUME NEW k \in Slots, NEW s \in Tags, NEW t \in Tags, MergeTag(k, s, t) PROVE TagInv'
  <2>1. /\ request' = [request EXCEPT ![k] = [Idle EXCEPT !.kind = "merge", !.at = "commit", !.arg = s,
                                               !.into = t, !.todo = Tagged(s), !.seen = resp]]
        /\ UNCHANGED <<resp, tagRows, excused>>
    BY <1>15 DEF MergeTag, Open
  <2> SUFFICES ASSUME NEW r \in Responses, NEW x \in resp[r].tags, Missed(r, x)'
               PROVE  Missed(r, x)
    BY <2>1 DEF TagInv
  <2>2. ASSUME NEW j \in Slots, j # k PROVE request'[j] = request[j]
    BY <1>a, <2>1, <2>2
  <2>3. request'[k].kind = "merge" /\ request'[k].arg = s /\ request'[k].todo = Tagged(s)
    BY <1>a, <2>1 DEF Idle
  <2> QED BY <2>1, <2>2, <2>3 DEF Missed, Tagged
<1>16. ASSUME NEW k \in Slots, NEW u \in People, Remove(k, u) PROVE TagInv'
  <2>1. Quieter([Idle EXCEPT !.kind = "remove", !.at = "list", !.arg = u], Idle)
    BY DEF Quieter, Idle
  <2> QED BY <1>1, <1>16, <2>1 DEF Remove
<1>17. ASSUME NEW u \in People, Leave(u) PROVE TagInv'
  BY <1>17, TagsStayIdle DEF Leave
<1>18. CASE Trash
  BY <1>18, TagsStayIdle DEF Trash
<1> QED BY <1>2, <1>3, <1>4, <1>5, <1>6, <1>7, <1>8, <1>9, <1>10, <1>11, <1>12, <1>13, <1>14, <1>15,
           <1>16, <1>17, <1>18 DEF Next

\* Only a commit ends a merge that is not cut short, and what it does not carry over was late.
LEMMA MergesCarry ==
  ASSUME RequestInv, TypeOK, TagInv, faults \in Nat, Next,
         NEW k \in Slots, request[k].kind = "merge", request'[k] = Idle, faults' = faults,
         NEW r \in Tagged(request[k].arg)
  PROVE  \/ request[k].into \in resp'[r].tags /\ request[k].arg \notin resp'[r].tags
         \/ <<r, request[k].arg>> \in excused
<1>a. DOMAIN request = Slots /\ \A j \in Slots : Typed(request[j])
  BY DEF RequestInv
<1>b. Idle.kind = "idle"
  BY DEF Idle
<1>1. CommitMerge(k)
  <2>1. ASSUME NEW j \in Slots, NEW q, request' = [request EXCEPT ![j] = q] PROVE j = k
    BY <1>a, <1>b, <2>1
  <2>2. request' # request
    BY <1>b
  <2>3. ASSUME NEW j \in Slots, NEW q, Open(j, q) PROVE FALSE
    BY <1>b, <2>1, <2>3 DEF Open
  <2>4. ASSUME NEW j \in Slots, Write(j) PROVE FALSE
    <3>1. j = k
      BY <2>1, <2>4 DEF Write
    <3> QED BY <1>a, <2>4, <3>1 DEF Write, Typed
  <2>5. ASSUME NEW j \in Slots, PullTag(j) PROVE FALSE
    <3>1. request' = [request EXCEPT ![j] = [request[j] EXCEPT !.at = "row"]]
      BY <1>a, <2>5 DEF PullTag
    <3> QED BY <2>1, <2>5, <3>1 DEF PullTag
  <2>6. ASSUME NEW j \in Slots, DropTag(j) PROVE FALSE
    BY <2>1, <2>6 DEF DropTag, Close
  <2>7. ASSUME NEW j \in Slots, CommitMerge(j) PROVE j = k
    <3>1. CASE request' = [request EXCEPT ![j].todo = Tagged(request[j].arg), ![j].seen = resp]
      <4>1. request' = [request EXCEPT ![j] = [request[j] EXCEPT !.todo = Tagged(request[j].arg), !.seen = resp]]
        BY <1>a, <3>1
      <4> QED BY <2>1, <4>1
    <3> QED BY <2>1, <2>7, <3>1 DEF CommitMerge, Close
  <2>8. ASSUME NEW j \in Slots, Offboard(j) PROVE FALSE
    BY <2>1, <2>8 DEF Offboard
  <2>9. ASSUME NEW j \in Slots, Cut(j) PROVE FALSE
    BY <2>9 DEF Cut
  <2>10. ASSUME NEW j \in Slots, NEW x \in Responses, BulkCheck(j, x) PROVE FALSE
    <3>1. j = k
      BY <2>1, <2>10 DEF BulkCheck
    <3> QED BY <1>a, <2>10, <3>1 DEF BulkCheck, Typed
  <2>11. ASSUME NEW j \in Slots, NEW x \in Responses, Unassign(j, x) PROVE FALSE
    BY <2>1, <2>11 DEF Unassign
  <2> QED BY <2>2, <2>3, <2>4, <2>5, <2>6, <2>7, <2>8, <2>9, <2>10, <2>11
          DEF Next, Bulk, Assign, Retag, Delete, DeleteTag, MergeTag, Remove, Leave, Trash
<1>2. PICK q : q = request[k]
  OBVIOUS
<1>3. Typed(q) /\ q.kind = "merge" /\ q.arg # q.into /\ r \in Responses /\ q.arg \in resp[r].tags
  BY <1>a, <1>2 DEF Typed, Tagged
<1>4. resp' = [x \in Responses |-> IF x \in q.todo THEN Merged(resp[x], q.arg, q.into) ELSE resp[x]]
  <2>1. request' # [request EXCEPT ![k].todo = Tagged(q.arg), ![k].seen = resp]
    <3>1. SUFFICES ASSUME request' = [request EXCEPT ![k].todo = Tagged(q.arg), ![k].seen = resp] PROVE FALSE
      OBVIOUS
    <3>2. request' = [request EXCEPT ![k] = [q EXCEPT !.todo = Tagged(q.arg), !.seen = resp]]
      BY <1>a, <1>2, <3>1
    <3>3. request'[k].kind = "merge"
      BY <1>a, <1>3, <3>2 DEF Typed
    <3> QED BY <1>b, <3>3
  <2> QED BY <1>1, <1>2, <2>1 DEF CommitMerge
<1>5. CASE r \in q.todo
  BY <1>2, <1>3, <1>4, <1>5 DEF Merged, TypeOK
<1>6. CASE r \notin q.todo
  <2>1. Missed(r, q.arg)
    BY <1>2, <1>3, <1>6 DEF Missed
  <2> QED BY <1>2, <1>3, <2>1 DEF TagInv
<1> QED BY <1>5, <1>6

-----------------------------------------------------------------------------
(* Criteria and scores: rows keep their fields, and the default stays.         *)

\* A row that is added is there, and nothing else is.
LEMMA AddedThere ==
  ASSUME CriterionTypes, NEW c \in Criteria, NEW order, NEW default, Marks!Add(c, order, default)
  PROVE  /\ DOMAIN criterion' = Criteria
         /\ \A d \in Criteria : DOMAIN criterion'[d] = {"there", "order", "default"}
         /\ Here' = Here \cup {c} /\ criterion'[c].default = default
         /\ \A d \in Criteria \ {c} : criterion'[d] = criterion[d]
BY DEF CriterionTypes, Marks!Add, Here, Marks!There

\* A step of a request that adds no deletion keeps the default, where no row goes.
LEMMA DefaultStaysPut ==
  ASSUME CriterionTypes, DefaultInv, Here # {}, Here \subseteq Here',
         \A c \in Here : criterion'[c].default = criterion[c].default,
         \A e \in Editors : editing'[e] = editing[e] \/ ~(editing'[e].kind = "delete" /\ editing'[e].at = "write")
  PROVE  DefaultInv'
<1>1. PICK c \in Here : criterion[c].default /\ ~Pending(c)
  BY DEF DefaultInv
<1>2. c \in Here' /\ criterion'[c].default
  BY <1>1
<1>3. ~Pending(c)'
  BY <1>1 DEF Pending, Marks!At
<1> QED BY <1>2, <1>3 DEF DefaultInv

\* A form that has a criterion keeps its default, whatever is deleted at the same time.
LEMMA ScoresKept ==
  ASSUME ScoreInv, Marks!Next
  PROVE  ScoreInv'
<1>a. CriterionTypes /\ DefaultInv /\ entries \in [Reviewers \X Criteria -> {0, 1}]
  BY DEF ScoreInv
<1>b. DOMAIN Marks!Resting = {"kind", "at", "which", "who", "order"}
      /\ Marks!Resting.kind = "idle" /\ Marks!Resting.at = "idle"
  BY DEF Marks!Resting
<1>1. ASSUME NEW e \in Editors, NEW kind \in {"list", "create"}, Marks!Look(e, kind) PROVE ScoreInv'
  <2>0. PICK q : q = [Marks!Resting EXCEPT !.kind = kind, !.at = IF Marks!There = {} THEN "seed" ELSE "last",
                                           !.who = None]
    OBVIOUS
  <2>1. /\ editing' = [editing EXCEPT ![e] = q] /\ DOMAIN q = DOMAIN Marks!Resting
        /\ q.kind = kind /\ q.at = IF Here = {} THEN "seed" ELSE "last"
    BY <1>1, <2>0 DEF Marks!Look, Marks!Start, Marks!Resting, Here
  <2>2. UNCHANGED <<criterion, entries>>
    BY <1>1 DEF Marks!Look
  <2>3. CriterionTypes'
    BY <1>a, <1>b, <2>1, <2>2 DEF CriterionTypes
  <2>4. DefaultInv'
    <3>1. CASE Here = {}
      BY <1>a, <2>1, <2>2, <3>1 DEF DefaultInv, CriterionTypes, Here, Marks!There
    <3>2. CASE Here # {}
      BY <1>a, <2>1, <2>2, <3>2, DefaultStaysPut DEF CriterionTypes, Here, Marks!There
    <3> QED BY <3>1, <3>2
  <2> QED BY <1>a, <2>2, <2>3, <2>4 DEF ScoreInv
<1>2. ASSUME NEW e \in Editors, Marks!ReadLast(e) PROVE ScoreInv'
  <2>1. PICK q : /\ editing' = [editing EXCEPT ![e] = q] /\ DOMAIN q = DOMAIN Marks!Resting
                 /\ q.at = "add"
    <3>1. editing' = [editing EXCEPT ![e] = [editing[e] EXCEPT !.at = "add",
                        !.order = IF Marks!There = {} THEN 0 ELSE Marks!LastOrder + 1]]
      BY <1>2, <1>a DEF Marks!ReadLast, CriterionTypes
    <3>2. PICK p : p = [editing[e] EXCEPT !.at = "add",
                         !.order = IF Marks!There = {} THEN 0 ELSE Marks!LastOrder + 1]
      OBVIOUS
    <3>3. DOMAIN p = DOMAIN Marks!Resting /\ p.at = "add"
      BY <1>a, <1>b, <3>2 DEF CriterionTypes
    <3> QED BY <3>1, <3>2, <3>3
  <2>2. UNCHANGED <<criterion, entries>> /\ Here # {}
    BY <1>2, <1>a DEF Marks!ReadLast, Marks!At, DefaultInv
  <2>3. CriterionTypes'
    BY <1>a, <1>b, <2>1, <2>2 DEF CriterionTypes
  <2>4. DefaultInv'
    BY <1>a, <2>1, <2>2, DefaultStaysPut DEF CriterionTypes, Here, Marks!There
  <2> QED BY <1>a, <2>2, <2>3, <2>4 DEF ScoreInv
<1>3. ASSUME NEW e \in Editors, Marks!EndDelete(e) PROVE ScoreInv'
  <2>1. PICK x : x = editing[e].which
    OBVIOUS
  <2>2. /\ criterion' = [criterion EXCEPT ![x] = Marks!Absent]
        /\ editing' = [editing EXCEPT ![e] = Marks!Resting] /\ UNCHANGED entries
    BY <1>3, <2>1 DEF Marks!EndDelete, Marks!Rest
  <2>3. CriterionTypes'
    BY <1>a, <1>b, <2>2 DEF CriterionTypes, Marks!Absent
  <2>4. Here # {}
    BY <1>3, <1>a DEF Marks!EndDelete, Marks!At, DefaultInv
  <2>5. PICK c \in Here : criterion[c].default /\ ~Pending(c)
    BY <1>a, <2>4 DEF DefaultInv
  <2>6. c # x
    BY <1>3, <2>1, <2>5 DEF Marks!EndDelete, Pending
  <2>7. c \in Here' /\ criterion'[c].default
    BY <1>a, <2>2, <2>5, <2>6 DEF Here, Marks!There, CriterionTypes
  <2>8. ~Pending(c)'
    BY <1>a, <1>b, <2>2, <2>5 DEF Pending, Marks!At, CriterionTypes
  <2> QED BY <1>a, <2>2, <2>3, <2>7, <2>8 DEF ScoreInv, DefaultInv
<1>4. ASSUME NEW e \in Editors, Marks!FindScore(e) PROVE ScoreInv'
  <2>1. PICK q : /\ editing' = [editing EXCEPT ![e] = q] /\ DOMAIN q = DOMAIN Marks!Resting
                 /\ q.at \in {"idle", "insert"}
    <3>1. \/ editing' = [editing EXCEPT ![e] = Marks!Resting]
          \/ editing' = [editing EXCEPT ![e] = [editing[e] EXCEPT !.at = "insert"]]
      BY <1>4, <1>a DEF Marks!FindScore, Marks!Rest, CriterionTypes
    <3>2. PICK p : p = [editing[e] EXCEPT !.at = "insert"]
      OBVIOUS
    <3>3. DOMAIN p = DOMAIN Marks!Resting /\ p.at = "insert"
      BY <1>a, <1>b, <3>2 DEF CriterionTypes
    <3> QED BY <1>b, <3>1, <3>2, <3>3
  <2>2. UNCHANGED <<criterion, entries>> /\ Here # {}
    BY <1>4, <1>a DEF Marks!FindScore, Marks!At, DefaultInv
  <2>3. CriterionTypes'
    BY <1>a, <1>b, <2>1, <2>2 DEF CriterionTypes
  <2>4. DefaultInv'
    BY <1>a, <2>1, <2>2, DefaultStaysPut DEF CriterionTypes, Here, Marks!There
  <2> QED BY <1>a, <2>2, <2>3, <2>4 DEF ScoreInv
<1>5. ASSUME NEW e \in Editors, Marks!InsertScore(e) PROVE ScoreInv'
  <2>1. editing' = [editing EXCEPT ![e] = Marks!Resting] /\ UNCHANGED criterion /\ Here # {}
    BY <1>5, <1>a DEF Marks!InsertScore, Marks!Rest, Marks!At, DefaultInv
  <2>2. CriterionTypes'
    BY <1>a, <1>b, <2>1 DEF CriterionTypes
  <2>3. DefaultInv'
    BY <1>a, <1>b, <2>1, DefaultStaysPut DEF CriterionTypes, Here, Marks!There
  <2>4. PICK x : x = <<editing[e].who, editing[e].which>>
    OBVIOUS
  <2>5. entries' = [entries EXCEPT ![x] = IF entries[x] > 0 THEN entries[x] ELSE 1]
    BY <1>5, <2>4 DEF Marks!InsertScore, Marks!Inserted
  <2>6. entries' \in [Reviewers \X Criteria -> {0, 1}]
    BY <1>a, <2>5
  <2> QED BY <2>2, <2>3, <2>6 DEF ScoreInv
<1>6. ASSUME NEW e \in Editors, NEW c \in Criteria, Marks!Seed(e, c) PROVE ScoreInv'
  <2>1. Marks!Add(c, 0, TRUE) /\ UNCHANGED entries /\ c \notin Here
    BY <1>6 DEF Marks!Seed, Here
  <2>2. PICK q : /\ editing' = [editing EXCEPT ![e] = q] /\ DOMAIN q = DOMAIN Marks!Resting
                 /\ q.at \in {"idle", "last"}
    <3>1. \/ editing' = [editing EXCEPT ![e] = Marks!Resting]
          \/ editing' = [editing EXCEPT ![e] = [editing[e] EXCEPT !.at = "last"]]
      BY <1>6, <1>a DEF Marks!Seed, Marks!Rest, CriterionTypes
    <3>2. PICK p : p = [editing[e] EXCEPT !.at = "last"]
      OBVIOUS
    <3>3. DOMAIN p = DOMAIN Marks!Resting /\ p.at = "last"
      BY <1>a, <1>b, <3>2 DEF CriterionTypes
    <3> QED BY <1>b, <3>1, <3>2, <3>3
  <2>3. CriterionTypes'
    BY <1>a, <1>b, <2>1, <2>2, AddedThere DEF CriterionTypes
  <2>4. DefaultInv'
    <3>1. CASE Here = {}
      <4>1. c \in Here' /\ criterion'[c].default
        BY <1>a, <2>1, AddedThere
      <4>2. \A d \in Editors : editing'[d].at # "write"
        BY <1>a, <2>2, <3>1 DEF DefaultInv, CriterionTypes
      <4>3. ~Pending(c)'
        BY <4>2 DEF Pending, Marks!At
      <4> QED BY <4>1, <4>3 DEF DefaultInv
    <3>2. CASE Here # {}
      <4>1. Here \subseteq Here' /\ \A d \in Here : criterion'[d].default = criterion[d].default
        BY <1>a, <2>1, AddedThere DEF Here, Marks!There
      <4> QED BY <1>a, <2>2, <3>2, <4>1, DefaultStaysPut DEF CriterionTypes
    <3> QED BY <3>1, <3>2
  <2> QED BY <1>a, <2>1, <2>3, <2>4 DEF ScoreInv
<1>7. ASSUME NEW e \in Editors, NEW c \in Criteria, Marks!Create(e, c) PROVE ScoreInv'
  <2>1. Marks!Add(c, editing[e].order, FALSE) /\ UNCHANGED entries /\ c \notin Here /\ Here # {}
    BY <1>7, <1>a DEF Marks!Create, Here, Marks!At, DefaultInv
  <2>2. editing' = [editing EXCEPT ![e] = Marks!Resting]
    BY <1>7 DEF Marks!Create, Marks!Rest
  <2>3. PICK order : order = editing[e].order
    OBVIOUS
  <2>4. CriterionTypes'
    BY <1>a, <1>b, <2>1, <2>2, <2>3, AddedThere DEF CriterionTypes
  <2>5. Here \subseteq Here' /\ \A d \in Here : criterion'[d].default = criterion[d].default
    BY <1>a, <2>1, <2>3, AddedThere DEF Here, Marks!There
  <2>6. DefaultInv'
    BY <1>a, <1>b, <2>1, <2>2, <2>5, DefaultStaysPut DEF CriterionTypes
  <2> QED BY <1>a, <2>1, <2>4, <2>6 DEF ScoreInv
<1>8. ASSUME NEW e \in Editors, NEW c \in Criteria, Marks!Delete(e, c) PROVE ScoreInv'
  <2>1. /\ editing' = [editing EXCEPT ![e] =
                         [Marks!Resting EXCEPT !.kind = "delete", !.at = "write", !.which = c]]
        /\ UNCHANGED <<criterion, entries>> /\ c \in Here /\ ~criterion[c].default
    BY <1>8 DEF Marks!Delete, Marks!Deletable, Here
  <2>2. CriterionTypes'
    BY <1>a, <1>b, <2>1 DEF CriterionTypes
  <2>3. PICK d \in Here : criterion[d].default /\ ~Pending(d)
    BY <1>a, <2>1 DEF DefaultInv
  <2>4. editing'[e].which = c /\ d # c
    BY <1>a, <1>b, <2>1, <2>3 DEF CriterionTypes
  <2>5. \A f \in Editors \ {e} : editing'[f] = editing[f]
    BY <1>a, <2>1 DEF CriterionTypes
  <2>6. ~Pending(d)'
    BY <2>3, <2>4, <2>5 DEF Pending, Marks!At
  <2>7. d \in Here' /\ criterion'[d].default
    BY <2>1, <2>3 DEF Here, Marks!There
  <2> QED BY <1>a, <2>1, <2>2, <2>6, <2>7 DEF ScoreInv, DefaultInv
<1>9. ASSUME NEW e \in Editors, NEW r \in Reviewers, NEW c \in Criteria, Marks!Score(e, r, c) PROVE ScoreInv'
  <2>1. /\ editing' = [editing EXCEPT ![e] =
                         [Marks!Resting EXCEPT !.kind = "score", !.at = "find", !.who = r, !.which = c]]
        /\ UNCHANGED <<criterion, entries>> /\ c \in Here
    BY <1>9 DEF Marks!Score, Here
  <2>2. CriterionTypes'
    BY <1>a, <1>b, <2>1 DEF CriterionTypes
  <2>3. editing'[e].kind = "score" /\ \A f \in Editors \ {e} : editing'[f] = editing[f]
    BY <1>a, <1>b, <2>1 DEF CriterionTypes
  <2>4. DefaultInv'
    BY <1>a, <2>1, <2>3, DefaultStaysPut DEF Here, Marks!There
  <2> QED BY <1>a, <2>1, <2>2, <2>4 DEF ScoreInv
<1>10. CASE Marks!Reorder
  <2>1. PICK f : criterion' = [c \in Criteria |-> IF c \in Here THEN [criterion[c] EXCEPT !.order = f[c]]
                                                  ELSE criterion[c]]
    BY <1>10 DEF Marks!Reorder, Here
  <2>2. UNCHANGED <<entries, editing>>
    BY <1>10 DEF Marks!Reorder
  <2>3. CriterionTypes'
    BY <1>a, <2>1, <2>2 DEF CriterionTypes
  <2>4. \A c \in Criteria : criterion'[c].there = criterion[c].there /\ criterion'[c].default = criterion[c].default
    BY <1>a, <2>1 DEF CriterionTypes
  <2>5. Here' = Here
    BY <2>4 DEF Here, Marks!There
  <2>6. DefaultInv'
    <3>1. CASE Here = {}
      BY <1>a, <2>2, <2>5, <3>1 DEF DefaultInv
    <3>2. CASE Here # {}
      BY <1>a, <2>2, <2>4, <2>5, <3>2, DefaultStaysPut DEF Here, Marks!There
    <3> QED BY <3>1, <3>2
  <2> QED BY <1>a, <2>2, <2>3, <2>6 DEF ScoreInv
<1> QED BY <1>1, <1>2, <1>3, <1>4, <1>5, <1>6, <1>7, <1>8, <1>9, <1>10 DEF Marks!Next

\* A form that has a criterion has one after every step.
LEMMA CriterionStays ==
  ASSUME ScoreInv, Marks!Next, Here # {}
  PROVE  Here' # {}
<1>a. CriterionTypes /\ DefaultInv
  BY DEF ScoreInv
<1>1. ASSUME NEW e \in Editors, Marks!EndDelete(e) PROVE Here' # {}
  <2>1. PICK x : x = editing[e].which
    OBVIOUS
  <2>2. criterion' = [criterion EXCEPT ![x] = Marks!Absent]
    BY <1>1, <2>1 DEF Marks!EndDelete
  <2>3. PICK c \in Here : ~Pending(c)
    BY <1>a DEF DefaultInv
  <2>4. c # x
    BY <1>1, <2>1, <2>3 DEF Marks!EndDelete, Pending
  <2>5. c \in Here'
    BY <1>a, <2>2, <2>3, <2>4 DEF Here, Marks!There, CriterionTypes
  <2> QED BY <2>5
<1>2. ASSUME NEW c \in Criteria, NEW order, NEW default, Marks!Add(c, order, default) PROVE Here' # {}
  BY <1>a, <1>2, AddedThere
<1>3. CASE Marks!Reorder
  <2>1. PICK f : criterion' = [c \in Criteria |-> IF c \in Here THEN [criterion[c] EXCEPT !.order = f[c]]
                                                  ELSE criterion[c]]
    BY <1>3 DEF Marks!Reorder, Here
  <2>2. \A c \in Criteria : criterion'[c].there = criterion[c].there
    BY <1>a, <2>1 DEF CriterionTypes
  <2> QED BY <2>2 DEF Here, Marks!There
<1>4. CASE UNCHANGED criterion
  BY <1>4 DEF Here, Marks!There
<1>5. ASSUME NEW e \in Editors, NEW c \in Criteria, Marks!Seed(e, c) \/ Marks!Create(e, c) PROVE Here' # {}
  <2>1. PICK order : order = editing[e].order
    OBVIOUS
  <2> QED BY <1>2, <1>5, <2>1 DEF Marks!Seed, Marks!Create
<1> QED BY <1>1, <1>3, <1>4, <1>5
        DEF Marks!Next, Marks!Look, Marks!ReadLast, Marks!FindScore, Marks!InsertScore, Marks!Delete, Marks!Score

-----------------------------------------------------------------------------
(* Notes: whom the note mentions, or an edit has read, is told or will be.     *)

\* Nobody is forgotten by a step that only ends a telling by telling.
LEMMA TellingsKept ==
  ASSUME NoteInv, Remarks!Next
  PROVE  NoteInv'
<1> DEFINE Fields == {"at", "mentions", "before", "todo"}
<1>a. DOMAIN writing = Hands /\ \A h \in Hands : DOMAIN writing[h] = Fields
  BY DEF NoteInv
<1>b. DOMAIN Remarks!Away = Fields /\ Remarks!Away.at = "idle" /\ Remarks!Away.todo = {}
  BY DEF Remarks!Away
<1>1. ASSUME NEW h \in Hands, Remarks!WriteNote(h) PROVE NoteInv'
  <2>0. PICK M \in SUBSET access : writing' = [writing EXCEPT ![h] =
          [Remarks!Away EXCEPT !.at = IF note = None THEN "create" ELSE "save", !.mentions = M,
                               !.before = IF note = None THEN {} ELSE note]]
    BY <1>1 DEF Remarks!WriteNote
  <2>7. PICK w : w = [Remarks!Away EXCEPT !.at = IF note = None THEN "create" ELSE "save", !.mentions = M,
                                           !.before = IF note = None THEN {} ELSE note]
    OBVIOUS
  <2>1. /\ writing' = [writing EXCEPT ![h] = w] /\ DOMAIN w = Fields
        /\ w.at \in {"create", "save"} /\ w.before = IF note = None THEN {} ELSE note
    BY <2>0, <2>7 DEF Remarks!Away
  <2>2. UNCHANGED <<note, told, missed>> /\ writing[h].at = "idle"
    BY <1>1 DEF Remarks!WriteNote, Remarks!Away
  <2>3. \A u : Reached(u) => Reached(u)'
    BY <1>a, <2>1, <2>2 DEF Reached
  <2>4. \A u \in w.before \ {Author} : Reached(u)
    BY <2>1 DEF NoteInv
  <2> QED BY <1>a, <2>1, <2>2, <2>3, <2>4 DEF NoteInv
<1>2. ASSUME NEW h \in Hands, Remarks!SaveNote(h) PROVE NoteInv'
  <2>1. PICK w : w = writing[h]
    OBVIOUS
  <2>2. PICK new : new = w.mentions \ (w.before \cup {Author})
    OBVIOUS
  <2>3. UNCHANGED <<told, missed>> /\ w.at \in {"create", "save"} /\ DOMAIN w = Fields
    BY <1>2, <1>a, <2>1 DEF Remarks!SaveNote
  <2>4. CASE writing' = [writing EXCEPT ![h] = Remarks!Away]
    <3>1. \A u : Reached(u) => Reached(u)'
      BY <1>a, <2>1, <2>3, <2>4 DEF Reached
    <3>2. note' = note \/ (note' = w.mentions /\ new = {})
      <4>1. [w EXCEPT !.at = "notify", !.todo = new].at = "notify"
        BY <2>3
      <4>2. ASSUME writing' = [writing EXCEPT ![h] = [w EXCEPT !.at = "notify", !.todo = new]] PROVE FALSE
        BY <1>a, <1>b, <2>4, <4>1, <4>2
      <4> QED BY <1>2, <2>1, <2>2, <4>2 DEF Remarks!SaveNote, Remarks!NewlyMentioned
    <3>3. \A u \in w.before \ {Author} : Reached(u)
      BY <2>1, <2>3 DEF NoteInv
    <3> QED BY <1>a, <1>b, <2>2, <2>4, <3>1, <3>2, <3>3 DEF NoteInv
  <2>5. CASE writing' = [writing EXCEPT ![h] = [w EXCEPT !.at = "notify", !.todo = new]] /\ note' = w.mentions
    <3>1. writing'[h].at = "notify" /\ writing'[h].todo = new /\ DOMAIN writing'[h] = Fields
      BY <1>a, <2>3, <2>5
    <3>2. \A g \in Hands \ {h} : writing'[g] = writing[g]
      BY <1>a, <2>5
    <3>3. \A u : Reached(u) => Reached(u)'
      BY <2>1, <2>3, <3>2 DEF Reached
    <3>4. \A u \in w.mentions \ {Author} : Reached(u)'
      <4>1. \A u \in new : Reached(u)'
        BY <3>1 DEF Reached
      <4>2. \A u \in w.before \ {Author} : Reached(u)
        BY <2>1, <2>3 DEF NoteInv
      <4> QED BY <2>2, <3>3, <4>1, <4>2
    <3>5. DOMAIN writing' = Hands
      BY <1>a, <2>5
    <3> QED BY <2>5, <3>1, <3>2, <3>3, <3>4, <3>5 DEF NoteInv
  <2> QED BY <1>2, <2>1, <2>2, <2>4, <2>5 DEF Remarks!SaveNote, Remarks!NewlyMentioned
<1>3. ASSUME NEW h \in Hands, NEW v \in Mentionable, Remarks!Notify(h, v) PROVE NoteInv'
  <2>1. PICK w : w = writing[h]
    OBVIOUS
  <2>2. w.at = "notify" /\ DOMAIN w = Fields /\ told' = told \cup {v} /\ UNCHANGED <<note, missed>>
    BY <1>3, <1>a, <2>1 DEF Remarks!Notify
  <2>3. PICK q : /\ writing' = [writing EXCEPT ![h] = q] /\ DOMAIN q = Fields
                 /\ \/ q.at = "idle" /\ w.todo = {v}
                    \/ q.at = "notify" /\ q.todo = w.todo \ {v}
    <3>1. \/ w.todo = {v} /\ writing' = [writing EXCEPT ![h] = Remarks!Away]
          \/ writing' = [writing EXCEPT ![h] = [w EXCEPT !.todo = @ \ {v}]]
      BY <1>3, <2>1 DEF Remarks!Notify
    <3>2. PICK p : p = [w EXCEPT !.todo = @ \ {v}]
      OBVIOUS
    <3>3. DOMAIN p = Fields /\ p.at = "notify" /\ p.todo = w.todo \ {v}
      BY <2>2, <3>2
    <3> QED BY <1>b, <3>1, <3>2, <3>3
  <2>4. \A u : Reached(u) => Reached(u)'
    <3> SUFFICES ASSUME NEW u, Reached(u), u \notin told' \cup missed'
                 PROVE  \E g \in Hands : writing'[g].at = "notify" /\ u \in writing'[g].todo
      BY DEF Reached
    <3>1. PICK g \in Hands : writing[g].at = "notify" /\ u \in writing[g].todo
      BY <2>2 DEF Reached
    <3>2. u # v
      BY <2>2
    <3>3. CASE g = h
      BY <1>a, <2>1, <2>3, <3>1, <3>2, <3>3
    <3>4. CASE g # h
      BY <1>a, <2>3, <3>1, <3>4
    <3> QED BY <3>3, <3>4
  <2> QED BY <1>a, <2>2, <2>3, <2>4 DEF NoteInv
<1>4. ASSUME NEW h \in Hands, Remarks!Cut(h) PROVE NoteInv'
  <2>1. /\ writing' = [writing EXCEPT ![h] = Remarks!Away] /\ UNCHANGED <<note, told>>
        /\ missed' = missed \cup (IF writing[h].at = "notify" THEN writing[h].todo ELSE {})
    BY <1>4 DEF Remarks!Cut
  <2>2. \A g \in Hands \ {h} : writing'[g] = writing[g]
    BY <1>a, <2>1
  <2>3. \A u : Reached(u) => Reached(u)'
    BY <2>1, <2>2 DEF Reached
  <2> QED BY <1>a, <1>b, <2>1, <2>2, <2>3 DEF NoteInv
<1>5. CASE Remarks!DeleteNote
  BY <1>5 DEF Remarks!DeleteNote, NoteInv, Reached
<1>6. ASSUME NEW u \in Mentionable, Remarks!ChangeAccess(u) PROVE NoteInv'
  BY <1>6 DEF Remarks!ChangeAccess, NoteInv, Reached
<1> QED BY <1>1, <1>2, <1>3, <1>4, <1>5, <1>6 DEF Remarks!Next

-----------------------------------------------------------------------------
(* The Board: what is in hand and what has been read, step by step.            *)

\* What the numbers are assumed to be.
LEMMA Numbers ==
  /\ Cards \subseteq Nat /\ IsFiniteSet(Cards) /\ None \notin Int /\ None \notin Hands /\ None \notin Cards
  /\ Spacing \in Nat /\ Spacing >= 2 /\ MinGap \in Int /\ MinGap >= 2 /\ MinGap <= Spacing
<1>1. Order!BoardAssumption
  BY HandlingAssumption
<1>2. IsFiniteSet(Cards)
  BY <1>1 DEF Order!BoardAssumption, Order!IsFiniteSet, IsFiniteSet
<1>3. Cards \subseteq Nat /\ None \notin Int /\ None \notin Hands /\ Spacing \in Nat /\ MinGap \in 2..Spacing
  BY <1>1 DEF Order!BoardAssumption
<1>4. None \notin Cards
  <2>1. \A c \in Cards : c \in Int
    BY <1>3
  <2> QED BY <1>3, <2>1
<1>5. Spacing >= 2 /\ MinGap \in Int /\ MinGap >= 2 /\ MinGap <= Spacing
  BY <1>3
<1> QED BY <1>2, <1>3, <1>4, <1>5

\* The Board counts as everybody does.
LEMMA SameCount == \A S : Order!Cardinality(S) = Cardinality(S)
BY DEF Order!Cardinality, Cardinality

\* Any two cards of a column have an order, and it is one order of them all.
LEMMA AboveOrders ==
  ASSUME NEW S \in SUBSET Cards, NEW f \in [S -> Ranks]
  PROVE  /\ \A c \in S : ~Order!Above(f, c, c)
         /\ \A c, d \in S : c = d \/ Order!Above(f, c, d) \/ Order!Above(f, d, c)
         /\ \A c, d, e \in S : Order!Above(f, c, d) /\ Order!Above(f, d, e) => Order!Above(f, c, e)
<1>1. \A c \in S : c \in Nat /\ (f[c] = None \/ f[c] \in Int)
  BY Numbers DEF Ranks
<1>2. None \notin Int
  BY Numbers
<1>3. \A c \in S : ~Order!Above(f, c, c)
  BY <1>1, <1>2 DEF Order!Above
<1>4. \A c, d \in S : c = d \/ Order!Above(f, c, d) \/ Order!Above(f, d, c)
  BY <1>1, <1>2 DEF Order!Above
<1>5. ASSUME NEW c \in S, NEW d \in S, NEW e \in S, Order!Above(f, c, d), Order!Above(f, d, e)
      PROVE  Order!Above(f, c, e)
  BY <1>1, <1>2, <1>5 DEF Order!Above
<1> QED BY <1>3, <1>4, <1>5

\* Numbering a column leaves its order as it is and room between any two of its cards.
LEMMA FreshKeeps ==
  ASSUME NEW S \in SUBSET Cards, NEW f \in [S -> Ranks]
  PROVE  /\ Order!Fresh(S, f) \in [S -> Int]
         /\ \A c, d \in S :
              Order!Above(f, c, d) => Order!Fresh(S, f)[d] >= Order!Fresh(S, f)[c] + Spacing
         /\ \A c, d \in S : Order!Above(Order!Fresh(S, f), c, d) <=> Order!Above(f, c, d)
<1> DEFINE Upto(c) == {d \in S : d = c \/ Order!Above(f, d, c)}
           g == Order!Fresh(S, f)
<1>1. \A c \in S : g[c] = Spacing * Cardinality(Upto(c))
  BY SameCount DEF Order!Fresh
<1>2. \A c \in S : IsFiniteSet(Upto(c)) /\ Cardinality(Upto(c)) \in Nat
  <2> SUFFICES ASSUME NEW c \in S PROVE IsFiniteSet(Upto(c)) /\ Cardinality(Upto(c)) \in Nat
    OBVIOUS
  <2>1. Upto(c) \subseteq Cards
    OBVIOUS
  <2> QED BY <2>1, Numbers, FS_Subset, FS_CardinalityType
<1>3. g \in [S -> Int]
  <2>1. \A c \in S : g[c] \in Int
    <3> SUFFICES ASSUME NEW c \in S PROVE g[c] \in Int
      OBVIOUS
    <3>1. PICK n \in Nat : n = Cardinality(Upto(c))
      BY <1>2
    <3> HIDE DEF g, Upto
    <3> QED BY <1>1, <3>1, Numbers
  <2>2. g = [c \in S |-> g[c]]
    BY DEF Order!Fresh
  <2> HIDE DEF g
  <2> QED BY <2>1, <2>2
<1>4. ASSUME NEW c \in S, NEW d \in S, Order!Above(f, c, d)
      PROVE  g[d] >= g[c] + Spacing
  <2>1. Upto(c) \subseteq Upto(d) /\ d \notin Upto(c) /\ d \in Upto(d)
    BY <1>4, AboveOrders
  <2>2. Upto(c) \cup {d} \subseteq Upto(d)
    BY <2>1
  <2>3. PICK m \in Nat : m = Cardinality(Upto(c))
    BY <1>2
  <2>4. PICK n \in Nat : n = Cardinality(Upto(d))
    BY <1>2
  <2> HIDE DEF Upto
  <2>5. Cardinality(Upto(c) \cup {d}) = m + 1
    BY <1>2, <2>1, <2>3, FS_AddElement
  <2>6. m + 1 <= n
    BY <1>2, <2>2, <2>4, <2>5, FS_Subset
  <2>7. g[c] = Spacing * m /\ g[d] = Spacing * n
    BY <1>1, <2>3, <2>4
  <2> HIDE DEF g
  <2>8. PICK k \in Nat : n = m + 1 + k
    BY <2>6
  <2>9. Spacing * n = Spacing * m + Spacing + Spacing * k
    BY <2>8, Numbers
  <2>10. Spacing * k >= 0 /\ Spacing * m \in Int /\ Spacing * k \in Int
    BY Numbers
  <2> QED BY <2>7, <2>9, <2>10, Numbers
<1>5. ASSUME NEW c \in S, NEW d \in S PROVE Order!Above(g, c, d) <=> Order!Above(f, c, d)
  <2>1. g[c] \in Int /\ g[d] \in Int /\ None \notin Int /\ Spacing >= 2 /\ Spacing \in Nat
    BY <1>3, Numbers
  <2>2. ~Order!Above(g, c, c) /\ ~Order!Above(f, c, c)
    BY <1>3, AboveOrders, Numbers DEF Ranks
  <2> HIDE DEF g
  <2>3. \A a, b \in S : Order!Above(f, a, b) => g[b] >= g[a] + Spacing
    BY <1>4
  <2>4. Order!Above(f, c, d) => Order!Above(g, c, d)
    BY <2>1, <2>3 DEF Order!Above
  <2>5. Order!Above(f, d, c) => ~Order!Above(g, c, d)
    <3> SUFFICES ASSUME Order!Above(f, d, c) PROVE ~Order!Above(g, c, d)
      OBVIOUS
    <3>1. g[c] >= g[d] + Spacing
      BY <2>3
    <3> QED BY <2>1, <3>1 DEF Order!Above
  <2> QED BY <2>2, <2>4, <2>5, AboveOrders
<1> QED BY <1>3, <1>4, <1>5

\* Two numberings that order the cards alike have the same neighbours.
LEMMA NeighboursAlike ==
  ASSUME NEW S, NEW f, NEW g, NEW c \in S \cup {None}, NEW d \in S \cup {None},
         \A a, b \in S : Order!Above(f, a, b) <=> Order!Above(g, a, b),
         Order!Neighbours(f, S, c, d)
  PROVE  Order!Neighbours(g, S, c, d)
BY DEF Order!Neighbours
\* The number that is settled on lies between the neighbours' numbers, and so does the card.
LEMMA SettlesBetween ==
  ASSUME NEW p, Holding(p), p.at = "between", ~Order!Crowded(p), NEW g,
         \A d \in p.column : g[d] = p.ranks[d],
         g[p.card] = Order!RankBetween(Order!Prev(p), Order!After(p))
  PROVE  /\ g[p.card] \in Int
         /\ Order!Neighbours(g, p.column \cup {p.card}, p.above, p.card)
         /\ Order!Neighbours(g, p.column \cup {p.card}, p.card, p.below)
<1> DEFINE S == p.column  r == g[p.card]
<1>1. /\ p.card \in Cards /\ p.card # None /\ p.card \notin S /\ S \subseteq Cards
      /\ \A d \in S : d # None /\ (g[d] = None \/ g[d] \in Int)
      /\ p.above \in S \cup {None} /\ p.below \in S \cup {None}
      /\ None \notin Int
  BY Numbers DEF Holding, Ranks
<1>2. /\ p.above # None => g[p.above] \in Int /\ Order!Prev(p) = g[p.above]
      /\ p.above = None => Order!Prev(p) = None
      /\ p.below # None => g[p.below] \in Int /\ Order!After(p) = g[p.below]
      /\ p.below = None => Order!After(p) = None
  BY <1>1 DEF Order!Crowded, Order!Unplaced, Order!Prev, Order!After
<1>3. Order!Neighbours(g, S, p.above, p.below)
  <2>1. Order!Neighbours(p.ranks, S, p.above, p.below)
    BY DEF Holding
  <2>2. \A a, b \in S : Order!Above(p.ranks, a, b) <=> Order!Above(g, a, b)
    BY DEF Order!Above
  <2> HIDE DEF S
  <2> QED BY <1>1, <2>1, <2>2, NeighboursAlike
<1>4. /\ r \in Int
      /\ p.above # None => g[p.above] < r
      /\ p.below # None => r < g[p.below]
  <2>1. CASE p.above = None
    <3>1. p.below # None
      BY <1>3, <2>1 DEF Order!Neighbours
    <3>2. r = g[p.below] - Spacing
      BY <1>1, <1>2, <2>1, <3>1 DEF Order!RankBetween
    <3> QED BY <1>2, <2>1, <3>1, <3>2, Numbers
  <2>2. CASE p.above # None /\ p.below = None
    <3>1. r = g[p.above] + Spacing
      BY <1>1, <1>2, <2>2 DEF Order!RankBetween
    <3> QED BY <1>2, <2>2, <3>1, Numbers
  <2>3. CASE p.above # None /\ p.below # None
    <3>1. PICK a, b \in Int : a = g[p.above] /\ b = g[p.below]
      BY <1>2, <2>3
    <3>2. r = (a + b) \div 2
      BY <1>1, <1>2, <2>3, <3>1 DEF Order!RankBetween
    <3>3. ~(b - a < MinGap)
      BY <1>1, <1>2, <2>3, <3>1 DEF Order!Crowded
    <3>4. b >= a + 2
      BY <3>3, Numbers
    <3> HIDE DEF r
    <3>5. r \in Int /\ a < r /\ r < b
      BY <3>2, <3>4
    <3> QED BY <2>3, <3>1, <3>5
  <2> QED BY <2>1, <2>2, <2>3
<1> HIDE DEF r
<1>5. ASSUME NEW d \in S, p.above # None, d = p.above \/ Order!Above(g, d, p.above)
      PROVE  Order!Above(g, d, p.card)
  BY <1>1, <1>2, <1>4, <1>5 DEF Order!Above, r
<1>6. ASSUME NEW d \in S, p.below # None, d = p.below \/ Order!Above(g, p.below, d)
      PROVE  Order!Above(g, p.card, d)
  BY <1>1, <1>2, <1>4, <1>6 DEF Order!Above, r
<1>7. Order!Neighbours(g, S \cup {p.card}, p.above, p.card)
  BY <1>1, <1>3, <1>5, <1>6 DEF Order!Neighbours
<1>8. Order!Neighbours(g, S \cup {p.card}, p.card, p.below)
  BY <1>1, <1>3, <1>5, <1>6 DEF Order!Neighbours
<1> QED BY <1>4, <1>7, <1>8 DEF r

\* A column that is numbered is held with its new numbers.
LEMMA NumberedHeld ==
  ASSUME NEW p, Holding(p), p.at = "between",
         NEW q, q = [p EXCEPT !.ranks = Order!Fresh(p.column, p.ranks)]
  PROVE  Holding(q)
<1>1. p.column \in SUBSET Cards /\ p.ranks \in [p.column -> Ranks]
  BY DEF Holding
<1>2. Order!Fresh(p.column, p.ranks) \in [p.column -> Ranks]
  BY <1>1, FreshKeeps DEF Ranks
<1>3. \A a, b \in p.column : Order!Above(p.ranks, a, b) <=> Order!Above(Order!Fresh(p.column, p.ranks), a, b)
  BY <1>1, FreshKeeps
<1>4. Order!Neighbours(Order!Fresh(p.column, p.ranks), p.column, p.above, p.below)
  <2>1. p.above \in p.column \cup {None} /\ p.below \in p.column \cup {None} /\ Order!Neighbours(p.ranks, p.column, p.above, p.below)
    BY DEF Holding
  <2> QED BY <1>3, <2>1, NeighboursAlike
<1>5. /\ q.ranks = Order!Fresh(p.column, p.ranks) /\ DOMAIN q = DOMAIN p
      /\ q.card = p.card /\ q.column = p.column /\ q.above = p.above /\ q.below = p.below /\ q.at = p.at
  BY DEF Holding
<1> QED BY <1>2, <1>4, <1>5 DEF Holding
\* A column is as it was read as long as no card of it or coming to it changes.
LEMMA Untouched ==
  ASSUME BoardInv, NEW j \in Hands, placing'[j] = placing[j],
         placing[j].at # "idle" /\ ~dirty'[j] =>
           /\ ~dirty[j]
           /\ \A c \in Cards : stage[c] = placing[j].from \/ stage'[c] = placing[j].from
                              => stage'[c] = stage[c],
         placing[j].at # "idle" /\ ~dirty'[j] =>
           \A c \in placing[j].column : stage[c] = placing[j].from => rank'[c] = rank[c]
  PROVE  AsRead(j)'
<1> SUFFICES ASSUME placing[j].at # "idle", ~dirty'[j]
             PROVE  /\ stage'[placing[j].card] = placing[j].from
                    /\ placing[j].column = {c \in Cards : stage'[c] = placing[j].from} \ {placing[j].card}
                    /\ \A d \in placing[j].column : placing[j].ranks[d] = rank'[d]
  BY DEF AsRead, Order!Column
<1>1. AsRead(j) /\ Holding(placing[j])
  BY DEF BoardInv
<1>2. placing[j].card \in Cards
  BY <1>1 DEF Holding
<1>3. /\ stage[placing[j].card] = placing[j].from
      /\ placing[j].column = {c \in Cards : stage[c] = placing[j].from} \ {placing[j].card}
      /\ \A d \in placing[j].column : placing[j].ranks[d] = rank[d]
  BY <1>1 DEF AsRead, Order!Column
<1>4. {c \in Cards : stage'[c] = placing[j].from} = {c \in Cards : stage[c] = placing[j].from}
  OBVIOUS
<1> QED BY <1>2, <1>3, <1>4

\* What a request holds, and what it has read, across every step.
LEMMA BoardKept ==
  ASSUME BoardInv, Order!Next
  PROVE  BoardInv'
<1>a. /\ stage \in [Cards -> Columns] /\ rank \in [Cards -> Ranks]
      /\ DOMAIN placing = Hands /\ DOMAIN dirty = Hands
  BY DEF BoardInv
<1>b. \A h \in Hands : Holding(placing[h]) /\ AsRead(h)
  BY DEF BoardInv
<1>c. \A h \in Hands : placing[h].at # "idle" => placing[h].card \in Cards /\ placing[h].card # None
  BY <1>b, Numbers DEF Holding
<1>n. Holding(Order!NoPlace)
  BY DEF Holding, Order!NoPlace
<1>1. ASSUME NEW h \in Hands, NEW c \in Cards, Order!Place(h, c) PROVE BoardInv'
  <2> DEFINE S == Order!Column(stage[c]) \ {c}
  <2>1. stage' = stage /\ rank' = rank /\ dirty' = [dirty EXCEPT ![h] = FALSE]
    BY <1>1 DEF Order!Place
  <2>2. PICK q : /\ placing' = [placing EXCEPT ![h] = q]
                 /\ Holding(q) /\ q.card = c /\ q.from = stage[c] /\ q.column = S
                 /\ \A d \in S : q.ranks[d] = rank[d]
    <3> DEFINE f == [d \in S |-> rank[d]]
    <3>1. S \subseteq Cards \ {c} /\ f \in [S -> Ranks]
      BY <1>a DEF Order!Column
    <3>2. PICK above \in S \cup {None}, below \in S \cup {None}, at \in {"top", "between"} :
            /\ at = "between" => Order!Neighbours(rank, S, above, below)
            /\ placing' = [placing EXCEPT ![h] =
                  [card |-> c, from |-> stage[c], column |-> S, ranks |-> f,
                   above |-> above, below |-> below, at |-> at]]
      BY <1>1 DEF Order!Place
    <3>3. PICK q : q = [card |-> c, from |-> stage[c], column |-> S, ranks |-> f,
                        above |-> above, below |-> below, at |-> at]
      OBVIOUS
    <3>4. at = "between" => Order!Neighbours(f, S, above, below)
      <4>1. \A a, b \in S : Order!Above(rank, a, b) <=> Order!Above(f, a, b)
        BY DEF Order!Above
      <4> HIDE DEF S, f
      <4> QED BY <3>2, <4>1, NeighboursAlike
    <3> HIDE DEF S
    <3>5. Holding(q)
      <4> HIDE DEF f
      <4> QED BY <3>1, <3>2, <3>3, <3>4 DEF Holding
    <3>6. q.card = c /\ q.from = stage[c] /\ q.column = S /\ \A d \in S : q.ranks[d] = rank[d]
      BY <3>3
    <3> HIDE DEF f
    <3> QED BY <3>2, <3>3, <3>5, <3>6
  <2>3. placing'[h] = q /\ \A j \in Hands \ {h} : placing'[j] = placing[j] /\ dirty'[j] = dirty[j]
    BY <1>a, <2>1, <2>2
  <2>4. AsRead(h)'
    BY <2>1, <2>2, <2>3 DEF AsRead, Order!Column
  <2>5. \A j \in Hands \ {h} : AsRead(j)'
    BY <1>b, <2>1, <2>3 DEF AsRead, Order!Column
  <2>6. \A j \in Hands : Holding(placing'[j])
    BY <1>b, <2>2, <2>3
  <2>7. DOMAIN placing' = Hands /\ DOMAIN dirty' = Hands
    BY <1>a, <2>1, <2>2
  <2>8. \A j \in Hands : Holding(placing[j])'
    BY <2>6 DEF Holding, Order!Neighbours, Order!Above
  <2> QED BY <1>a, <2>1, <2>4, <2>5, <2>7, <2>8 DEF BoardInv
\* A hand that puts its card down changes one number, that of the card.
<1>2. ASSUME NEW h \in Hands, placing' = [placing EXCEPT ![h] = Order!NoPlace], stage' = stage,
             NEW n \in Ranks, rank' = [rank EXCEPT ![placing[h].card] = n],
             Order!Touched(h, {stage[placing[h].card]})
      PROVE  BoardInv'
  <2>1. placing'[h] = Order!NoPlace /\ \A j \in Hands \ {h} : placing'[j] = placing[j]
    BY <1>a, <1>2
  <2>2. ASSUME NEW j \in Hands \ {h}, placing[j].at # "idle", ~dirty'[j]
        PROVE  ~dirty[j] /\ placing[j].from # stage[placing[h].card]
    BY <1>c, <1>2, <2>2 DEF Order!Touched
  <2>3. \A j \in Hands \ {h} : AsRead(j)'
    <3> SUFFICES ASSUME NEW j \in Hands \ {h} PROVE AsRead(j)'
      OBVIOUS
    <3>1. placing[j].at # "idle" /\ ~dirty'[j] =>
            \A c \in placing[j].column : stage[c] = placing[j].from => rank'[c] = rank[c]
      BY <1>2, <2>2
    <3> QED BY <1>2, <2>1, <2>2, <3>1, Untouched
  <2>4. AsRead(h)'
    BY <2>1 DEF AsRead, Order!NoPlace
  <2>5. \A j \in Hands : Holding(placing'[j])
    BY <1>b, <1>n, <2>1
  <2>6. \A j \in Hands : Holding(placing[j])'
    BY <2>5 DEF Holding, Order!Neighbours, Order!Above
  <2>7. rank' \in [Cards -> Ranks] /\ DOMAIN placing' = Hands /\ DOMAIN dirty' = Hands
    BY <1>a, <1>2 DEF Order!Touched
  <2> QED BY <1>a, <1>2, <2>3, <2>4, <2>6, <2>7 DEF BoardInv
<1>3. ASSUME NEW h \in Hands, Order!Top(h) PROVE BoardInv'
  BY <1>2, <1>3 DEF Order!Top, Ranks
<1>4. ASSUME NEW h \in Hands, Order!Settle(h) PROVE BoardInv'
  <2> DEFINE n == Order!RankBetween(Order!Prev(placing[h]), Order!After(placing[h]))
             g == [rank EXCEPT ![placing[h].card] = n]
  <2>1. n \in Ranks
    <3>1. Holding(placing[h]) /\ placing[h].at = "between" /\ ~Order!Crowded(placing[h])
      BY <1>b, <1>4 DEF Order!Settle
    <3>2. PICK p : p = placing[h]
      OBVIOUS
    <3>3. p.card \notin p.column
      BY <3>1, <3>2 DEF Holding
    <3>4. PICK f : f = [d \in p.column \cup {p.card} |-> IF d = p.card THEN n ELSE p.ranks[d]]
      OBVIOUS
    <3>5. (\A d \in p.column : f[d] = p.ranks[d]) /\ f[p.card] = n
      <4> HIDE DEF n
      <4> QED BY <3>3, <3>4
    <3> QED BY <3>1, <3>2, <3>5, SettlesBetween DEF Ranks
  <2> QED BY <1>2, <1>4, <2>1 DEF Order!Settle
<1>5. ASSUME NEW h \in Hands, Order!Number(h) PROVE BoardInv'
  <2>1. PICK p : p = placing[h]
    OBVIOUS
  <2>2. PICK f : f = Order!Fresh(p.column, p.ranks)
    OBVIOUS
  <2>3. /\ p.at = "between" /\ stage' = stage
        /\ rank' = [c \in Cards |-> IF c \in p.column THEN f[c] ELSE rank[c]]
        /\ placing' = [placing EXCEPT ![h].ranks = f]
        /\ Order!Touched(h, {stage[c] : c \in p.column})
    BY <1>5, <2>1, <2>2 DEF Order!Number
  <2>4. PICK q : q = [p EXCEPT !.ranks = f]
    OBVIOUS
  <2>5. Holding(p) /\ Holding(q)
    BY <1>b, <2>1, <2>2, <2>3, <2>4, NumberedHeld
  <2>6. /\ q.ranks = f /\ q.card = p.card /\ q.from = p.from /\ q.column = p.column /\ q.at = p.at
        /\ p.column \subseteq Cards /\ f \in [p.column -> Ranks]
    BY <2>3, <2>4, <2>5 DEF Holding
  <2>7. placing' = [placing EXCEPT ![h] = q]
    BY <2>1, <2>3, <2>4
  <2>8. placing'[h] = q /\ \A j \in Hands \ {h} : placing'[j] = placing[j]
    BY <1>a, <2>7
  <2>9. AsRead(h)'
    <3>1. ~dirty'[h] => ~dirty[h]
      BY <1>a, <1>b, <2>3 DEF Order!Touched
    <3> QED
      BY <1>b, <2>1, <2>3, <2>6, <2>8, <3>1 DEF AsRead, Order!Column
  <2>10. \A j \in Hands \ {h} : AsRead(j)'
    <3> SUFFICES ASSUME NEW j \in Hands \ {h} PROVE AsRead(j)'
      OBVIOUS
    <3>1. ASSUME placing[j].at # "idle", ~dirty'[j]
          PROVE  ~dirty[j] /\ placing[j].from \notin {stage[c] : c \in p.column}
      BY <1>c, <2>3, <3>1 DEF Order!Touched
    <3>2. ASSUME placing[j].at # "idle", ~dirty'[j], NEW c \in placing[j].column, stage[c] = placing[j].from
          PROVE  rank'[c] = rank[c]
      <4>1. c \in Cards
        BY <1>b, <3>2 DEF Holding
      <4> QED BY <2>3, <3>1, <3>2, <4>1
    <3> QED BY <2>3, <2>8, <3>1, <3>2, Untouched
  <2>11. rank' \in [Cards -> Ranks] /\ DOMAIN placing' = Hands /\ DOMAIN dirty' = Hands
    BY <1>a, <2>3, <2>6 DEF Order!Touched
  <2>12. \A j \in Hands : Holding(placing'[j])
    BY <1>b, <2>5, <2>8
  <2>13. \A j \in Hands : Holding(placing[j])'
    BY <2>12 DEF Holding, Order!Neighbours, Order!Above
  <2> QED BY <1>a, <2>3, <2>9, <2>10, <2>11, <2>13 DEF BoardInv
<1>6. ASSUME NEW c \in Cards, NEW s \in Columns, Order!Move(c, s) PROVE BoardInv'
  <2>1. /\ stage' = [stage EXCEPT ![c] = s] /\ rank' = [rank EXCEPT ![c] = None]
        /\ placing' = placing /\ Order!Touched(None, {stage[c], s})
    BY <1>6 DEF Order!Move
  <2>2. ASSUME NEW j \in Hands, placing[j].at # "idle", ~dirty'[j]
        PROVE  ~dirty[j] /\ placing[j].from # stage[c] /\ placing[j].from # s
    BY <1>c, <2>1, <2>2, Numbers DEF Order!Touched
  <2>3. \A d \in Cards \ {c} : stage'[d] = stage[d] /\ rank'[d] = rank[d]
    BY <1>a, <2>1
  <2>4. stage'[c] = s
    BY <1>a, <2>1
  <2>5. \A j \in Hands : AsRead(j)'
    <3> SUFFICES ASSUME NEW j \in Hands PROVE AsRead(j)'
      OBVIOUS
    <3>1. placing[j].at # "idle" => placing[j].column \subseteq Cards
      BY <1>b DEF Holding
    <3> QED BY <2>1, <2>2, <2>3, <2>4, <3>1, Untouched
  <2>6. \A j \in Hands : Holding(placing[j])'
    BY <1>b, <2>1 DEF Holding, Order!Neighbours, Order!Above
  <2>7. stage' \in [Cards -> Columns] /\ rank' \in [Cards -> Ranks] /\ DOMAIN dirty' = Hands
    BY <1>a, <2>1 DEF Order!Touched, Ranks
  <2> QED BY <1>a, <2>1, <2>5, <2>6, <2>7 DEF BoardInv
<1> QED BY <1>1, <1>3, <1>4, <1>5, <1>6 DEF Order!Next
\* A hand that takes a step on a column as it read it leaves the others in their order;
\* and what it puts down lies where it was to lie.
LEMMA PlacedThere ==
  ASSUME BoardInv, Order!Next, NEW h \in Hands,
         placing[h].card # None, placing'[h] # placing[h], ~dirty[h]
  PROVE  /\ \A c, d \in placing[h].column : Order!Above(rank, c, d) <=> Order!Above(rank', c, d)
         /\ placing'[h] = Order!NoPlace =>
              IF placing[h].at = "between" THEN Order!Between(placing[h])
              ELSE \A d \in placing[h].column : rank[d] # None => Order!Above(rank', placing[h].card, d)
<1>1. PICK p : p = placing[h]
  OBVIOUS
<1>2. /\ Holding(p) /\ p.at # "idle" /\ p.card \in Cards
      /\ p.column \subseteq Cards \ {p.card} /\ p.ranks \in [p.column -> Ranks]
  <2>1. Holding(p) /\ p.card # None
    BY <1>1 DEF BoardInv
  <2>2. p.at # "idle"
    BY <2>1 DEF Holding
  <2> QED BY <2>1, <2>2 DEF Holding
<1>3. /\ stage[p.card] = p.from /\ p.column = {c \in Cards : stage[c] = p.from} \ {p.card}
      /\ \A d \in p.column : p.ranks[d] = rank[d]
  BY <1>1, <1>2 DEF BoardInv, AsRead, Order!Column
<1>4. \A c, d \in p.column : Order!Above(p.ranks, c, d) <=> Order!Above(rank, c, d)
  BY <1>3 DEF Order!Above
<1>a. stage \in [Cards -> Columns] /\ rank \in [Cards -> Ranks] /\ DOMAIN placing = Hands
  BY DEF BoardInv
<1>5. Order!Top(h) \/ Order!Number(h) \/ Order!Settle(h)
  <2>1. ASSUME NEW j \in Hands, Order!Top(j) \/ Order!Number(j) \/ Order!Settle(j) PROVE j = h
    BY <1>a, <2>1 DEF Order!Top, Order!Number, Order!Settle
  <2>2. ASSUME NEW j \in Hands, NEW c \in Cards, Order!Place(j, c) PROVE FALSE
    <3>1. j = h
      BY <1>a, <2>2 DEF Order!Place
    <3> QED BY <2>2, <3>1 DEF Order!Place, Order!NoPlace
  <2>3. ASSUME NEW c \in Cards, NEW s \in Columns, Order!Move(c, s) PROVE FALSE
    BY <2>3 DEF Order!Move
  <2> QED BY <2>1, <2>2, <2>3 DEF Order!Next
<1>6. CASE Order!Top(h)
  <2>1. p.at = "top" /\ rank' = [rank EXCEPT ![p.card] = None]
    BY <1>1, <1>6 DEF Order!Top
  <2>2. \A d \in p.column : rank'[d] = rank[d]
    BY <1>2, <2>1
  <2>3. rank'[p.card] = None
    BY <1>a, <1>2, <2>1
  <2>4. \A d \in p.column : rank[d] # None => Order!Above(rank', p.card, d)
    BY <2>2, <2>3 DEF Order!Above
  <2>5. \A c, d \in p.column : Order!Above(rank, c, d) <=> Order!Above(rank', c, d)
    BY <2>2 DEF Order!Above
  <2> QED BY <1>1, <2>1, <2>4, <2>5
<1>7. CASE Order!Number(h)
  <2>1. PICK f : f = Order!Fresh(p.column, p.ranks)
    OBVIOUS
  <2>2. /\ rank' = [c \in Cards |-> IF c \in p.column THEN f[c] ELSE rank[c]]
        /\ placing' = [placing EXCEPT ![h].ranks = f] /\ p.at = "between"
    BY <1>1, <1>7, <2>1 DEF Order!Number
  <2>3. \A c, d \in p.column : Order!Above(f, c, d) <=> Order!Above(p.ranks, c, d)
    BY <1>2, <2>1, FreshKeeps
  <2>4. \A c \in p.column : rank'[c] = f[c]
    BY <1>2, <2>2
  <2>5. \A c, d \in p.column : Order!Above(f, c, d) <=> Order!Above(rank', c, d)
    BY <2>4 DEF Order!Above
  <2>6. placing'[h] # Order!NoPlace
    <3>1. placing'[h] = [p EXCEPT !.ranks = f]
      BY <1>1, <1>a, <2>2
    <3>2. placing'[h].card = p.card
      BY <1>2, <3>1 DEF Holding
    <3> QED BY <1>2, <3>2, Numbers DEF Order!NoPlace
  <2> QED BY <1>1, <1>4, <2>3, <2>5, <2>6
<1>8. CASE Order!Settle(h)
  <2>1. /\ p.at = "between" /\ ~Order!Crowded(p) /\ stage' = stage
        /\ rank' = [rank EXCEPT ![p.card] = Order!RankBetween(Order!Prev(p), Order!After(p))]
    BY <1>1, <1>8 DEF Order!Settle
  <2>2. \A d \in p.column : rank'[d] = rank[d]
    BY <1>2, <2>1
  <2>3. rank'[p.card] = Order!RankBetween(Order!Prev(p), Order!After(p))
    BY <1>a, <1>2, <2>1
  <2>4. \A c, d \in p.column : Order!Above(rank, c, d) <=> Order!Above(rank', c, d)
    BY <2>2 DEF Order!Above
  <2>5. \A d \in p.column : rank'[d] = p.ranks[d]
    BY <1>3, <2>2
  <2>6. /\ Order!Neighbours(rank', p.column \cup {p.card}, p.above, p.card)
        /\ Order!Neighbours(rank', p.column \cup {p.card}, p.card, p.below)
    <3>1. PICK g : g = rank'
      OBVIOUS
    <3>2. (\A d \in p.column : g[d] = p.ranks[d]) /\ g[p.card] = Order!RankBetween(Order!Prev(p), Order!After(p))
      BY <2>3, <2>5, <3>1
    <3>3. /\ Order!Neighbours(g, p.column \cup {p.card}, p.above, p.card)
          /\ Order!Neighbours(g, p.column \cup {p.card}, p.card, p.below)
      BY <1>2, <2>1, <3>2, SettlesBetween
    <3> QED BY <3>1, <3>3
  <2>7. {c \in Cards : stage'[c] = p.from} = p.column \cup {p.card}
    BY <1>2, <1>3, <2>1
  <2>8. Order!Between(p)
    BY <2>6, <2>7 DEF Order!Between
  <2> QED BY <1>1, <2>1, <2>4, <2>8
<1> QED BY <1>5, <1>6, <1>7, <1>8

-----------------------------------------------------------------------------
(* The whole: one part is followed, the others rest.                           *)

\* What the parts keep, kept by all of them together.
LEMMA HandlingKept == HandlingSpec => []HandlingInv
<1>1. HandlingInit => HandlingInv
  <2> SUFFICES ASSUME HandlingInit PROVE HandlingInv
    OBVIOUS
  <2>1. TriageInv
    <3>1. PICK u \in People \cup {None}, T \in {{}, Tags} :
            resp = [r \in Responses |-> [assignee |-> u, tags |-> T, deleted |-> FALSE]]
      BY DEF HandlingInit, Init
    <3>2. tagRows = Tags /\ member \in SUBSET People /\ shared = People \ member
          /\ request = [k \in Slots |-> Idle] /\ faults = 0
      BY DEF HandlingInit, Init
    <3>3. TypeOK
      BY <3>1, <3>2 DEF TypeOK
    <3>4. RequestInv
      BY <3>2, IdleTyped DEF RequestInv
    <3>5. RemovedHoldNothing
      BY <3>1, <3>2 DEF RemovedHoldNothing, CanTake
    <3>6. TagInv
      BY <3>1, <3>2 DEF TagInv, Missed, Idle
    <3> QED BY <3>2, <3>3, <3>4, <3>5, <3>6 DEF TriageInv
  <2>2. ScoreInv
    <3>1. /\ criterion = [c \in Criteria |-> Marks!Absent]
          /\ entries = [x \in Reviewers \X Criteria |-> 0]
          /\ editing = [e \in Editors |-> Marks!Resting]
      BY DEF HandlingInit, Marks!Init
    <3>2. CriterionTypes
      BY <3>1 DEF CriterionTypes, Marks!Absent, Marks!Resting
    <3>3. DefaultInv
      BY <3>1 DEF DefaultInv, Here, Marks!There, Marks!Absent, Marks!Resting
    <3> QED BY <3>1, <3>2, <3>3 DEF ScoreInv
  <2>3. NoteInv
    BY DEF HandlingInit, Remarks!Init, Remarks!Away, NoteInv
  <2>4. BoardInv
    <3>1. /\ stage \in [Cards -> Columns] /\ rank = [c \in Cards |-> None]
          /\ placing = [h \in Hands |-> Order!NoPlace] /\ dirty = [h \in Hands |-> FALSE]
      BY DEF HandlingInit, Order!Init
    <3>2. \A h \in Hands : Holding(placing[h]) /\ AsRead(h)
      BY <3>1 DEF Holding, AsRead, Order!NoPlace
    <3> QED BY <3>1, <3>2 DEF BoardInv, Ranks
  <2> QED BY <2>1, <2>2, <2>3, <2>4 DEF HandlingInv
<1>2. HandlingInv /\ [HandlingNext]_handlingVars => HandlingInv'
  <2> SUFFICES ASSUME HandlingInv, [HandlingNext]_handlingVars PROVE HandlingInv'
    OBVIOUS
  <2>1. TriageInv /\ ScoreInv /\ NoteInv /\ BoardInv
    BY DEF HandlingInv
  <2>2. ASSUME UNCHANGED triageOnly PROVE TriageInv'
    BY <2>2, <2>1 DEF triageOnly, TriageInv, TypeOK, RequestInv, Typed, RemovedHoldNothing, CanTake, TagInv, Missed
  <2>3. ASSUME UNCHANGED scoresOnly PROVE ScoreInv'
    BY <2>3, <2>1 DEF scoresOnly, ScoreInv, CriterionTypes, DefaultInv, Here, Marks!There, Pending, Marks!At
  <2>4. ASSUME UNCHANGED notesOnly PROVE NoteInv'
    BY <2>4, <2>1 DEF notesOnly, NoteInv, Reached
  <2>5. ASSUME UNCHANGED boardOnly PROVE BoardInv'
    BY <2>5, <2>1 DEF boardOnly, BoardInv, Holding, AsRead, Order!Column, Order!Neighbours, Order!Above
  <2>6. ASSUME Next PROVE TriageInv'
    <3>1. faults' \in Nat
      <4>1. \/ UNCHANGED faults
            \/ \E k \in Slots : Cut(k)
        BY <2>6 DEF Next, Bulk, Write, PullTag, DropTag, CommitMerge, Offboard, BulkCheck, Assign, Retag,
           Delete, Unassign, DeleteTag, MergeTag, Remove, Leave, Trash
      <4>2. ASSUME NEW k \in Slots, Cut(k) PROVE faults' = faults + 1
        BY <4>2 DEF Cut
      <4> QED BY <2>1, <4>1, <4>2 DEF TriageInv
    <3> QED BY <2>6, <2>1, <3>1, RequestsKept, RowsKept, HoldersKept, TagsKept DEF TriageInv
  <2> QED BY <2>1, <2>2, <2>3, <2>4, <2>5, <2>6, ScoresKept, TellingsKept, BoardKept
          DEF HandlingNext, HandlingInv, handlingVars, triageVars, triageOnly, scoresOnly, notesOnly, boardOnly
<1> QED BY <1>1, <1>2, PTL DEF HandlingSpec

\* Whatever removals, deletions, merges and bulk changes interleave, in any number and
\* wherever one stops: every row is of its type, nothing is left with a member that went or
\* under a tag that is gone but by a write checked before, and nobody scores twice.
THEOREM NothingLeftOver == HandlingSpec => []NothingDangles
<1>1. HandlingInv => NothingDangles
  <2>1. TagInv => TagsExist
    BY DEF TagInv, TagsExist, Missed
  <2>2. ScoreInv => Marks!OneScoreEach
    BY DEF ScoreInv, Marks!OneScoreEach
  <2> QED BY <2>1, <2>2 DEF HandlingInv, TriageInv, NothingDangles
<1> QED BY <1>1, HandlingKept, PTL

\* Everyone a stored note mentions is told or about to be, however many edits, deletions and
\* changes of access interleave: no two edits leave the telling to each other.
THEOREM EverybodyTold == HandlingSpec => []MentionsTold
<1>1. HandlingInv => MentionsTold
  BY DEF HandlingInv, NoteInv, MentionsTold, Remarks!MentionsTold, Reached
<1> QED BY <1>1, HandlingKept, PTL

\* A merge's responses carry the other tag, however its transaction started over; and a form
\* that has a criterion has one after every step, whatever is deleted side by side.
THEOREM DeletionsKeep == HandlingSpec => DeletesKeep
<1> DEFINE Carries ==
      \A k \in Slots :
        request[k].kind = "merge" /\ request'[k] = Idle /\ faults' = faults =>
          \A r \in Tagged(request[k].arg) :
            \/ request[k].into \in resp'[r].tags /\ request[k].arg \notin resp'[r].tags
            \/ <<r, request[k].arg>> \in excused
<1>1. HandlingInv /\ [HandlingNext]_handlingVars => [Carries]_triageVars
  <2> SUFFICES ASSUME HandlingInv, [HandlingNext]_handlingVars,
                      NEW k \in Slots, request[k].kind = "merge", request'[k] = Idle, faults' = faults,
                      NEW r \in Tagged(request[k].arg)
               PROVE  \/ request[k].into \in resp'[r].tags /\ request[k].arg \notin resp'[r].tags
                      \/ <<r, request[k].arg>> \in excused
    OBVIOUS
  <2>1. CASE Next
    BY <2>1, MergesCarry DEF HandlingInv, TriageInv
  <2>2. CASE UNCHANGED triageOnly
    BY <2>2 DEF triageOnly, Idle
  <2> QED BY <2>1, <2>2 DEF HandlingNext, handlingVars, triageVars, triageOnly
<1>2. HandlingInv /\ [HandlingNext]_handlingVars => [Marks!There # {} => Marks!There' # {}]_(Marks!scoreVars)
  <2> SUFFICES ASSUME HandlingInv, [HandlingNext]_handlingVars, Here # {}
               PROVE  Here' # {}
    BY DEF Here
  <2>1. CASE Marks!Next
    BY <2>1, CriterionStays DEF HandlingInv
  <2>2. CASE UNCHANGED scoresOnly
    BY <2>2 DEF scoresOnly, Here, Marks!There
  <2> QED BY <2>1, <2>2 DEF HandlingNext, handlingVars, scoresOnly
<1> QED BY <1>1, <1>2, HandlingKept, PTL DEF HandlingSpec, DeletesKeep, MergeCarriesOver, Marks!SomeCriterion

\* A card that is placed on a column nobody else has changed since it was read ends up
\* directly between the cards it was dropped between, and no other card moves: not when the
\* column is numbered first either, whatever numbers, equal ones or none it had.
THEOREM EverythingPlaced == HandlingSpec => PlacedRight
<1> DEFINE Stays == \A h \in Hands : Order!Fair(h) =>
                      \A c, d \in placing[h].column : Order!Above(rank, c, d) <=> Order!Above(rank', c, d)
           Asked == \A h \in Hands : Order!Fair(h) /\ placing'[h] = Order!NoPlace =>
                      LET p == placing[h]
                      IN IF p.at = "between" THEN Order!Between(p)
                         ELSE \A d \in p.column : rank[d] # None => Order!Above(rank', p.card, d)
<1>1. HandlingInv /\ [HandlingNext]_handlingVars => [Stays]_(Order!boardVars) /\ [Asked]_(Order!boardVars)
  <2> SUFFICES ASSUME HandlingInv, [HandlingNext]_handlingVars, NEW h \in Hands, Order!Fair(h)
               PROVE  /\ \A c, d \in placing[h].column : Order!Above(rank, c, d) <=> Order!Above(rank', c, d)
                      /\ placing'[h] = Order!NoPlace =>
                           IF placing[h].at = "between" THEN Order!Between(placing[h])
                           ELSE \A d \in placing[h].column :
                                  rank[d] # None => Order!Above(rank', placing[h].card, d)
    OBVIOUS
  <2>1. placing[h].card # None /\ placing'[h] # placing[h] /\ ~dirty[h]
    BY DEF Order!Fair
  <2>2. Order!Next
    BY <2>1 DEF HandlingNext, handlingVars, boardOnly
  <2> QED BY <2>1, <2>2, PlacedThere DEF HandlingInv
<1> QED BY <1>1, HandlingKept, PTL DEF HandlingSpec, PlacedRight, Order!OthersStay, Order!PlacedAsAsked
===============================================================================
