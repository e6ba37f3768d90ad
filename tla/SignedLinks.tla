----------------------------- MODULE SignedLinks -----------------------------
(* What a respondent does with a stored response: signed links, correcting    *)
(* the answers, claiming with an account (services/respondent.service.ts),    *)
(* and the flag members clear (services/response.service.ts).                 *)
(*                                                                            *)
(* A correction reads response and form, decides, asks whether a member has   *)
(* seen the response, and writes all answers. A claim takes the link in one   *)
(* conditional update and attaches the responses in another.                  *)
EXTENDS Naturals, FiniteSets

CONSTANTS
  Replies,      \* responses to tracked forms
  Links,        \* tokens, each issued once
  Addresses,
  Holder,       \* per address: the account that has it; an address is unique
  Hands,        \* requests under way at the same time
  None,
  MaxRequests,  \* bound: requests
  MaxCuts       \* bound: requests cut short

Accounts == {Holder[e] : e \in Addresses}
LinkRows == [r : Replies, revoked : BOOLEAN, claimed : BOOLEAN, expired : BOOLEAN]

ASSUME SignedLinksAssumption ==
  /\ DOMAIN Holder = Addresses /\ None \notin Replies \cup Accounts \cup LinkRows /\ IsFiniteSet(Hands)
  /\ MaxRequests \in Nat /\ MaxCuts \in Nat

VARIABLES
  closed,     \* is the form closed, archived or in Trash?
  reply,      \* per response: address, verified, owner, status, answers, flag
  opened,     \* responses a member has opened: models/ResponseReadState.ts
  link,       \* per token: its row, or None
  asking,     \* per hand: where its request is, with what it read
  overlapped, \* history: corrections that were under way together with another
  done,       \* history: corrections that were answered with success
  unseen,     \* history: responses corrected after review, not acknowledged since
  halfway,    \* history: links whose claim was cut short
  started, cuts

linkVars == <<closed, reply, opened, link, asking, overlapped, done, unseen, halfway, started, cuts>>

Waiting == [at |-> "idle", r |-> None, l |-> None, copy |-> None, id |-> 0, seen |-> FALSE, base |-> {}]

\* Responses from before addresses were verified are still there.
Init ==
  /\ closed = FALSE
  /\ reply \in [Replies -> [address : Addresses, verified : BOOLEAN, owner : {None}, status : {"new"},
                            answers : {{}}, flag : {FALSE}, gone : {FALSE}]]
  /\ opened = {} /\ link = [l \in Links |-> None]
  /\ asking = [h \in Hands |-> Waiting]
  /\ overlapped = {} /\ done = {} /\ unseen = {} /\ halfway = {}
  /\ started = 0 /\ cuts = 0

history == <<overlapped, done, unseen, halfway>>
Begin(h, r) == asking[h] = Waiting /\ started < MaxRequests /\ started' = started + 1 /\ ~reply[r].gone
Settle(h) == asking' = [asking EXCEPT ![h] = Waiting]

\* issueLink, after a submission or when asked for again: the links of the
\* response are revoked, then the new one is stored.
\* Variant: the links before stay.
RevokedBeforeNot(r) == link
RevokedBefore(r) == [l \in Links |-> IF link[l] # None /\ link[l].r = r THEN [link[l] EXCEPT !.revoked = TRUE] ELSE link[l]]

Issue(h, r) ==
  /\ Begin(h, r)
  /\ link' = RevokedBefore(r)
  /\ asking' = [asking EXCEPT ![h] = [Waiting EXCEPT !.at = "issue", !.r = r]]
  /\ UNCHANGED <<closed, reply, opened, history, cuts>>
Issued(h, l) ==
  /\ asking[h].at = "issue" /\ link[l] = None
  /\ link' = [link EXCEPT ![l] = [r |-> asking[h].r, revoked |-> FALSE, claimed |-> FALSE, expired |-> FALSE]]
  /\ Settle(h)
  /\ UNCHANGED <<closed, reply, opened, history, started, cuts>>
Expire(l) ==
  /\ link[l] # None /\ ~link[l].expired
  /\ link' = [link EXCEPT ![l].expired = TRUE]
  /\ UNCHANGED <<closed, reply, opened, asking, history, started, cuts>>

\* resolveLink
Valid(l) == link[l] # None /\ ~link[l].revoked /\ ~link[l].claimed /\ ~link[l].expired

\* viewViaLink reads the row and saves when it was last used: only that field.
\* Variant: the whole row is written back.
TouchedWhole(l, copy) == copy
Touched(l, copy) == link[l]
View(h, l) ==
  /\ Valid(l) /\ Begin(h, link[l].r)
  /\ asking' = [asking EXCEPT ![h] = [Waiting EXCEPT !.at = "view", !.l = l, !.copy = link[l]]]
  /\ UNCHANGED <<closed, reply, opened, link, history, cuts>>
Viewed(h) ==
  /\ asking[h].at = "view" /\ Settle(h)
  /\ link' = [link EXCEPT ![asking[h].l] = Touched(asking[h].l, asking[h].copy)]
  /\ UNCHANGED <<closed, reply, opened, history, started, cuts>>

\* readOnlyReasonFor
Editable(r) == ~closed /\ reply[r].status # "completed"
\* loadMine, or a link: who may correct this response.
MayCorrect(r) == reply[r].owner # None \/ \E l \in Links : Valid(l) /\ link[l].r = r

\* Variant: a status other than new is the only sign of a review.
SeenByStatusOnly(r, seen) == seen
\* hasBeenReviewed: the status as read before, and the rows as they are.
SeenBy(r, seen) == seen \/ r \in opened

\* editViaLink and editMine up to the merge over the answers read.
Correct(h, r) ==
  /\ MayCorrect(r) /\ Editable(r) /\ Begin(h, r)
  /\ asking' = [asking EXCEPT ![h] = [Waiting EXCEPT !.at = "review", !.r = r, !.id = started', !.base = reply[r].answers,
                                                     !.seen = reply[r].status # "new"]]
  /\ overlapped' = overlapped \cup UNION {{asking[j].id, started'} : j \in {i \in Hands : asking[i].at \in {"review", "write"} /\ asking[i].r = r}}
  /\ UNCHANGED <<closed, reply, opened, link, done, unseen, halfway, cuts>>
Review(h) ==
  /\ asking[h].at = "review"
  /\ asking' = [asking EXCEPT ![h].at = "write", ![h].seen = SeenBy(asking[h].r, @)]
  /\ unseen' = IF asking[h].seen \/ asking[h].r \in opened THEN unseen \cup {<<asking[h].r, asking[h].id>>} ELSE unseen
  /\ UNCHANGED <<closed, reply, opened, link, overlapped, done, halfway, started, cuts>>

\* Variant: only what was typed is written.
MergedNot(base, id) == {id}
Merged(base, id) == base \cup {id}
Write(h) ==
  LET a == asking[h]
  IN /\ a.at = "write" /\ Settle(h)
     /\ reply' = [reply EXCEPT ![a.r].answers = Merged(a.base, a.id), ![a.r].flag = @ \/ a.seen]
     /\ done' = done \cup {<<a.r, a.id>>}
     /\ UNCHANGED <<closed, opened, link, overlapped, unseen, halfway, started, cuts>>

\* clearEditedAfterReview: a flag that was not set when read is left alone.
Clear(h, r) ==
  /\ reply[r].flag /\ Begin(h, r)
  /\ asking' = [asking EXCEPT ![h] = [Waiting EXCEPT !.at = "clear", !.r = r]]
  /\ UNCHANGED <<closed, reply, opened, link, history, cuts>>
Cleared(h) ==
  LET r == asking[h].r
  IN /\ asking[h].at = "clear" /\ Settle(h)
     /\ reply' = [reply EXCEPT ![r].flag = FALSE]
     /\ unseen' = {u \in unseen : u[1] # r \/ u \notin done}
     /\ UNCHANGED <<closed, opened, link, overlapped, done, halfway, started, cuts>>

\* claimViaLink: the account signed in has the address of the link.
\* Variant: whoever is signed in.
ClaimantAny(r, a) == a \in Accounts
Claimant(r, a) == a = Holder[reply[r].address]
Claim(h, l, a) ==
  /\ Valid(l) /\ Begin(h, link[l].r) /\ Claimant(link[l].r, a)
  /\ asking' = [asking EXCEPT ![h] = [Waiting EXCEPT !.at = "claim", !.l = l, !.copy = a]]
  /\ UNCHANGED <<closed, reply, opened, link, history, cuts>>
Claimed(h) ==
  /\ asking[h].at = "claim"
  /\ IF link[asking[h].l].claimed THEN Settle(h) /\ UNCHANGED link
     ELSE link' = [link EXCEPT ![asking[h].l].claimed = TRUE] /\ asking' = [asking EXCEPT ![h].at = "attach"]
  /\ UNCHANGED <<closed, reply, opened, history, started, cuts>>
\* Variant: only what was verified.
AttachableVerified(r, e) == reply[r].address = e /\ reply[r].verified
\* Responses that were tracked for the address: they have a link.
Attachable(r, e) == \E l \in Links : link[l] # None /\ link[l].r = r /\ reply[r].address = e
Attach(h) ==
  LET a == asking[h]
      e == reply[link[a.l].r].address
  IN /\ a.at = "attach" /\ Settle(h)
     /\ reply' = [r \in Replies |-> IF Attachable(r, e) /\ reply[r].owner = None THEN [reply[r] EXCEPT !.owner = a.copy] ELSE reply[r]]
     /\ UNCHANGED <<closed, opened, link, history, started, cuts>>

\* Variant: whatever was submitted with the address.
AttachesAny(r, e) == reply[r].address = e
\* attachVerifiedSubmissions, before the list of My submissions.
Attaches(r, e) == reply[r].address = e /\ reply[r].verified /\ ~reply[r].gone
ListMine(e) ==
  /\ reply' = [r \in Replies |-> IF Attaches(r, e) /\ reply[r].owner = None THEN [reply[r] EXCEPT !.owner = Holder[e]] ELSE reply[r]]
  /\ UNCHANGED <<closed, opened, link, asking, history, started, cuts>>

\* Members: a stage change, opening and marking as unread, Trash, the form.
Member == started < MaxRequests /\ started' = started + 1
Move(r, s) ==
  /\ Member /\ reply[r].status # s /\ ~reply[r].gone
  /\ reply' = [reply EXCEPT ![r].status = s]
  /\ UNCHANGED <<closed, opened, link, asking, history, cuts>>
OpenOrUnread(r) ==
  /\ Member /\ ~reply[r].gone
  /\ opened' = IF r \in opened THEN opened \ {r} ELSE opened \cup {r}
  /\ UNCHANGED <<closed, reply, link, asking, history, cuts>>
Trash(r) ==
  /\ Member /\ ~reply[r].gone
  /\ reply' = [reply EXCEPT ![r].gone = TRUE]
  /\ UNCHANGED <<closed, opened, link, asking, history, cuts>>
CloseForm ==
  /\ Member /\ closed' = ~closed
  /\ UNCHANGED <<reply, opened, link, asking, history, cuts>>

\* The process stops, or a statement fails.
Cut(h) ==
  /\ asking[h] # Waiting /\ cuts < MaxCuts /\ cuts' = cuts + 1
  /\ Settle(h)
  /\ halfway' = IF asking[h].at = "attach" THEN halfway \cup {asking[h].l} ELSE halfway
  /\ UNCHANGED <<closed, reply, opened, link, overlapped, done, unseen, started>>

Next ==
  \/ \E h \in Hands, r \in Replies : Issue(h, r) \/ Correct(h, r) \/ Clear(h, r)
  \/ \E h \in Hands, l \in Links : Issued(h, l) \/ View(h, l) \/ \E a \in Accounts : Claim(h, l, a)
  \/ \E h \in Hands : Viewed(h) \/ Review(h) \/ Write(h) \/ Cleared(h) \/ Claimed(h) \/ Attach(h) \/ Cut(h)
  \/ \E l \in Links : Expire(l)
  \/ \E e \in Addresses : ListMine(e)
  \/ \E r \in Replies : OpenOrUnread(r) \/ Trash(r) \/ \E s \in {"new", "in_progress", "completed"} : Move(r, s)
  \/ CloseForm

------------------------------------------------------------------------------
\* A link that was rotated away or claimed never opens anything again,
\* whatever a request that read it earlier still saves.
GoneLinksStay ==
  [][\A l \in Links : link[l] # None =>
       /\ link'[l] # None
       /\ link[l].revoked => link'[l].revoked
       /\ link[l].claimed => link'[l].claimed]_linkVars

\* A response has no more links that are not revoked than there were requests
\* issuing one side by side.
LinksBounded ==
  \A r \in Replies : Cardinality({l \in Links : link[l] # None /\ link[l].r = r /\ ~link[l].revoked}) <= Cardinality(Hands)

\* A response belongs to the account with its address only, and only when the
\* address was verified or a link mailed to it was claimed.
OwnerIsProven ==
  \A r \in Replies : reply[r].owner # None =>
    /\ reply[r].owner = Holder[reply[r].address]
    /\ reply[r].verified \/ \E l \in Links : link[l] # None /\ link[l].claimed /\ reply[link[l].r].address = reply[r].address

\* A link that was claimed has brought its response along, unless the claim is
\* under way or was cut short.
ClaimBringsAlong ==
  \A l \in Links : link[l] # None /\ link[l].claimed =>
    \/ reply[link[l].r].owner # None
    \/ l \in halfway
    \/ \E h \in Hands : asking[h].at = "attach" /\ asking[h].l = l

\* A correction that was answered with success stays in the answers, unless it
\* was made side by side with another of the same response.
CorrectionsStay ==
  \A d \in done : d[2] \in overlapped \/ d[2] \in reply[d[1]].answers

\* A correction of a response that members had begun to look at is flagged
\* until they acknowledge it.
ReviewersKnow == \A u \in unseen \cap done : reply[u[1]].flag
==============================================================================
