---------------------------- MODULE Verification ----------------------------
(* How a respondent of a tracked form proves who submits: an emailed code     *)
(* (services/emailVerification.service.ts) or a ticket handed to a signed-in  *)
(* account (services/submitTicket.ts), and what the submission                *)
(* (controllers/form.controller.ts submitPublicForm) redeems.                 *)
(*                                                                            *)
(* A record is read in one round trip and changed in another; redemption is   *)
(* one conditional update. Time passes by the actions that expire something.  *)
EXTENDS Naturals, FiniteSets

CONSTANTS
  Codes,        \* verification requests: a record and the browser's secret
  Tickets,      \* signed tickets, each for one account and one form
  Hands,        \* requests under way at the same time
  MaxAttempts,  \* MAX_ATTEMPTS
  MaxRequests   \* bound: requests

\* What is assumed of the constants.
VerificationAssumption ==
  /\ Codes \cap Tickets = {} /\ IsFiniteSet(Hands)
  /\ MaxAttempts \in Nat \ {0} /\ MaxRequests \in Nat

VARIABLES
  code,       \* per code: its record, its fields as in models/EmailVerification.ts
  ticket,     \* per ticket: "unissued", "valid", "expired"
  bucket,     \* tickets whose redemption has a row of RateLimitBucket
  suspended,  \* is the account of the tickets suspended?
  proving,    \* per hand: where its request is, with which proof
  passed,     \* history: how often a proof let a submission through
  started

verificationVars == <<code, ticket, bucket, suspended, proving, passed, started>>

Proofs == Codes \cup Tickets
NoRecord == [at |-> "none", attempts |-> 0, live |-> FALSE, verified |-> FALSE, proofLive |-> FALSE, used |-> FALSE]
Resting == [at |-> "idle", with |-> {}]

Init ==
  /\ code = [c \in Codes |-> NoRecord]
  /\ ticket = [t \in Tickets |-> "unissued"]
  /\ bucket = {} /\ suspended = FALSE
  /\ proving = [h \in Hands |-> Resting]
  /\ passed = [p \in Proofs |-> 0]
  /\ started = 0

Begin(h, at, p) ==
  /\ proving[h] = Resting /\ started < MaxRequests
  /\ started' = started + 1
  /\ proving' = [proving EXCEPT ![h] = [at |-> at, with |-> {p}]]
Rest(h) == proving' = [proving EXCEPT ![h] = Resting]
Holds(h, at, p) == proving[h] = [at |-> at, with |-> {p}]

\* requestVerification stores the record, then mails the code.
RequestCode(h, c) ==
  /\ code[c] = NoRecord /\ Begin(h, "mail", c)
  /\ code' = [code EXCEPT ![c] = [NoRecord EXCEPT !.at = "stored", !.live = TRUE]]
  /\ UNCHANGED <<ticket, bucket, suspended, passed>>

\* A mail that fails takes the record away; the secret is answered only when
\* it went out.
Mailed(h, c) ==
  /\ Holds(h, "mail", c) /\ Rest(h)
  /\ \E sent \in BOOLEAN : code' = [code EXCEPT ![c].at = IF sent THEN "known" ELSE "deleted"]
  /\ UNCHANGED <<ticket, bucket, suspended, passed, started>>

\* Variant: the request is dead after the last try, not at it.
MayTryOneMore(r) == r.at = "known" /\ ~r.used /\ ~r.verified /\ r.live /\ r.attempts <= MaxAttempts
\* verifyCode compares the code for a record that is none of invalid, verified,
\* expired and locked.
MayTry(r) == r.at = "known" /\ ~r.used /\ ~r.verified /\ r.live /\ r.attempts < MaxAttempts

Try(h, c) ==
  /\ MayTry(code[c]) /\ Begin(h, "compare", c)
  /\ UNCHANGED <<code, ticket, bucket, suspended, passed>>

\* The code typed was right: verified, unless another request was faster.
Right(h, c) ==
  /\ Holds(h, "compare", c) /\ Rest(h)
  /\ code' = IF code[c].verified THEN code ELSE [code EXCEPT ![c].verified = TRUE, ![c].proofLive = TRUE]
  /\ UNCHANGED <<ticket, bucket, suspended, passed, started>>

Wrong(h, c) ==
  /\ Holds(h, "compare", c) /\ Rest(h)
  /\ code' = [code EXCEPT ![c].attempts = @ + 1]
  /\ UNCHANGED <<ticket, bucket, suspended, passed, started>>

CodeExpires(c) ==
  /\ code[c].live /\ code' = [code EXCEPT ![c].live = FALSE]
  /\ UNCHANGED <<ticket, bucket, suspended, proving, passed, started>>
ProofExpires(c) ==
  /\ code[c].proofLive /\ code' = [code EXCEPT ![c].proofLive = FALSE]
  /\ UNCHANGED <<ticket, bucket, suspended, proving, passed, started>>

\* Variant: the address may still be unverified.
RedeemableAny(r) == r.at = "known" /\ ~r.used
Redeemable(r) == r.verified /\ r.proofLive /\ ~r.used
\* redeem: one conditional update finds the record and uses it.
Redeem(h, c) ==
  /\ Redeemable(code[c]) /\ Begin(h, "store", c)
  /\ code' = [code EXCEPT ![c].used = TRUE]
  /\ passed' = [passed EXCEPT ![c] = @ + 1]
  /\ UNCHANGED <<ticket, bucket, suspended>>

\* issueSubmitTicket keeps nothing: the ticket is its signature.
IssueTicket(t) ==
  /\ ticket[t] = "unissued" /\ ~suspended
  /\ ticket' = [ticket EXCEPT ![t] = "valid"]
  /\ UNCHANGED <<code, bucket, suspended, proving, passed, started>>
TicketExpires(t) ==
  /\ ticket[t] = "valid" /\ ticket' = [ticket EXCEPT ![t] = "expired"]
  /\ UNCHANGED <<code, bucket, suspended, proving, passed, started>>

\* redeemSubmitTicket checks signature, form and expiry, then asks the store.
PresentTicket(h, t) ==
  /\ ticket[t] = "valid" /\ Begin(h, "ticket", t)
  /\ UNCHANGED <<code, ticket, bucket, suspended, passed>>

\* Variant: the row that was there is not looked at.
FirstRedemptionAlways(t) == TRUE
\* The upsert returns the document as it was before; of two inserts at once
\* the unique key refuses one, which ends that request.
FirstRedemption(t) == t \notin bucket

RedeemTicket(h, t) ==
  /\ Holds(h, "ticket", t)
  /\ bucket' = bucket \cup {t}
  /\ IF FirstRedemption(t)
     THEN /\ passed' = [passed EXCEPT ![t] = @ + 1]
          /\ proving' = [proving EXCEPT ![h].at = IF suspended THEN "idle" ELSE "store", ![h].with = IF suspended THEN {} ELSE @]
     ELSE Rest(h) /\ UNCHANGED passed
  /\ UNCHANGED <<code, ticket, suspended, started>>

\* Variant: the row expires together with the ticket.
RowMayGoAtOnce(t) == TRUE
\* The row is kept a minute longer than the ticket: longer than it takes a
\* request that found the ticket valid to reach the store.
RowMayGo(t) == \A h \in Hands : ~Holds(h, "ticket", t)

RowPurged(t) ==
  /\ t \in bucket /\ ticket[t] = "expired" /\ RowMayGo(t)
  /\ bucket' = bucket \ {t}
  /\ UNCHANGED <<code, ticket, suspended, proving, passed, started>>

\* The submission is stored or refused: the proof is gone either way.
Submitted(h, p) ==
  /\ Holds(h, "store", p) /\ Rest(h)
  /\ UNCHANGED <<code, ticket, bucket, suspended, passed, started>>

Suspend ==
  /\ ~suspended /\ suspended' = TRUE
  /\ UNCHANGED <<code, ticket, bucket, proving, passed, started>>

Next ==
  \/ \E h \in Hands, c \in Codes :
       RequestCode(h, c) \/ Mailed(h, c) \/ Try(h, c) \/ Right(h, c) \/ Wrong(h, c) \/ Redeem(h, c)
  \/ \E c \in Codes : CodeExpires(c) \/ ProofExpires(c)
  \/ \E h \in Hands, t \in Tickets : PresentTicket(h, t) \/ RedeemTicket(h, t)
  \/ \E t \in Tickets : IssueTicket(t) \/ TicketExpires(t) \/ RowPurged(t)
  \/ \E h \in Hands, p \in Proofs : Submitted(h, p)
  \/ Suspend

------------------------------------------------------------------------------
\* A verified address and a ticket let one submission through, however many
\* requests present them at once, before or after they expire.
ProofSpentOnce == \A p \in Proofs : passed[p] <= 1

\* Wrong tries end at MAX_ATTEMPTS, but for those that had passed the check by
\* then: fewer than there are requests under way.
TriesBounded == \A c \in Codes : code[c].attempts <= MaxAttempts + Cardinality(Hands) - 1
==============================================================================
