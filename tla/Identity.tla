------------------------------ MODULE Identity ------------------------------
(* Who is who: respondents before and after they submit, and accounts. The    *)
(* three parts keep documents of their own and are followed one by one.       *)
EXTENDS SignedLinks

CONSTANTS Requested, Codes, Tickets, MaxAttempts, MaxProofRequests, Sessions, MaxGuesses, HourlyMax, MaxTicks, MaxAccountRequests

VARIABLES
  part,                                                           \* the one that is followed
  code, ticket, bucket, suspended, proving, passed,               \* Verification
  status, firebase, session, slipped, revealed, otp, reveals, right,
  cooldown, hour, sent, ticks, visiting                           \* Accounts

Proving == INSTANCE Verification WITH Codes <- Requested, MaxRequests <- MaxProofRequests
Entry == INSTANCE Accounts WITH MaxRequests <- MaxAccountRequests

ASSUME IdentityAssumption == Proving!VerificationAssumption /\ Entry!AccountsAssumption

provingOnly == <<code, ticket, bucket, suspended, proving, passed>>
entryOnly == <<status, firebase, session, slipped, revealed, otp, reveals, right, cooldown, hour, sent, ticks, visiting>>
linksOnly == <<closed, reply, opened, link, asking, overlapped, done, unseen, halfway, cuts>>
identityVars == <<part, provingOnly, entryOnly, linksOnly, started>>

IdentityInit ==
  /\ part \in {"proof", "links", "accounts"}
  /\ Init /\ Proving!Init /\ Entry!Init
  /\ part # "links" => \A r \in Replies : reply[r].verified /\ \A s \in Replies : reply[s].address = reply[r].address

IdentityNext ==
  \/ part = "links" /\ Next /\ UNCHANGED <<part, provingOnly, entryOnly>>
  \/ part = "proof" /\ Proving!Next /\ UNCHANGED <<part, linksOnly, entryOnly>>
  \/ part = "accounts" /\ Entry!Next /\ UNCHANGED <<part, linksOnly, provingOnly>>

IdentitySpec == IdentityInit /\ [][IdentityNext]_identityVars

\* A type invariant; a code that let a submission through was verified.
TypeOK ==
  /\ reply \in [Replies -> [address : Addresses, verified : BOOLEAN, owner : Accounts \cup {None},
                            status : {"new", "in_progress", "completed"}, answers : SUBSET (1..MaxRequests),
                            flag : BOOLEAN, gone : BOOLEAN]]
  /\ link \in [Links -> {None} \cup LinkRows]
  /\ code \in [Requested -> [at : {"none", "stored", "known", "deleted"}, attempts : 0..MaxProofRequests, live : BOOLEAN,
                         verified : BOOLEAN, proofLive : BOOLEAN, used : BOOLEAN]]
  /\ \A c \in Requested : code[c].used => code[c].verified
  /\ session \in [Sessions -> {"none", "live", "revoked"}]
  /\ otp \in [Codes -> [at : {"none", "stored", "gone"}, guesses : 0..MaxAccountRequests, consumed : BOOLEAN]]
  /\ sent \in [window : Nat, hour : Nat]

\* Everything is of its type, and what is limited - wrong tries of a code, links of a
\* response, guesses and reveals of a ticket, mails in an hour - is exceeded by the
\* requests side by side at most.
WithinBounds ==
  /\ TypeOK
  /\ Proving!TriesBounded /\ LinksBounded
  /\ Entry!GuessesBounded /\ Entry!RevealsBounded /\ Entry!MailsBounded

\* A proof of an address serves one submission, a response has the owner who proved to be
\* its respondent, and a suspended account has no session but of a sign-in under way.
OnlyTheProven == Proving!ProofSpentOnce /\ OwnerIsProven /\ Entry!SuspendedIsOut

\* A link brings along what it stands for: a claim all responses of its address, and a
\* correction that stays and that those who had seen the response learn of.
LinksServe == ClaimBringsAlong /\ CorrectionsStay /\ ReviewersKnow

\* A revoked session stays revoked (Accounts).
RevokedStay == [][\A s \in Sessions : session[s] = "revoked" => session'[s] = "revoked"]_identityVars

\* A link that is gone, and a session that was revoked, never come back.
GoneStay == GoneLinksStay /\ RevokedStay
==============================================================================
