------------------------------ MODULE Accounts ------------------------------
(* Signing in and out: sessions (controllers/auth.controller.ts session and   *)
(* logout, controllers/session.controller.ts, middleware/auth.middleware.ts), *)
(* suspension by an administrator (services/superadmin.service.ts             *)
(* updateAdmin), and the code a new account confirms its address with, with   *)
(* the cooldown of its mail (utils/rateLimiter.ts).                           *)
(*                                                                            *)
(* One account. Signing in checks the account and creates the session in two  *)
(* round trips; revealing a code takes four.                                  *)
EXTENDS Naturals, FiniteSets

CONSTANTS
  Sessions,     \* sessions, each created once
  Codes,        \* records of AuthOtp, each created once
  Tickets,      \* records of AuthTicket, each created once
  Hands,        \* requests under way at the same time
  None,
  MaxGuesses,   \* the 5 of verifyEmailCode
  HourlyMax,    \* the 5 of checkVerificationRateLimit
  MaxRequests,  \* bound: requests
  MaxTicks      \* bound: cooldown windows in the same hour

\* What is assumed of the constants.
AccountsAssumption ==
  /\ None \notin Sessions \cup Codes \cup Tickets /\ IsFiniteSet(Hands)
  /\ MaxGuesses \in Nat \ {0} /\ HourlyMax \in Nat /\ MaxRequests \in Nat /\ MaxTicks \in Nat

VARIABLES
  status,     \* "active" or "suspended", as stored
  firebase,   \* does Firebase let the account sign in?
  session,    \* per session: "none", "live", "revoked"
  slipped,    \* history: sessions created by a sign-in a suspension was not done for
  revealed,   \* per ticket: "none", "valid", "consumed", "gone"
  otp,        \* per code: its record
  reveals,    \* history: per ticket, how many codes it was exchanged for
  right,      \* history: per code, how often it confirmed the address
  cooldown, hour, sent,   \* counters of the window and of the hour; history: mails in both
  ticks,
  visiting,   \* per hand: where its request is, with what
  started

accountVars == <<status, firebase, session, slipped, revealed, otp, reveals, right, cooldown, hour, sent, ticks, visiting, started>>
sessionVars == <<status, firebase, session, slipped>>
codeVars == <<revealed, otp, reveals, right>>
mailVars == <<cooldown, hour, sent, ticks>>

NoCode == [at |-> "none", guesses |-> 0, consumed |-> FALSE]
Out == [at |-> "idle", with |-> None, old |-> FALSE]

Init ==
  /\ status = "active" /\ firebase = TRUE
  /\ session = [s \in Sessions |-> "none"] /\ slipped = {}
  /\ revealed = [t \in Tickets |-> "none"] /\ otp = [c \in Codes |-> NoCode]
  /\ reveals = [t \in Tickets |-> 0] /\ right = [c \in Codes |-> 0]
  /\ cooldown = 0 /\ hour = 0 /\ sent = [window |-> 0, hour |-> 0] /\ ticks = 0
  /\ visiting = [h \in Hands |-> Out] /\ started = 0

Begin(h, at, with) ==
  /\ visiting[h] = Out /\ started < MaxRequests /\ started' = started + 1
  /\ visiting' = [visiting EXCEPT ![h] = [Out EXCEPT !.at = at, !.with = with]]
Go(h, at, with) == visiting' = [visiting EXCEPT ![h].at = at, ![h].with = with] /\ UNCHANGED started
Leave(h) == visiting' = [visiting EXCEPT ![h] = Out] /\ UNCHANGED started
At(h, at) == visiting[h].at = at

------------------------------------------------------------------------------
\* Sessions.

\* session: Firebase verifies the token and is asked whether it was revoked,
SignIn(h) ==
  /\ firebase /\ Begin(h, "account", None)
  /\ UNCHANGED <<sessionVars, codeVars, mailVars>>
\* the account is read, and a suspended one is refused,
SignInAccount(h) ==
  /\ At(h, "account")
  /\ IF status = "suspended" THEN Leave(h) ELSE Go(h, "session", None)
  /\ UNCHANGED <<sessionVars, codeVars, mailVars>>
\* and the session is created.
Suspending == \E h \in Hands : visiting[h].at \in {"disable", "status"}
SignInSession(h, s) ==
  /\ At(h, "session") /\ session[s] = "none" /\ Leave(h)
  /\ session' = [session EXCEPT ![s] = "live"]
  /\ slipped' = IF visiting[h].old \/ Suspending THEN slipped \cup {s} ELSE slipped
  /\ UNCHANGED <<status, firebase, codeVars, mailVars>>

\* protect reads the session, and now and then saves when it was last active:
\* only that field.
Request(h, s) ==
  /\ session[s] = "live" /\ Begin(h, "touch", s)
  /\ UNCHANGED <<sessionVars, codeVars, mailVars>>
\* Variant: the whole document is written back.
TouchedWhole(s) == "live"
Touched(s) == session[s]
Touch(h) ==
  /\ At(h, "touch") /\ Leave(h)
  /\ session' = [session EXCEPT ![visiting[h].with] = Touched(visiting[h].with)]
  /\ UNCHANGED <<status, firebase, slipped, codeVars, mailVars>>

\* logout and revokeSession end one session, revokeOtherSessions those beside
\* the one that asks.
Revoke(S) == session' = [s \in Sessions |-> IF s \in S /\ session[s] = "live" THEN "revoked" ELSE session[s]]
EndOne(s) ==
  /\ session[s] = "live" /\ Revoke({s})
  /\ UNCHANGED <<status, firebase, slipped, codeVars, mailVars, visiting, started>>
EndOthers(s) ==
  /\ session[s] = "live" /\ Revoke(Sessions \ {s})
  /\ UNCHANGED <<status, firebase, slipped, codeVars, mailVars, visiting, started>>

\* updateAdmin ends the sessions, tells Firebase and saves the status, in this
\* order; one administrator at a time.
Alone == \A h \in Hands : visiting[h].at \notin {"disable", "status", "enable"}
\* Variant: a suspension leaves the sessions alone.
EndedByNone == {}
EndedBySuspension == Sessions
Suspend(h) ==
  /\ status = "active" /\ Alone /\ Begin(h, "disable", None)
  /\ Revoke(EndedBySuspension)
  /\ UNCHANGED <<status, firebase, slipped, codeVars, mailVars>>
\* A failure to disable the account at Firebase is only logged.
Disable(h) ==
  /\ At(h, "disable") /\ Go(h, "status", None)
  /\ firebase' \in BOOLEAN
  /\ UNCHANGED <<status, session, slipped, codeVars, mailVars>>
SaveStatus(h) ==
  /\ At(h, "status") /\ status' = "suspended"
  /\ visiting' = [j \in Hands |-> IF j = h THEN Out ELSE [visiting[j] EXCEPT !.old = visiting[j].at = "session"]]
  /\ UNCHANGED <<firebase, session, slipped, codeVars, mailVars, started>>
Reactivate(h) ==
  /\ status = "suspended" /\ Begin(h, "enable", None) /\ firebase' = TRUE
  /\ Alone
  /\ UNCHANGED <<status, session, slipped, codeVars, mailVars>>
SaveActive(h) ==
  /\ At(h, "enable") /\ status' = "active" /\ Leave(h)
  /\ UNCHANGED <<firebase, session, slipped, codeVars, mailVars>>

------------------------------------------------------------------------------
\* The mail with the ticket.

\* checkVerificationRateLimit counts the window first, and the hour only when
\* the window lets it pass. Each is one atomic upsert, counted again when two
\* first hits race.
AskMail(h) ==
  /\ Begin(h, "cooldown", None)
  /\ UNCHANGED <<sessionVars, codeVars, mailVars>>
HitCooldown(h) ==
  /\ At(h, "cooldown") /\ cooldown' = cooldown + 1
  /\ IF cooldown > 0 THEN Leave(h) /\ UNCHANGED sent
     ELSE Go(h, "hour", None) /\ sent' = [sent EXCEPT !.window = @ + 1]
  /\ UNCHANGED <<sessionVars, codeVars, hour, ticks>>
\* Variant: one too many.
HourAllowsOneMore == hour <= HourlyMax
HourAllows == hour < HourlyMax
HitHour(h) ==
  /\ At(h, "hour") /\ hour' = hour + 1
  /\ IF HourAllows THEN Go(h, "ticket", None) ELSE Leave(h)
  /\ sent' = IF HourAllows THEN [sent EXCEPT !.hour = @ + 1] ELSE sent
  /\ UNCHANGED <<sessionVars, codeVars, cooldown, ticks>>
\* The next window of the cooldown, in the same hour.
Tick ==
  /\ ticks < MaxTicks /\ ticks' = ticks + 1
  /\ cooldown' = 0 /\ sent' = [sent EXCEPT !.window = 0]
  /\ UNCHANGED <<sessionVars, codeVars, hour, visiting, started>>

\* requestEmailVerification deletes the older tickets and stores a new one.
DropTickets(h) ==
  /\ At(h, "ticket") /\ Go(h, "mail", None)
  /\ revealed' = [t \in Tickets |-> IF revealed[t] = "none" THEN "none" ELSE "gone"]
  /\ UNCHANGED <<sessionVars, otp, reveals, right, mailVars>>
StoreTicket(h, t) ==
  /\ At(h, "mail") /\ revealed[t] = "none" /\ Leave(h)
  /\ revealed' = [revealed EXCEPT ![t] = "valid"]
  /\ UNCHANGED <<sessionVars, otp, reveals, right, mailVars>>

------------------------------------------------------------------------------
\* The code.

\* revealEmailCode finds an unused ticket, saves it as used, deletes the codes
\* there are and stores a new one.
\* Variant: a ticket that was used is found again.
UnusedAny(t) == revealed[t] \in {"valid", "consumed"}
Unused(t) == revealed[t] = "valid"
Reveal(h, t) ==
  /\ Unused(t) /\ Begin(h, "consume", t)
  /\ UNCHANGED <<sessionVars, codeVars, mailVars>>
Consume(h) ==
  LET t == visiting[h].with
  IN /\ At(h, "consume")
     /\ IF revealed[t] = "gone" THEN Leave(h) /\ UNCHANGED revealed
        ELSE Go(h, "drop", t) /\ revealed' = [revealed EXCEPT ![t] = "consumed"]
     /\ UNCHANGED <<sessionVars, otp, reveals, right, mailVars>>
DropCodes(h) ==
  /\ At(h, "drop") /\ Go(h, "code", visiting[h].with)
  /\ otp' = [c \in Codes |-> IF otp[c].at = "none" THEN NoCode ELSE [otp[c] EXCEPT !.at = "gone"]]
  /\ UNCHANGED <<sessionVars, revealed, reveals, right, mailVars>>
StoreCode(h, c) ==
  /\ At(h, "code") /\ otp[c].at = "none" /\ Leave(h)
  /\ otp' = [otp EXCEPT ![c].at = "stored"]
  /\ reveals' = [reveals EXCEPT ![visiting[h].with] = @ + 1]
  /\ UNCHANGED <<sessionVars, revealed, right, mailVars>>
TicketExpires(t) ==
  /\ revealed[t] = "valid" /\ revealed' = [revealed EXCEPT ![t] = "gone"]
  /\ UNCHANGED <<sessionVars, otp, reveals, right, mailVars, visiting, started>>
CodeExpires(c) ==
  /\ otp[c].at = "stored" /\ otp' = [otp EXCEPT ![c].at = "gone"]
  /\ UNCHANGED <<sessionVars, revealed, reveals, right, mailVars, visiting, started>>

\* verifyEmailCode counts the attempt and reads the record in one step: any
\* that is neither used nor out of guesses.
\* Variant: the guess after the last still counts.
OpenToOneMore(c) == otp[c].at = "stored" /\ ~otp[c].consumed /\ otp[c].guesses <= MaxGuesses
OpenTo(c) == otp[c].at = "stored" /\ ~otp[c].consumed /\ otp[c].guesses < MaxGuesses
Guess(h, c, isRight) ==
  /\ OpenTo(c)
  /\ otp' = [otp EXCEPT ![c].guesses = @ + 1]
  /\ IF isRight THEN Begin(h, "confirm", c)
     ELSE visiting[h] = Out /\ started < MaxRequests /\ started' = started + 1 /\ UNCHANGED visiting
  /\ UNCHANGED <<sessionVars, revealed, reveals, right, mailVars>>
\* Variant: whoever was right is confirmed.
WinsAlways(c) == TRUE
\* The one that changes it from not consumed goes on to tell Firebase.
Wins(c) == otp[c].at = "stored" /\ ~otp[c].consumed
Confirm(h) ==
  LET c == visiting[h].with
  IN /\ At(h, "confirm") /\ Leave(h)
     /\ otp' = IF Wins(c) THEN [otp EXCEPT ![c].consumed = TRUE] ELSE otp
     /\ right' = IF Wins(c) THEN [right EXCEPT ![c] = @ + 1] ELSE right
     /\ UNCHANGED <<sessionVars, revealed, reveals, mailVars>>

Next ==
  \/ \E h \in Hands :
       \/ SignIn(h) \/ SignInAccount(h) \/ Touch(h)
       \/ Suspend(h) \/ Disable(h) \/ SaveStatus(h) \/ Reactivate(h) \/ SaveActive(h)
       \/ AskMail(h) \/ HitCooldown(h) \/ HitHour(h) \/ DropTickets(h) \/ Consume(h) \/ DropCodes(h) \/ Confirm(h)
       \/ \E s \in Sessions : SignInSession(h, s) \/ Request(h, s)
       \/ \E t \in Tickets : StoreTicket(h, t) \/ Reveal(h, t)
       \/ \E c \in Codes : StoreCode(h, c) \/ \E isRight \in BOOLEAN : Guess(h, c, isRight)
  \/ \E s \in Sessions : EndOne(s) \/ EndOthers(s)
  \/ \E t \in Tickets : TicketExpires(t)
  \/ \E c \in Codes : CodeExpires(c)
  \/ Tick

------------------------------------------------------------------------------
\* A session that was revoked never acts again, whatever request that read it
\* live still saves.
RevokedStay == [][\A s \in Sessions : session[s] = "revoked" => session'[s] = "revoked"]_accountVars

\* A suspended account has no live session but those of sign-ins that read the
\* account before its suspension was saved, which is its last step.
SuspendedIsOut == status = "suspended" => \A s \in Sessions : session[s] = "live" => s \in slipped

\* A code takes its number of guesses and confirms the address once, however
\* many requests guess at once.
GuessesBounded == \A c \in Codes : otp[c].guesses <= MaxGuesses /\ right[c] <= 1

\* A ticket gives one code, but for requests that found it unused together.
RevealsBounded == \A t \in Tickets : reveals[t] <= Cardinality(Hands)

\* Mails keep to the hour and the window, and a mail the window refuses takes
\* nothing from the hour.
MailsBounded ==
  /\ sent.hour <= HourlyMax /\ sent.window <= 1
  /\ sent.hour < HourlyMax => hour = sent.hour
==============================================================================
