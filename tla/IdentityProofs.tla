---------------------------- MODULE IdentityProofs ----------------------------
(* Proofs about Identity: for any codes, tickets, links, sessions and requests,  *)
(* what is limited stays in its bounds, only who proved an address gets what is  *)
(* his, and links do what they stand for.                                       *)
EXTENDS Identity, FiniteSetTheorems, TLAPS

USE IdentityAssumption, SignedLinksAssumption DEF Proving!VerificationAssumption, Entry!AccountsAssumption

\* The instances count as this module does.
LEMMA SameCount ==
  /\ \A S : Proving!Cardinality(S) = Cardinality(S) /\ Entry!Cardinality(S) = Cardinality(S)
  /\ IsFiniteSet(Hands)
BY DEF Proving!Cardinality, Entry!Cardinality, Cardinality

\* A set that loses a member, that gains one, and that only loses.
LEMMA Counting ==
  ASSUME NEW S, NEW T, NEW x, IsFiniteSet(T)
  PROVE  /\ S = T \cup {x} => IsFiniteSet(S) /\ Cardinality(S) <= Cardinality(T) + 1
         /\ S = T \ {x} /\ x \in T => IsFiniteSet(S) /\ Cardinality(S) = Cardinality(T) - 1
         /\ S \subseteq T => IsFiniteSet(S) /\ Cardinality(S) <= Cardinality(T)
         /\ Cardinality(T) \in Nat
<1>1. Cardinality(T) \in Nat
  BY FS_CardinalityType
<1>2. IsFiniteSet(T \cup {x}) /\ Cardinality(T \cup {x}) <= Cardinality(T) + 1
  <2>1. /\ IsFiniteSet(T \cup {x})
        /\ Cardinality(T \cup {x}) = IF x \in T THEN Cardinality(T) ELSE Cardinality(T) + 1
    BY FS_AddElement, Zenon
  <2> QED  BY <1>1, <2>1
<1>3. S = T \ {x} /\ x \in T => IsFiniteSet(S) /\ Cardinality(S) = Cardinality(T) - 1
  BY FS_RemoveElement
<1>4. S \subseteq T => IsFiniteSet(S) /\ Cardinality(S) <= Cardinality(T)
  BY FS_Subset
<1> QED  BY <1>1, <1>2, <1>3, <1>4

-----------------------------------------------------------------------------
(* Codes and tickets (Verification).                                           *)

CodeRows == [at : {"none", "stored", "known", "deleted"}, attempts : Nat, live : BOOLEAN,
             verified : BOOLEAN, proofLive : BOOLEAN, used : BOOLEAN]
Errands == [at : {"idle", "mail", "compare", "store", "ticket"},
            with : {{}} \cup {{p} : p \in Proving!Proofs}]

ProofTyped ==
  /\ code \in [Requested -> CodeRows]
  /\ ticket \in [Tickets -> {"unissued", "valid", "expired"}]
  /\ proving \in [Hands -> Errands]
  /\ passed \in [Proving!Proofs -> Nat]
  /\ started \in Nat

\* Those who have passed the check of a code and not yet counted their try.
Comparing(c) == {h \in Hands : Proving!Holds(h, "compare", c)}

\* A try under way counts as one that was made.
TriesInv ==
  \A c \in Requested :
    LET tries == code[c].attempts + Cardinality(Comparing(c)) IN
    tries <= started /\ tries <= MaxProofRequests /\ tries <= MaxAttempts - 1 + Cardinality(Hands)

\* A code that let a submission through is used, and only a verified one is; a ticket
\* has its row, until it expired and nobody is on the way to the store with it.
CodesSpent == \A c \in Requested : /\ code[c].used => code[c].verified
                                   /\ passed[c] <= 1 /\ (passed[c] = 1 => code[c].used)
TicketsSpent ==
  \A t \in Tickets :
    /\ passed[t] <= 1
    /\ passed[t] = 1 => \/ t \in bucket
                        \/ ticket[t] = "expired" /\ \A h \in Hands : ~Proving!Holds(h, "ticket", t)

ProofInv == ProofTyped /\ TriesInv /\ CodesSpent /\ TicketsSpent

\* A request that is somewhere else now, and the others that stay.
LEMMA ErrandSet ==
  ASSUME ProofTyped, NEW h \in Hands, NEW e \in Errands, proving' = [proving EXCEPT ![h] = e]
  PROVE  /\ proving' \in [Hands -> Errands] /\ proving'[h] = e
         /\ \A k \in Hands : k # h => proving'[k] = proving[k]
BY DEF ProofTyped

\* Errands of the requests.
LEMMA ErrandsFit ==
  /\ Proving!Resting \in Errands
  /\ \A at \in {"mail", "compare", "store", "ticket"}, p \in Proving!Proofs :
       [at |-> at, with |-> {p}] \in Errands
  /\ \A at1, at2, p, q : [at |-> at1, with |-> {p}] = [at |-> at2, with |-> {q}] => at1 = at2 /\ p = q
  /\ \A at, p : Proving!Resting # [at |-> at, with |-> {p}]
BY DEF Errands, Proving!Resting

\* Whoever compares was comparing: no try is added.
LEMMA NoTry ==
  ASSUME ProofInv, started' >= started, started' \in Nat,
         \A c \in Requested : code'[c].attempts = code[c].attempts,
         \A c \in Requested, h \in Hands : Proving!Holds(h, "compare", c)' => Proving!Holds(h, "compare", c)
  PROVE  TriesInv'
<1> SUFFICES ASSUME NEW c \in Requested
             PROVE  LET tries == code'[c].attempts + Cardinality(Comparing(c)') IN
                    /\ tries <= started' /\ tries <= MaxProofRequests
                    /\ tries <= MaxAttempts - 1 + Cardinality(Hands)
  BY DEF TriesInv
<1>1. Comparing(c) \subseteq Hands /\ Comparing(c)' \subseteq Comparing(c)
  BY DEF Comparing
<1>2. IsFiniteSet(Comparing(c)) /\ Cardinality(Comparing(c)) \in Nat
  BY <1>1, SameCount, FS_Subset, FS_CardinalityType
<1>3. Cardinality(Comparing(c)') <= Cardinality(Comparing(c)) /\ Cardinality(Comparing(c)') \in Nat
  BY <1>1, <1>2, FS_Subset, FS_CardinalityType
<1>4. Cardinality(Hands) \in Nat
  BY SameCount, FS_CardinalityType
<1>5. code[c].attempts \in Nat /\ started \in Nat
  BY DEF ProofInv, ProofTyped, CodeRows
<1> QED  BY <1>2, <1>3, <1>4, <1>5 DEF ProofInv, TriesInv

\* A step that lets nothing through.
LEMMA NothingSpent ==
  ASSUME ProofInv, passed' = passed,
         \A c \in Requested : /\ code'[c].used = code[c].used
                              /\ code[c].verified => code'[c].verified,
         \A t \in Tickets : /\ t \in bucket => t \in bucket'
                            /\ ticket[t] = "expired" => ticket'[t] = "expired"
                            /\ \A h \in Hands : Proving!Holds(h, "ticket", t)' =>
                                 Proving!Holds(h, "ticket", t) \/ ticket[t] = "valid"
  PROVE  CodesSpent' /\ TicketsSpent'
<1>1. CodesSpent'
  BY DEF ProofInv, CodesSpent
<1>2. TicketsSpent'
  <2> SUFFICES ASSUME NEW t \in Tickets
               PROVE  /\ passed[t] <= 1
                      /\ passed[t] = 1 => \/ t \in bucket'
                                          \/ ticket'[t] = "expired" /\ \A h \in Hands : ~Proving!Holds(h, "ticket", t)'
    BY DEF TicketsSpent
  <2> QED  BY DEF ProofInv, TicketsSpent
<1> QED  BY <1>1, <1>2

\* A record that is changed, and the others that stay.
LEMMA RecordSet ==
  ASSUME ProofTyped, NEW c \in Requested, NEW row \in CodeRows, code' = [code EXCEPT ![c] = row]
  PROVE  /\ code' \in [Requested -> CodeRows] /\ code'[c] = row
         /\ \A d \in Requested : d # c => code'[d] = code[d]
BY DEF ProofTyped

\* A request for a code, its mail, the right code, and what expires.
LEMMA CodeStepsKeep ==
  ASSUME ProofInv, NEW c \in Requested,
         \/ \E h \in Hands : Proving!RequestCode(h, c) \/ Proving!Mailed(h, c) \/ Proving!Right(h, c)
         \/ Proving!CodeExpires(c) \/ Proving!ProofExpires(c)
  PROVE  ProofInv'
<1> DEFINE D == ProofTyped /\ code[c] \in CodeRows /\ c \in Proving!Proofs
<1>0. D
  BY DEF ProofInv, ProofTyped, Proving!Proofs
<1>1. /\ UNCHANGED <<ticket, bucket, passed>>
      /\ started' \in Nat /\ started' >= started
  BY <1>0 DEF Proving!RequestCode, Proving!Mailed, Proving!Right, Proving!CodeExpires,
     Proving!ProofExpires, Proving!Begin, ProofTyped
<1>2. \/ proving' = proving
      \/ \E h \in Hands : \E e \in {Proving!Resting, [at |-> "mail", with |-> {c}]} :
           proving' = [proving EXCEPT ![h] = e]
  BY DEF Proving!RequestCode, Proving!Mailed, Proving!Right, Proving!CodeExpires,
     Proving!ProofExpires, Proving!Begin, Proving!Rest
<1>3. /\ proving' \in [Hands -> Errands]
      /\ \A h \in Hands : proving'[h] = proving[h] \/ proving'[h] \in {Proving!Resting, [at |-> "mail", with |-> {c}]}
  <2>1. CASE proving' = proving
    BY <1>0, <2>1 DEF ProofTyped
  <2>2. ASSUME NEW h \in Hands, NEW e \in {Proving!Resting, [at |-> "mail", with |-> {c}]},
               proving' = [proving EXCEPT ![h] = e]
        PROVE  /\ proving' \in [Hands -> Errands]
               /\ \A k \in Hands : proving'[k] = proving[k] \/ proving'[k] = e
    <3>1. e \in Errands
      BY <1>0, ErrandsFit
    <3> QED  BY <1>0, <2>2, <3>1, ErrandSet
  <2> QED  BY <1>2, <2>1, <2>2
<1>4. \A h \in Hands, p \in Proving!Proofs, at \in {"compare", "ticket"} :
        Proving!Holds(h, at, p)' => Proving!Holds(h, at, p)
  <2> SUFFICES ASSUME NEW h \in Hands, NEW p \in Proving!Proofs, NEW at \in {"compare", "ticket"},
                      proving'[h] = [at |-> at, with |-> {p}]
               PROVE  proving[h] = [at |-> at, with |-> {p}]
    BY DEF Proving!Holds
  <2>1. proving'[h] # Proving!Resting /\ proving'[h] # [at |-> "mail", with |-> {c}]
    BY ErrandsFit
  <2> QED  BY <1>3, <2>1
<1>5. PICK row \in CodeRows :
        /\ code' = [code EXCEPT ![c] = row]
        /\ row.attempts = code[c].attempts /\ row.used = code[c].used
        /\ code[c].verified => row.verified
  <2>1. ASSUME NEW h \in Hands, Proving!RequestCode(h, c)
        PROVE  \E row \in CodeRows :
                 /\ code' = [code EXCEPT ![c] = row]
                 /\ row.attempts = code[c].attempts /\ row.used = code[c].used
                 /\ code[c].verified => row.verified
    <3> DEFINE r1 == [Proving!NoRecord EXCEPT !.at = "stored"]
               r2 == [r1 EXCEPT !.live = TRUE]
    <3>1. code' = [code EXCEPT ![c] = r2] /\ code[c] = Proving!NoRecord
      BY <2>1 DEF Proving!RequestCode
    <3>2. Proving!NoRecord \in CodeRows /\ ~Proving!NoRecord.verified
      BY DEF CodeRows, Proving!NoRecord
    <3>3. /\ r1 \in CodeRows /\ r1.attempts = Proving!NoRecord.attempts
          /\ r1.used = Proving!NoRecord.used
      BY <3>2 DEF CodeRows
    <3> HIDE DEF r1
    <3>4. /\ r2 \in CodeRows /\ r2.attempts = Proving!NoRecord.attempts
          /\ r2.used = Proving!NoRecord.used
      BY <3>3 DEF CodeRows
    <3> HIDE DEF r2
    <3> QED  BY <3>1, <3>2, <3>4
  <2>2. ASSUME NEW h \in Hands, Proving!Mailed(h, c)
        PROVE  \E row \in CodeRows :
                 /\ code' = [code EXCEPT ![c] = row]
                 /\ row.attempts = code[c].attempts /\ row.used = code[c].used
                 /\ code[c].verified => row.verified
    <3>1. PICK at \in {"known", "deleted"} : code' = [code EXCEPT ![c].at = at]
      BY <2>2 DEF Proving!Mailed
    <3> DEFINE row == [code[c] EXCEPT !.at = at]
    <3>2. code' = [code EXCEPT ![c] = row]
      BY <3>1
    <3>3. /\ row \in CodeRows /\ row.attempts = code[c].attempts /\ row.used = code[c].used
          /\ row.verified = code[c].verified
      BY <1>0 DEF CodeRows
    <3> HIDE DEF row
    <3> QED  BY <3>2, <3>3
  <2>3. ASSUME NEW h \in Hands, Proving!Right(h, c)
        PROVE  \E row \in CodeRows :
                 /\ code' = [code EXCEPT ![c] = row]
                 /\ row.attempts = code[c].attempts /\ row.used = code[c].used
                 /\ code[c].verified => row.verified
    <3>1. CASE code[c].verified
      <4>1. code' = [code EXCEPT ![c] = code[c]]
        BY <1>0, <2>3, <3>1 DEF Proving!Right, ProofTyped
      <4> QED  BY <1>0, <4>1
    <3>2. CASE ~code[c].verified
      <4> DEFINE r1 == [code[c] EXCEPT !.verified = TRUE]
                 r2 == [r1 EXCEPT !.proofLive = TRUE]
      <4>1. code' = [code EXCEPT ![c] = r2]
        BY <1>0, <2>3, <3>2 DEF Proving!Right, ProofTyped
      <4>2. /\ r1 \in CodeRows /\ r1.attempts = code[c].attempts /\ r1.used = code[c].used /\ r1.verified
        BY <1>0 DEF CodeRows
      <4> HIDE DEF r1
      <4>3. /\ r2 \in CodeRows /\ r2.attempts = code[c].attempts /\ r2.used = code[c].used /\ r2.verified
        BY <4>2 DEF CodeRows
      <4> HIDE DEF r2
      <4> QED  BY <4>1, <4>3
    <3> QED  BY <3>1, <3>2
  <2>4. ASSUME Proving!CodeExpires(c) \/ Proving!ProofExpires(c)
        PROVE  \E row \in CodeRows :
                 /\ code' = [code EXCEPT ![c] = row]
                 /\ row.attempts = code[c].attempts /\ row.used = code[c].used
                 /\ code[c].verified => row.verified
    <3> DEFINE r1 == [code[c] EXCEPT !.live = FALSE]
               r2 == [code[c] EXCEPT !.proofLive = FALSE]
    <3>1. code' = [code EXCEPT ![c] = r1] \/ code' = [code EXCEPT ![c] = r2]
      BY <2>4 DEF Proving!CodeExpires, Proving!ProofExpires
    <3>2. /\ r1 \in CodeRows /\ r1.attempts = code[c].attempts /\ r1.used = code[c].used
          /\ r1.verified = code[c].verified
          /\ r2 \in CodeRows /\ r2.attempts = code[c].attempts /\ r2.used = code[c].used
          /\ r2.verified = code[c].verified
      BY <1>0 DEF CodeRows
    <3> HIDE DEF r1, r2
    <3> QED  BY <3>1, <3>2
  <2> QED  BY <2>1, <2>2, <2>3, <2>4
<1>6. /\ code' \in [Requested -> CodeRows] /\ code'[c] = row
      /\ \A d \in Requested : d # c => code'[d] = code[d]
  BY <1>0, <1>5, RecordSet
<1>7. ProofTyped'
  BY <1>0, <1>1, <1>3, <1>6 DEF ProofTyped
<1>8. TriesInv'
  BY <1>1, <1>4, <1>5, <1>6, NoTry DEF Proving!Proofs
<1>9. CodesSpent' /\ TicketsSpent'
  BY <1>1, <1>4, <1>5, <1>6, NothingSpent DEF Proving!Proofs
<1> QED  BY <1>7, <1>8, <1>9 DEF ProofInv

\* Tickets that are issued, expire and are presented, submissions that end, a suspension.
LEMMA TicketStepsKeep ==
  ASSUME ProofInv,
         \/ \E t \in Tickets : \/ Proving!IssueTicket(t) \/ Proving!TicketExpires(t)
                               \/ \E h \in Hands : Proving!PresentTicket(h, t)
         \/ \E h \in Hands, p \in Proving!Proofs : Proving!Submitted(h, p)
         \/ Proving!Suspend
  PROVE  ProofInv'
<1>0. ProofTyped
  BY DEF ProofInv
<1>1. /\ UNCHANGED <<code, bucket, passed>>
      /\ started' \in Nat /\ started' >= started
  BY <1>0 DEF Proving!IssueTicket, Proving!TicketExpires, Proving!PresentTicket, Proving!Submitted,
     Proving!Suspend, Proving!Begin, ProofTyped
<1>2. /\ ticket' \in [Tickets -> {"unissued", "valid", "expired"}]
      /\ \A t \in Tickets : ticket[t] = "expired" => ticket'[t] = "expired"
  BY <1>0 DEF Proving!IssueTicket, Proving!TicketExpires, Proving!PresentTicket, Proving!Submitted,
     Proving!Suspend, ProofTyped
<1>3. \/ proving' = proving
      \/ \E h \in Hands, t \in Tickets :
           ticket[t] = "valid" /\ proving' = [proving EXCEPT ![h] = [at |-> "ticket", with |-> {t}]]
      \/ \E h \in Hands : proving' = [proving EXCEPT ![h] = Proving!Resting]
  BY DEF Proving!IssueTicket, Proving!TicketExpires, Proving!PresentTicket, Proving!Submitted,
     Proving!Suspend, Proving!Begin, Proving!Rest
<1>4. /\ proving' \in [Hands -> Errands]
      /\ \A h \in Hands : \/ proving'[h] = proving[h] \/ proving'[h] = Proving!Resting
                          \/ \E t \in Tickets : ticket[t] = "valid" /\ proving'[h] = [at |-> "ticket", with |-> {t}]
  <2>1. CASE proving' = proving
    BY <1>0, <2>1 DEF ProofTyped
  <2>2. ASSUME NEW h \in Hands, NEW t \in Tickets, ticket[t] = "valid",
               proving' = [proving EXCEPT ![h] = [at |-> "ticket", with |-> {t}]]
        PROVE  <1>4!1 /\ \A k \in Hands : proving'[k] = proving[k] \/ proving'[k] = [at |-> "ticket", with |-> {t}]
    <3>1. [at |-> "ticket", with |-> {t}] \in Errands
      BY ErrandsFit DEF Proving!Proofs
    <3> QED  BY <1>0, <2>2, <3>1, ErrandSet
  <2>3. ASSUME NEW h \in Hands, proving' = [proving EXCEPT ![h] = Proving!Resting]
        PROVE  <1>4!1 /\ \A k \in Hands : proving'[k] = proving[k] \/ proving'[k] = Proving!Resting
    BY <1>0, <2>3, ErrandSet, ErrandsFit
  <2> QED  BY <1>3, <2>1, <2>2, <2>3
<1>5. ASSUME NEW h \in Hands, NEW at \in {"compare", "ticket"}, NEW p, Proving!Holds(h, at, p)'
      PROVE  \/ Proving!Holds(h, at, p)
             \/ at = "ticket" /\ p \in Tickets /\ ticket[p] = "valid"
  <2>1. proving'[h] = [at |-> at, with |-> {p}]
    BY <1>5 DEF Proving!Holds
  <2>2. CASE proving'[h] = proving[h]
    BY <2>1, <2>2 DEF Proving!Holds
  <2>3. ASSUME NEW t \in Tickets, ticket[t] = "valid", proving'[h] = [at |-> "ticket", with |-> {t}]
        PROVE  at = "ticket" /\ p \in Tickets /\ ticket[p] = "valid"
    <3>1. at = "ticket" /\ p = t
      BY <2>1, <2>3, ErrandsFit
    <3> QED  BY <2>3, <3>1
  <2> QED  BY <1>4, <2>1, <2>2, <2>3, ErrandsFit
<1>6. ProofTyped'
  BY <1>0, <1>1, <1>2, <1>4 DEF ProofTyped
<1>7. TriesInv'
  BY <1>1, <1>5, NoTry
<1>8. CodesSpent' /\ TicketsSpent'
  BY <1>1, <1>2, <1>5, NothingSpent
<1> QED  BY <1>6, <1>7, <1>8 DEF ProofInv

\* A row that is purged: nobody presents its ticket any more.
LEMMA PurgeKeeps ==
  ASSUME ProofInv, NEW t \in Tickets, Proving!RowPurged(t)
  PROVE  ProofInv'
<1>1. /\ UNCHANGED <<code, ticket, proving, passed, started>> /\ bucket' = bucket \ {t}
      /\ ticket[t] = "expired" /\ \A h \in Hands : ~Proving!Holds(h, "ticket", t)
  BY DEF Proving!RowPurged, Proving!RowMayGo
<1>2. ProofTyped' /\ CodesSpent'
  BY <1>1 DEF ProofInv, ProofTyped, CodesSpent
<1>3. TriesInv'
  BY <1>1 DEF ProofInv, TriesInv, Comparing, Proving!Holds
<1>4. TicketsSpent'
  BY <1>1 DEF ProofInv, TicketsSpent, Proving!Holds
<1> QED  BY <1>2, <1>3, <1>4 DEF ProofInv

\* A try that passes the check is one of those side by side.
LEMMA TryKeeps ==
  ASSUME ProofInv, NEW h \in Hands, NEW c \in Requested, Proving!Try(h, c)
  PROVE  ProofInv'
<1> DEFINE e == [at |-> "compare", with |-> {c}]
<1>1. /\ UNCHANGED <<code, ticket, bucket, passed>> /\ started < MaxProofRequests
      /\ started' = started + 1 /\ proving[h] = Proving!Resting
      /\ proving' = [proving EXCEPT ![h] = e] /\ code[c].attempts < MaxAttempts
  BY DEF Proving!Try, Proving!Begin, Proving!MayTry
<1>2. ProofTyped /\ started \in Nat /\ c \in Proving!Proofs
  BY DEF ProofInv, ProofTyped, Proving!Proofs
<1>3. e \in Errands
  BY <1>2, ErrandsFit
<1>4. /\ proving' \in [Hands -> Errands] /\ proving'[h] = e
      /\ \A k \in Hands : k # h => proving'[k] = proving[k]
  BY <1>1, <1>2, <1>3, ErrandSet
<1>5. ProofTyped'
  BY <1>1, <1>2, <1>4 DEF ProofTyped
<1>6. CodesSpent' /\ TicketsSpent'
  <2>1. ASSUME NEW k \in Hands, NEW t \in Tickets, Proving!Holds(k, "ticket", t)'
        PROVE  Proving!Holds(k, "ticket", t)
    <3>1. proving'[k] = [at |-> "ticket", with |-> {t}]
      BY <2>1 DEF Proving!Holds
    <3>2. k # h
      BY <1>4, <3>1, ErrandsFit
    <3> QED  BY <1>4, <3>1, <3>2 DEF Proving!Holds
  <2> QED  BY <1>1, <2>1, NothingSpent
<1>7. TriesInv'
  <2> SUFFICES ASSUME NEW d \in Requested
               PROVE  LET tries == code[d].attempts + Cardinality(Comparing(d)') IN
                      /\ tries <= started + 1 /\ tries <= MaxProofRequests
                      /\ tries <= MaxAttempts - 1 + Cardinality(Hands)
    BY <1>1 DEF TriesInv
  <2>1. Comparing(d) \subseteq Hands /\ Comparing(d)' \subseteq Hands
    BY DEF Comparing
  <2>2. /\ Cardinality(Comparing(d)) \in Nat /\ IsFiniteSet(Comparing(d)) /\ Cardinality(Hands) \in Nat
        /\ Cardinality(Comparing(d)') \in Nat /\ Cardinality(Comparing(d)') <= Cardinality(Hands)
    BY <2>1, SameCount, FS_Subset, FS_CardinalityType
  <2>3. code[d].attempts \in Nat
    BY <1>2 DEF ProofTyped, CodeRows
  <2>4. /\ code[d].attempts + Cardinality(Comparing(d)) <= started
        /\ code[d].attempts + Cardinality(Comparing(d)) <= MaxProofRequests
        /\ code[d].attempts + Cardinality(Comparing(d)) <= MaxAttempts - 1 + Cardinality(Hands)
    BY DEF ProofInv, TriesInv
  <2>5. CASE d = c
    <3>1. Comparing(c)' \subseteq Comparing(c) \cup {h}
      BY <1>4 DEF Comparing, Proving!Holds
    <3>2. Cardinality(Comparing(c)') <= Cardinality(Comparing(c)) + 1
      <4>1. IsFiniteSet(Comparing(c) \cup {h}) /\ Cardinality(Comparing(c) \cup {h}) <= Cardinality(Comparing(c)) + 1
        BY <2>2, <2>5, Counting
      <4>2. Cardinality(Comparing(c)') <= Cardinality(Comparing(c) \cup {h})
        BY <3>1, <4>1, Counting
      <4>3. Cardinality(Comparing(c) \cup {h}) \in Nat
        BY <4>1, FS_CardinalityType
      <4> QED  BY <2>2, <2>5, <4>1, <4>2, <4>3
    <3> QED  BY <1>1, <1>2, <2>2, <2>3, <2>4, <2>5, <3>2
  <2>6. CASE d # c
    <3>1. Comparing(d)' \subseteq Comparing(d)
      <4> SUFFICES ASSUME NEW k \in Hands, proving'[k] = [at |-> "compare", with |-> {d}]
                   PROVE  proving[k] = [at |-> "compare", with |-> {d}]
        BY DEF Comparing, Proving!Holds
      <4>1. k # h
        BY <1>4, <2>6, ErrandsFit
      <4> QED  BY <1>4, <4>1
    <3>2. Cardinality(Comparing(d)') <= Cardinality(Comparing(d))
      BY <2>2, <3>1, Counting
    <3> QED  BY <1>1, <1>2, <2>2, <2>3, <2>4, <3>2
  <2> QED  BY <2>5, <2>6
<1> QED  BY <1>5, <1>6, <1>7 DEF ProofInv

\* A wrong try is counted by the request that leaves.
LEMMA WrongKeeps ==
  ASSUME ProofInv, NEW h \in Hands, NEW c \in Requested, Proving!Wrong(h, c)
  PROVE  ProofInv'
<1> DEFINE row == [code[c] EXCEPT !.attempts = @ + 1]
<1>1. /\ UNCHANGED <<ticket, bucket, passed, started>> /\ proving[h] = [at |-> "compare", with |-> {c}]
      /\ proving' = [proving EXCEPT ![h] = Proving!Resting] /\ code' = [code EXCEPT ![c] = row]
  BY DEF Proving!Wrong, Proving!Holds, Proving!Rest
<1>2. ProofTyped /\ started \in Nat /\ code[c] \in CodeRows
  BY DEF ProofInv, ProofTyped
<1>3. /\ row \in CodeRows /\ row.attempts = code[c].attempts + 1 /\ row.used = code[c].used
      /\ row.verified = code[c].verified
  BY <1>2 DEF CodeRows
<1> HIDE DEF row
<1>4. /\ proving' \in [Hands -> Errands] /\ proving'[h] = Proving!Resting
      /\ \A k \in Hands : k # h => proving'[k] = proving[k]
  BY <1>1, <1>2, ErrandsFit, ErrandSet
<1>5. /\ code' \in [Requested -> CodeRows] /\ code'[c] = row
      /\ \A d \in Requested : d # c => code'[d] = code[d]
  BY <1>1, <1>2, <1>3, RecordSet
<1>6. ProofTyped'
  BY <1>1, <1>2, <1>4, <1>5 DEF ProofTyped
<1>7. ASSUME NEW k \in Hands, NEW at, NEW p, Proving!Holds(k, at, p)'
      PROVE  k # h /\ Proving!Holds(k, at, p)
  <2>1. proving'[k] = [at |-> at, with |-> {p}]
    BY <1>7 DEF Proving!Holds
  <2>2. k # h
    BY <1>4, <2>1, ErrandsFit
  <2> QED  BY <1>4, <2>1, <2>2 DEF Proving!Holds
<1>8. CodesSpent' /\ TicketsSpent'
  BY <1>1, <1>3, <1>5, <1>7, NothingSpent
<1>9. TriesInv'
  <2> SUFFICES ASSUME NEW d \in Requested
               PROVE  LET tries == code'[d].attempts + Cardinality(Comparing(d)') IN
                      /\ tries <= started /\ tries <= MaxProofRequests
                      /\ tries <= MaxAttempts - 1 + Cardinality(Hands)
    BY <1>1 DEF TriesInv
  <2>1. Comparing(d) \subseteq Hands /\ Comparing(d)' \subseteq Comparing(d) /\ h \notin Comparing(d)'
    BY <1>7 DEF Comparing
  <2>2. /\ Cardinality(Comparing(d)) \in Nat /\ IsFiniteSet(Comparing(d)) /\ Cardinality(Hands) \in Nat
        /\ IsFiniteSet(Comparing(d)') /\ Cardinality(Comparing(d)') \in Nat
        /\ Cardinality(Comparing(d)') <= Cardinality(Comparing(d))
    BY <2>1, SameCount, FS_Subset, FS_CardinalityType
  <2>3. code[d].attempts \in Nat /\ started \in Nat
    BY <1>2 DEF ProofTyped, CodeRows
  <2>4. /\ code[d].attempts + Cardinality(Comparing(d)) <= started
        /\ code[d].attempts + Cardinality(Comparing(d)) <= MaxProofRequests
        /\ code[d].attempts + Cardinality(Comparing(d)) <= MaxAttempts - 1 + Cardinality(Hands)
    BY DEF ProofInv, TriesInv
  <2>5. CASE d = c
    <3>1. h \in Comparing(c)
      BY <1>1 DEF Comparing, Proving!Holds
    <3>2. Comparing(c)' \subseteq Comparing(c) \ {h}
      BY <2>1, <2>5
    <3>3. /\ IsFiniteSet(Comparing(c) \ {h})
          /\ Cardinality(Comparing(c) \ {h}) = Cardinality(Comparing(c)) - 1
      BY <2>2, <2>5, <3>1, FS_RemoveElement
    <3>4. Cardinality(Comparing(c)') <= Cardinality(Comparing(c)) - 1
      BY <3>2, <3>3, FS_Subset
    <3> QED  BY <1>2, <1>3, <1>5, <2>2, <2>3, <2>4, <2>5, <3>4
  <2>6. CASE d # c
    BY <1>5, <2>2, <2>3, <2>4, <2>6
  <2> QED  BY <2>5, <2>6
<1> QED  BY <1>6, <1>8, <1>9 DEF ProofInv

\* One conditional update finds a verified code unused and uses it.
LEMMA RedeemKeeps ==
  ASSUME ProofInv, NEW h \in Hands, NEW c \in Requested, Proving!Redeem(h, c)
  PROVE  ProofInv'
<1> DEFINE e == [at |-> "store", with |-> {c}]
           row == [code[c] EXCEPT !.used = TRUE]
<1>1. /\ UNCHANGED <<ticket, bucket>> /\ started' = started + 1
      /\ proving' = [proving EXCEPT ![h] = e] /\ code' = [code EXCEPT ![c] = row]
      /\ code[c].verified /\ ~code[c].used /\ passed' = [passed EXCEPT ![c] = @ + 1]
  BY DEF Proving!Redeem, Proving!Begin, Proving!Redeemable
<1>2. /\ ProofTyped /\ started \in Nat /\ code[c] \in CodeRows /\ c \in Proving!Proofs
      /\ passed \in [Proving!Proofs -> Nat]
  BY DEF ProofInv, ProofTyped, Proving!Proofs
<1>3. /\ row \in CodeRows /\ row.attempts = code[c].attempts /\ row.used
      /\ row.verified = code[c].verified /\ e \in Errands
  BY <1>2, ErrandsFit DEF CodeRows
<1> HIDE DEF row
<1>4. /\ proving' \in [Hands -> Errands] /\ proving'[h] = e
      /\ \A k \in Hands : k # h => proving'[k] = proving[k]
  BY <1>1, <1>2, <1>3, ErrandSet
<1>5. /\ code' \in [Requested -> CodeRows] /\ code'[c] = row
      /\ \A d \in Requested : d # c => code'[d] = code[d]
  BY <1>1, <1>2, <1>3, RecordSet
<1>6. passed[c] = 0
  BY <1>1, <1>2 DEF ProofInv, CodesSpent
<1>7. /\ passed' \in [Proving!Proofs -> Nat] /\ passed'[c] = 1
      /\ \A p \in Proving!Proofs : p # c => passed'[p] = passed[p]
  BY <1>1, <1>2, <1>6
<1>8. ProofTyped'
  BY <1>1, <1>2, <1>4, <1>5, <1>7 DEF ProofTyped
<1>9. ASSUME NEW k \in Hands, NEW at \in {"compare", "ticket"}, NEW p, Proving!Holds(k, at, p)'
      PROVE  Proving!Holds(k, at, p)
  <2>1. proving'[k] = [at |-> at, with |-> {p}]
    BY <1>9 DEF Proving!Holds
  <2>2. k # h
    BY <1>4, <2>1, ErrandsFit
  <2> QED  BY <1>4, <2>1, <2>2 DEF Proving!Holds
<1>10. TriesInv'
  BY <1>1, <1>2, <1>3, <1>5, <1>9, NoTry
<1>11. CodesSpent'
  <2>1. /\ row.used => row.verified
        /\ passed'[c] <= 1 /\ (passed'[c] = 1 => row.used)
    BY <1>1, <1>3, <1>7
  <2>2. ASSUME NEW d \in Requested, d # c
        PROVE  /\ code'[d].used => code'[d].verified
               /\ passed'[d] <= 1 /\ (passed'[d] = 1 => code'[d].used)
    <3>1. code'[d] = code[d] /\ passed'[d] = passed[d]
      BY <1>5, <1>7, <2>2 DEF Proving!Proofs
    <3> QED  BY <2>2, <3>1 DEF ProofInv, CodesSpent
  <2>3. ASSUME NEW d \in Requested
        PROVE  /\ code'[d].used => code'[d].verified
               /\ passed'[d] <= 1 /\ (passed'[d] = 1 => code'[d].used)
    BY <1>5, <2>1, <2>2
  <2> QED  BY <2>3 DEF CodesSpent
<1>12. TicketsSpent'
  <2> SUFFICES ASSUME NEW t \in Tickets
               PROVE  /\ passed'[t] <= 1
                      /\ passed'[t] = 1 => \/ t \in bucket
                                           \/ ticket[t] = "expired" /\ \A k \in Hands : ~Proving!Holds(k, "ticket", t)'
    BY <1>1 DEF TicketsSpent
  <2>1. passed'[t] = passed[t]
    BY <1>7 DEF Proving!Proofs
  <2> QED  BY <1>9, <2>1 DEF ProofInv, TicketsSpent
<1> QED  BY <1>8, <1>10, <1>11, <1>12 DEF ProofInv

\* The upsert of a ticket's row tells the first redemption from the others.
LEMMA RedeemTicketKeeps ==
  ASSUME ProofInv, NEW h \in Hands, NEW t \in Tickets, Proving!RedeemTicket(h, t)
  PROVE  ProofInv'
<1>1. /\ UNCHANGED <<code, ticket, started>> /\ bucket' = bucket \cup {t}
      /\ proving[h] = [at |-> "ticket", with |-> {t}]
  BY DEF Proving!RedeemTicket, Proving!Holds
<1>2. /\ ProofTyped /\ started \in Nat /\ t \in Proving!Proofs /\ proving \in [Hands -> Errands]
      /\ passed \in [Proving!Proofs -> Nat]
  BY DEF ProofInv, ProofTyped, Proving!Proofs
<1>3. /\ proving' \in [Hands -> Errands] /\ proving'[h].at \in {"idle", "store"}
      /\ \A k \in Hands : k # h => proving'[k] = proving[k]
  <2>1. CASE t \in bucket
    <3>1. proving' = [proving EXCEPT ![h] = Proving!Resting]
      BY <2>1 DEF Proving!RedeemTicket, Proving!FirstRedemption, Proving!Rest
    <3> QED  BY <1>2, <3>1, ErrandsFit, ErrandSet DEF Proving!Resting
  <2>2. CASE t \notin bucket
    <3> DEFINE at == IF suspended THEN "idle" ELSE "store"
               with == IF suspended THEN {} ELSE {t}
               e1 == [proving[h] EXCEPT !.at = at]
               e2 == [e1 EXCEPT !.with = with]
    <3>1. proving' = [proving EXCEPT ![h] = e2]
      <4> DEFINE p1 == [proving EXCEPT ![h].at = at]
      <4>1. proving' = [p1 EXCEPT ![h].with = IF suspended THEN {} ELSE @]
        BY <2>2 DEF Proving!RedeemTicket, Proving!FirstRedemption
      <4>2. p1 = [proving EXCEPT ![h] = e1]
        BY <1>2
      <4>3. p1[h] = e1 /\ DOMAIN p1 = Hands /\ p1 = [j \in Hands |-> p1[j]]
        BY <1>2, <4>2
      <4>4. e1.with = {t}
        BY <1>1
      <4> HIDE DEF p1, e1
      <4>5. (IF suspended THEN {} ELSE p1[h].with) = with
        BY <4>3, <4>4
      <4>6. proving' = [p1 EXCEPT ![h] = e2]
        BY <4>1, <4>3, <4>5
      <4>7. [p1 EXCEPT ![h] = e2] = [proving EXCEPT ![h] = e2]
        BY <1>2, <4>2
      <4> QED  BY <4>6, <4>7
    <3>2. at \in {"idle", "store"} /\ with \in {{}} \cup {{p} : p \in Proving!Proofs}
      BY <1>2
    <3> HIDE DEF at, with
    <3>3. e1 \in Errands /\ e1.at = at
      BY <1>2, <3>2 DEF Errands
    <3> HIDE DEF e1
    <3>4. e2 \in Errands /\ e2.at = at
      BY <3>2, <3>3 DEF Errands
    <3> HIDE DEF e2
    <3> QED  BY <1>2, <3>1, <3>2, <3>4, ErrandSet
  <2> QED  BY <2>1, <2>2
<1>4. ASSUME NEW k \in Hands, NEW at \in {"compare", "ticket"}, NEW p, Proving!Holds(k, at, p)'
      PROVE  Proving!Holds(k, at, p)
  <2>1. proving'[k] = [at |-> at, with |-> {p}]
    BY <1>4 DEF Proving!Holds
  <2>2. k # h
    BY <1>3, <2>1
  <2> QED  BY <1>3, <2>1, <2>2 DEF Proving!Holds
<1>5. \/ passed' = passed
      \/ /\ t \notin bucket /\ passed' = [passed EXCEPT ![t] = @ + 1]
  BY DEF Proving!RedeemTicket, Proving!FirstRedemption
<1>6. /\ passed' \in [Proving!Proofs -> Nat] /\ passed'[t] <= 1
      /\ \A p \in Proving!Proofs : p # t => passed'[p] = passed[p]
  <2>1. CASE passed' = passed
    BY <1>2, <2>1 DEF ProofInv, TicketsSpent
  <2>2. CASE t \notin bucket /\ passed' = [passed EXCEPT ![t] = @ + 1]
    <3>1. passed[t] = 0
      <4>1. Proving!Holds(h, "ticket", t)
        BY <1>1 DEF Proving!Holds
      <4>2. passed[t] <= 1 /\ passed[t] # 1 /\ passed[t] \in Nat
        BY <1>2, <2>2, <4>1 DEF ProofInv, TicketsSpent
      <4> QED  BY <4>2
    <3> QED  BY <1>2, <2>2, <3>1
  <2> QED  BY <1>5, <2>1, <2>2
<1>7. ProofTyped'
  BY <1>1, <1>2, <1>3, <1>6 DEF ProofTyped
<1>8. TriesInv'
  BY <1>1, <1>2, <1>4, NoTry
<1>9. CodesSpent'
  <2>1. \A c \in Requested : passed'[c] = passed[c]
    BY <1>6 DEF Proving!Proofs
  <2> QED  BY <1>1, <2>1 DEF ProofInv, CodesSpent
<1>10. TicketsSpent'
  <2> SUFFICES ASSUME NEW u \in Tickets
               PROVE  /\ passed'[u] <= 1
                      /\ passed'[u] = 1 => \/ u \in bucket'
                                           \/ ticket[u] = "expired" /\ \A k \in Hands : ~Proving!Holds(k, "ticket", u)'
    BY <1>1 DEF TicketsSpent
  <2>1. CASE u = t
    BY <1>1, <1>6, <2>1
  <2>2. CASE u # t
    <3>1. passed'[u] = passed[u]
      BY <1>6, <2>2 DEF Proving!Proofs
    <3> QED  BY <1>1, <1>4, <3>1 DEF ProofInv, TicketsSpent
  <2> QED  BY <2>1, <2>2
<1> QED  BY <1>7, <1>8, <1>9, <1>10 DEF ProofInv

\* Every step about proofs, and those of the other parts.
LEMMA ProofStep == ProofInv /\ [Proving!Next]_(Proving!verificationVars) => ProofInv'
<1> SUFFICES ASSUME ProofInv, Proving!Next \/ UNCHANGED Proving!verificationVars PROVE ProofInv'
  OBVIOUS
<1>1. CASE UNCHANGED Proving!verificationVars
  BY <1>1 DEF Proving!verificationVars, ProofInv, ProofTyped, TriesInv, CodesSpent, TicketsSpent,
     Comparing, Proving!Holds
<1>2. CASE Proving!Next
  BY <1>2, CodeStepsKeep, TicketStepsKeep, PurgeKeeps, TryKeeps, WrongKeeps, RedeemKeeps,
     RedeemTicketKeeps DEF Proving!Next
<1> QED  BY <1>1, <1>2

-----------------------------------------------------------------------------
(* Accounts: sessions, the mail with the ticket, and the code.                 *)

Stops == {"idle", "account", "session", "touch", "disable", "status", "enable", "cooldown", "hour",
          "ticket", "mail", "consume", "drop", "code", "confirm"}
Visits == [at : Stops, with : {None} \cup Sessions \cup Codes \cup Tickets, old : BOOLEAN]

EntryTyped ==
  /\ status \in {"active", "suspended"}
  /\ session \in [Sessions -> {"none", "live", "revoked"}]
  /\ visiting \in [Hands -> Visits]
  /\ \A h \in Hands : /\ visiting[h].at = "touch" => visiting[h].with \in Sessions
                      /\ visiting[h].at \in {"consume", "drop", "code"} => visiting[h].with \in Tickets
                      /\ visiting[h].at = "confirm" => visiting[h].with \in Codes
  /\ started \in Nat

\* While a suspension is under way, and after it, whatever is live slipped through; who is
\* about to open a session then was on the way when the status was saved.
SuspendedInv ==
  /\ Entry!Suspending \/ status = "suspended" => \A s \in Sessions : session[s] = "live" => s \in slipped
  /\ status = "suspended" => \A h \in Hands : visiting[h].at = "session" => visiting[h].old

OtpRows == [at : {"none", "stored", "gone"}, guesses : Nat, consumed : BOOLEAN]
\* A guess is one of a request; who won took the code.
GuessInv ==
  /\ otp \in [Codes -> OtpRows]
  /\ right \in [Codes -> Nat]
  /\ \A c \in Codes : /\ otp[c].guesses <= MaxGuesses /\ otp[c].guesses <= MaxAccountRequests
                      /\ otp[c].guesses <= started
                      /\ right[c] <= 1 /\ (right[c] = 1 => otp[c].consumed /\ otp[c].at # "none")

\* Those who exchange a ticket found it unused together, before the first of them used it.
Exchanging(t) == {h \in Hands : visiting[h].at \in {"consume", "drop", "code"} /\ visiting[h].with = t}
RevealInv ==
  /\ revealed \in [Tickets -> {"none", "valid", "consumed", "gone"}]
  /\ reveals \in [Tickets -> Nat]
  /\ \A t \in Tickets :
       /\ reveals[t] + Cardinality(Exchanging(t)) <= Cardinality(Hands)
       /\ reveals[t] > 0 => revealed[t] \in {"consumed", "gone"}
       /\ \A h \in Exchanging(t) : revealed[t] # "none" /\ (visiting[h].at # "consume" => revealed[t] # "valid")

\* The counters count at least what was sent.
MailInv ==
  /\ cooldown \in Nat /\ hour \in Nat /\ sent \in [window : Nat, hour : Nat]
  /\ sent.window <= 1 /\ (cooldown = 0 => sent.window = 0)
  /\ sent.hour = IF hour < HourlyMax THEN hour ELSE HourlyMax

EntryInv == EntryTyped /\ SuspendedInv /\ GuessInv /\ RevealInv /\ MailInv

\* A request that is somewhere else now.
Moved(h, at, with) ==
  /\ visiting' \in [Hands -> Visits]
  /\ visiting'[h].at = at /\ visiting'[h].with = with
  /\ \A k \in Hands : k # h => visiting'[k] = visiting[k]

\* Requests that begin, go on and leave.
LEMMA Moves ==
  ASSUME EntryTyped, NEW h \in Hands
  PROVE  /\ Entry!Leave(h) => Moved(h, "idle", None)
         /\ \A at \in Stops, with \in {None} \cup Sessions \cup Codes \cup Tickets :
              Entry!Begin(h, at, with) \/ Entry!Go(h, at, with) => Moved(h, at, with)
<1>1. ASSUME NEW v \in Visits, visiting' = [visiting EXCEPT ![h] = v]
      PROVE  Moved(h, v.at, v.with)
  BY <1>1 DEF EntryTyped, Moved
<1>2. Entry!Leave(h) => Moved(h, "idle", None)
  <2>1. Entry!Out \in Visits /\ Entry!Out.at = "idle" /\ Entry!Out.with = None
    BY DEF Entry!Out, Visits, Stops
  <2> QED  BY <1>1, <2>1 DEF Entry!Leave
<1>3. ASSUME NEW at \in Stops, NEW with \in {None} \cup Sessions \cup Codes \cup Tickets,
             NEW u \in Visits
      PROVE  LET v1 == [u EXCEPT !.at = at]
                 v2 == [v1 EXCEPT !.with = with] IN
             v2 \in Visits /\ v2.at = at /\ v2.with = with
  <2> DEFINE v1 == [u EXCEPT !.at = at]
  <2>1. v1 \in Visits /\ v1.at = at
    BY DEF Visits
  <2> HIDE DEF v1
  <2>2. /\ [v1 EXCEPT !.with = with] \in Visits /\ [v1 EXCEPT !.with = with].at = at
        /\ [v1 EXCEPT !.with = with].with = with
    BY <2>1 DEF Visits
  <2> QED  BY <2>2 DEF v1
<1>4. ASSUME NEW at \in Stops, NEW with \in {None} \cup Sessions \cup Codes \cup Tickets,
             Entry!Begin(h, at, with) \/ Entry!Go(h, at, with)
      PROVE  Moved(h, at, with)
  <2>1. CASE Entry!Begin(h, at, with)
    <3> DEFINE v1 == [Entry!Out EXCEPT !.at = at]
               v2 == [v1 EXCEPT !.with = with]
    <3>1. visiting' = [visiting EXCEPT ![h] = v2]
      BY <2>1 DEF Entry!Begin
    <3>2. Entry!Out \in Visits
      BY DEF Entry!Out, Visits, Stops
    <3>3. v2 \in Visits /\ v2.at = at /\ v2.with = with
      BY <1>3, <3>2
    <3> HIDE DEF v2
    <3> QED  BY <1>1, <3>1, <3>3
  <2>2. CASE Entry!Go(h, at, with)
    <3> DEFINE u == visiting[h]
               v1 == [u EXCEPT !.at = at]
               v2 == [v1 EXCEPT !.with = with]
               p1 == [visiting EXCEPT ![h].at = at]
    <3>1. visiting' = [p1 EXCEPT ![h].with = with] /\ u \in Visits
      BY <2>2 DEF Entry!Go, EntryTyped
    <3>2. v2 \in Visits /\ v2.at = at /\ v2.with = with
      BY <1>3, <3>1
    <3>3. visiting' = [visiting EXCEPT ![h] = v2]
      <4>1. p1 = [visiting EXCEPT ![h] = v1]
        OBVIOUS
      <4>2. p1[h] = v1
        BY <4>1 DEF EntryTyped
      <4> HIDE DEF v1, p1
      <4>3. [p1 EXCEPT ![h].with = with] = [p1 EXCEPT ![h] = v2]
        BY <4>2
      <4>4. [p1 EXCEPT ![h] = v2] = [visiting EXCEPT ![h] = v2]
        BY <4>1 DEF EntryTyped
      <4> QED  BY <3>1, <4>3, <4>4
    <3> HIDE DEF v2
    <3> QED  BY <1>1, <3>2, <3>3
  <2> QED  BY <1>4, <2>1, <2>2
<1> QED  BY <1>2, <1>4

\* What a move leaves true of the types, of who slips through a suspension, and of the
\* exchange of tickets.
LEMMA MoveKeeps ==
  ASSUME EntryTyped, NEW h \in Hands, NEW at, NEW with, Moved(h, at, with)
  PROVE  /\ /\ status' \in {"active", "suspended"} /\ session' \in [Sessions -> {"none", "live", "revoked"}]
            /\ started' \in Nat
            /\ at = "touch" => with \in Sessions
            /\ at \in {"consume", "drop", "code"} => with \in Tickets
            /\ at = "confirm" => with \in Codes
            => EntryTyped'
         /\ /\ SuspendedInv /\ UNCHANGED <<status, session, slipped>>
            /\ at \in {"disable", "status"} => visiting[h].at \in {"disable", "status"}
            /\ at = "session" => status # "suspended"
            => SuspendedInv'
         /\ RevealInv /\ UNCHANGED <<revealed, reveals>> /\ at \notin {"consume", "drop", "code"}
            => RevealInv'
<1>1. /\ status' \in {"active", "suspended"} /\ session' \in [Sessions -> {"none", "live", "revoked"}]
      /\ started' \in Nat
      /\ at = "touch" => with \in Sessions
      /\ at \in {"consume", "drop", "code"} => with \in Tickets
      /\ at = "confirm" => with \in Codes
      => EntryTyped'
  BY DEF EntryTyped, Moved
<1>2. ASSUME SuspendedInv, UNCHANGED <<status, session, slipped>>,
             at \in {"disable", "status"} => visiting[h].at \in {"disable", "status"},
             at = "session" => status # "suspended"
      PROVE  SuspendedInv'
  <2>1. Entry!Suspending' => Entry!Suspending
    BY <1>2 DEF Moved, Entry!Suspending
  <2> QED  BY <1>2, <2>1 DEF SuspendedInv, Moved
<1>3. ASSUME RevealInv, UNCHANGED <<revealed, reveals>>, at \notin {"consume", "drop", "code"}
      PROVE  RevealInv'
  <2> SUFFICES ASSUME NEW t \in Tickets
               PROVE  /\ reveals[t] + Cardinality(Exchanging(t)') <= Cardinality(Hands)
                      /\ reveals[t] > 0 => revealed[t] \in {"consumed", "gone"}
                      /\ \A k \in Exchanging(t)' : revealed[t] # "none" /\ (visiting'[k].at # "consume" => revealed[t] # "valid")
    BY <1>3 DEF RevealInv
  <2>1. /\ Exchanging(t) \subseteq Hands /\ Exchanging(t)' \subseteq Exchanging(t)
        /\ \A k \in Exchanging(t)' : visiting'[k] = visiting[k]
    BY <1>3 DEF Exchanging, Moved
  <2>2. /\ Cardinality(Hands) \in Nat /\ Cardinality(Exchanging(t)) \in Nat /\ Cardinality(Exchanging(t)') \in Nat
        /\ Cardinality(Exchanging(t)') <= Cardinality(Exchanging(t))
    BY <2>1, SameCount, FS_Subset, FS_CardinalityType
  <2>3. reveals[t] \in Nat
    BY <1>3 DEF RevealInv
  <2> QED  BY <1>3, <2>1, <2>2, <2>3 DEF RevealInv
<1> QED  BY <1>1, <1>2, <1>3

\* Sessions that are opened, used and ended.
LEMMA SessionStepsKeep ==
  ASSUME EntryInv,
         \/ \E h \in Hands : \/ Entry!SignIn(h) \/ Entry!SignInAccount(h) \/ Entry!Touch(h)
                             \/ \E s \in Sessions : Entry!SignInSession(h, s) \/ Entry!Request(h, s)
         \/ \E s \in Sessions : Entry!EndOne(s) \/ Entry!EndOthers(s)
  PROVE  EntryInv'
<1>0. /\ EntryTyped /\ SuspendedInv /\ GuessInv /\ RevealInv /\ MailInv
      /\ started \in Nat /\ session \in [Sessions -> {"none", "live", "revoked"}]
      /\ status \in {"active", "suspended"}
  BY DEF EntryInv, EntryTyped
<1>1. UNCHANGED <<status, revealed, otp, reveals, right, cooldown, hour, sent>>
  BY DEF Entry!SignIn, Entry!SignInAccount, Entry!Touch, Entry!SignInSession, Entry!Request, Entry!EndOne,
     Entry!EndOthers, Entry!sessionVars, Entry!codeVars, Entry!mailVars
<1>2. started' \in Nat /\ started' >= started
  <2>1. started' = started \/ started' = started + 1
    BY DEF Entry!SignIn, Entry!SignInAccount, Entry!Touch, Entry!SignInSession, Entry!Request, Entry!EndOne,
       Entry!EndOthers, Entry!Begin, Entry!Go, Entry!Leave
  <2> QED  BY <1>0, <2>1
<1>3. GuessInv' /\ MailInv'
  <2>1. \A c \in Codes : otp[c].guesses \in Nat
    BY <1>0 DEF GuessInv, OtpRows
  <2> QED  BY <1>0, <1>1, <1>2, <2>1 DEF GuessInv, MailInv
<1>4. EntryTyped' /\ SuspendedInv' /\ RevealInv'
  <2>1. ASSUME NEW h \in Hands, Entry!SignIn(h)
        PROVE  EntryTyped' /\ SuspendedInv' /\ RevealInv'
    <3>1. Moved(h, "account", None) /\ UNCHANGED <<session, slipped>>
      BY <1>0, <2>1, Moves DEF Entry!SignIn, Entry!sessionVars, Stops
    <3> QED  BY <1>0, <1>1, <1>2, <3>1, MoveKeeps
  <2>2. ASSUME NEW h \in Hands, Entry!SignInAccount(h)
        PROVE  EntryTyped' /\ SuspendedInv' /\ RevealInv'
    <3>1. UNCHANGED <<session, slipped>>
      BY <2>2 DEF Entry!SignInAccount, Entry!sessionVars
    <3>2. Moved(h, "idle", None) \/ (Moved(h, "session", None) /\ status # "suspended")
      BY <1>0, <2>2, Moves DEF Entry!SignInAccount, Stops
    <3> QED  BY <1>0, <1>1, <1>2, <3>1, <3>2, MoveKeeps
  <2>3. ASSUME NEW h \in Hands, Entry!Touch(h)
        PROVE  EntryTyped' /\ SuspendedInv' /\ RevealInv'
    <3>1. session' = session /\ slipped' = slipped
      BY <1>0, <2>3 DEF Entry!Touch, Entry!Touched
    <3>2. Moved(h, "idle", None)
      BY <1>0, <2>3, Moves DEF Entry!Touch
    <3> QED  BY <1>0, <1>1, <1>2, <3>1, <3>2, MoveKeeps
  <2>4. ASSUME NEW h \in Hands, NEW s \in Sessions, Entry!Request(h, s)
        PROVE  EntryTyped' /\ SuspendedInv' /\ RevealInv'
    <3>1. Moved(h, "touch", s) /\ UNCHANGED <<session, slipped>>
      BY <1>0, <2>4, Moves DEF Entry!Request, Entry!sessionVars, Stops
    <3> QED  BY <1>0, <1>1, <1>2, <3>1, MoveKeeps
  <2>5. ASSUME NEW h \in Hands, NEW s \in Sessions, Entry!SignInSession(h, s)
        PROVE  EntryTyped' /\ SuspendedInv' /\ RevealInv'
    <3>1. /\ session' = [session EXCEPT ![s] = "live"] /\ visiting[h].at = "session"
          /\ slipped' = IF visiting[h].old \/ Entry!Suspending THEN slipped \cup {s} ELSE slipped
      BY <2>5 DEF Entry!SignInSession, Entry!At
    <3>2. Moved(h, "idle", None)
      BY <1>0, <2>5, Moves DEF Entry!SignInSession
    <3>3. EntryTyped' /\ RevealInv'
      BY <1>0, <1>1, <1>2, <3>1, <3>2, MoveKeeps
    <3>4. Entry!Suspending' => Entry!Suspending
      BY <3>2 DEF Entry!Suspending, Moved
    <3>5. SuspendedInv'
      BY <1>0, <1>1, <3>1, <3>2, <3>4 DEF SuspendedInv, Moved
    <3> QED  BY <3>3, <3>5
  <2>6. ASSUME NEW s \in Sessions, Entry!EndOne(s) \/ Entry!EndOthers(s)
        PROVE  EntryTyped' /\ SuspendedInv' /\ RevealInv'
    <3>1. /\ slipped' = slipped /\ visiting' = visiting
          /\ session' \in [Sessions -> {"none", "live", "revoked"}]
          /\ \A r \in Sessions : session'[r] = "live" => session[r] = "live"
      BY <1>0, <2>6 DEF Entry!EndOne, Entry!EndOthers, Entry!Revoke
    <3>2. EntryTyped'
      BY <1>0, <1>1, <1>2, <3>1 DEF EntryTyped
    <3>3. SuspendedInv'
      BY <1>0, <1>1, <3>1 DEF SuspendedInv, Entry!Suspending
    <3>4. RevealInv'
      BY <1>0, <1>1, <3>1 DEF RevealInv, Exchanging
    <3> QED  BY <3>2, <3>3, <3>4
  <2> QED  BY <2>1, <2>2, <2>3, <2>4, <2>5, <2>6
<1> QED  BY <1>3, <1>4 DEF EntryInv

\* A suspension ends the sessions before it is saved; whoever opens one meanwhile slips
\* through, and nobody begins to after it.
LEMMA SuspensionStepsKeep ==
  ASSUME EntryInv, NEW h \in Hands,
         \/ Entry!Suspend(h) \/ Entry!Disable(h) \/ Entry!SaveStatus(h)
         \/ Entry!Reactivate(h) \/ Entry!SaveActive(h)
  PROVE  EntryInv'
<1>0. /\ EntryTyped /\ SuspendedInv /\ GuessInv /\ RevealInv /\ MailInv
      /\ started \in Nat /\ session \in [Sessions -> {"none", "live", "revoked"}]
      /\ status \in {"active", "suspended"} /\ visiting \in [Hands -> Visits]
  BY DEF EntryInv, EntryTyped
<1>1. /\ UNCHANGED <<slipped, revealed, otp, reveals, right, cooldown, hour, sent>>
      /\ status' \in {"active", "suspended"}
  BY <1>0 DEF Entry!Suspend, Entry!Disable, Entry!SaveStatus, Entry!Reactivate, Entry!SaveActive,
     Entry!codeVars, Entry!mailVars
<1>2. started' \in Nat /\ started' >= started
  BY <1>0 DEF Entry!Suspend, Entry!Disable, Entry!SaveStatus, Entry!Reactivate, Entry!SaveActive,
     Entry!Begin, Entry!Go, Entry!Leave
<1>3. GuessInv' /\ MailInv'
  <2>1. \A c \in Codes : otp[c].guesses \in Nat
    BY <1>0 DEF GuessInv, OtpRows
  <2> QED  BY <1>0, <1>1, <1>2, <2>1 DEF GuessInv, MailInv
<1>4. EntryTyped' /\ SuspendedInv' /\ RevealInv'
  <2>1. CASE Entry!Suspend(h)
    <3>1. Moved(h, "disable", None) /\ status' = status /\ status = "active"
      BY <1>0, <2>1, Moves DEF Entry!Suspend, Stops
    <3>2. /\ session' \in [Sessions -> {"none", "live", "revoked"}]
          /\ \A s \in Sessions : session'[s] # "live"
      BY <1>0, <2>1 DEF Entry!Suspend, Entry!Revoke, Entry!EndedBySuspension
    <3>3. SuspendedInv'
      BY <3>1, <3>2 DEF SuspendedInv
    <3> QED  BY <1>0, <1>1, <1>2, <3>1, <3>2, <3>3, MoveKeeps
  <2>2. CASE Entry!Disable(h)
    <3>1. /\ Moved(h, "status", None) /\ UNCHANGED <<status, session>> /\ visiting[h].at = "disable"
      BY <1>0, <2>2, Moves DEF Entry!Disable, Stops, Entry!At
    <3> QED  BY <1>0, <1>1, <1>2, <3>1, MoveKeeps
  <2>3. CASE Entry!SaveStatus(h)
    <3>1. /\ visiting[h].at = "status" /\ status' = "suspended" /\ UNCHANGED <<session, started>>
          /\ visiting' = [j \in Hands |-> IF j = h THEN Entry!Out ELSE [visiting[j] EXCEPT !.old = visiting[j].at = "session"]]
      BY <2>3 DEF Entry!SaveStatus, Entry!At
    <3>2. Entry!Out \in Visits /\ Entry!Out.at = "idle"
      BY DEF Entry!Out, Visits, Stops
    <3>3. ASSUME NEW v \in Visits, NEW b \in BOOLEAN
          PROVE  LET w == [v EXCEPT !.old = b] IN
                 w \in Visits /\ w.old = b /\ w.at = v.at /\ w.with = v.with
      BY DEF Visits
    <3>4. ASSUME NEW k \in Hands
          PROVE  /\ visiting'[k] \in Visits
                 /\ k = h => visiting'[k] = Entry!Out
                 /\ k # h => /\ visiting'[k].at = visiting[k].at /\ visiting'[k].with = visiting[k].with
                             /\ visiting'[k].old = (visiting[k].at = "session")
      <4>1. visiting[k] \in Visits /\ (visiting[k].at = "session") \in BOOLEAN
        BY <1>0
      <4>2. CASE k = h
        BY <3>1, <3>2, <4>2
      <4>3. CASE k # h
        <5>1. visiting'[k] = [visiting[k] EXCEPT !.old = visiting[k].at = "session"]
          BY <3>1, <4>3
        <5> QED  BY <3>3, <4>1, <4>3, <5>1
      <4> QED  BY <4>2, <4>3
    <3>5. visiting' \in [Hands -> Visits]
      <4>1. visiting' = [j \in Hands |-> visiting'[j]]
        BY <3>1
      <4> QED  BY <3>4, <4>1
    <3>6. EntryTyped'
      BY <1>0, <1>1, <3>1, <3>2, <3>4, <3>5 DEF EntryTyped
    <3>7. SuspendedInv'
      <4>1. Entry!Suspending
        BY <3>1 DEF Entry!Suspending
      <4>2. \A s \in Sessions : session'[s] = "live" => s \in slipped'
        BY <1>0, <1>1, <3>1, <4>1 DEF SuspendedInv
      <4>3. \A k \in Hands : visiting'[k].at = "session" => visiting'[k].old
        BY <3>2, <3>4
      <4> QED  BY <4>2, <4>3 DEF SuspendedInv
    <3>8. RevealInv'
      <4>1. ASSUME NEW t \in Tickets
            PROVE  /\ Exchanging(t)' = Exchanging(t)
                   /\ \A k \in Exchanging(t) : visiting'[k].at = visiting[k].at
        BY <3>1, <3>2, <3>4 DEF Exchanging
      <4> QED  BY <1>0, <1>1, <4>1 DEF RevealInv
    <3> QED  BY <3>6, <3>7, <3>8
  <2>4. CASE Entry!Reactivate(h)
    <3>1. Moved(h, "enable", None) /\ UNCHANGED <<status, session>>
      BY <1>0, <2>4, Moves DEF Entry!Reactivate, Stops
    <3> QED  BY <1>0, <1>1, <1>2, <3>1, MoveKeeps
  <2>5. CASE Entry!SaveActive(h)
    <3>1. Moved(h, "idle", None) /\ session' = session /\ status' = "active"
      BY <1>0, <2>5, Moves DEF Entry!SaveActive
    <3>2. Entry!Suspending' => Entry!Suspending
      BY <3>1 DEF Entry!Suspending, Moved
    <3>3. SuspendedInv'
      BY <1>0, <1>1, <3>1, <3>2 DEF SuspendedInv
    <3> QED  BY <1>0, <1>1, <1>2, <3>1, <3>3, MoveKeeps
  <2> QED  BY <2>1, <2>2, <2>3, <2>4, <2>5
<1> QED  BY <1>3, <1>4 DEF EntryInv

\* The window lets one mail pass, the hour its number, and what one refuses the other
\* does not count.
LEMMA MailStepsKeep ==
  ASSUME EntryInv,
         \/ \E h \in Hands : Entry!AskMail(h) \/ Entry!HitCooldown(h) \/ Entry!HitHour(h)
         \/ Entry!Tick
  PROVE  EntryInv'
<1>0. /\ EntryTyped /\ SuspendedInv /\ GuessInv /\ RevealInv /\ MailInv /\ started \in Nat
      /\ session \in [Sessions -> {"none", "live", "revoked"}] /\ status \in {"active", "suspended"}
  BY DEF EntryInv, EntryTyped
<1>1. UNCHANGED <<status, session, slipped, revealed, otp, reveals, right>>
  BY DEF Entry!AskMail, Entry!HitCooldown, Entry!HitHour, Entry!Tick, Entry!sessionVars, Entry!codeVars
<1>2. started' \in Nat /\ started' >= started
  <2>1. started' = started \/ started' = started + 1
    BY DEF Entry!AskMail, Entry!HitCooldown, Entry!HitHour, Entry!Tick, Entry!Begin, Entry!Go, Entry!Leave
  <2> QED  BY <1>0, <2>1
<1>3. GuessInv'
  <2>1. \A c \in Codes : otp[c].guesses \in Nat
    BY <1>0 DEF GuessInv, OtpRows
  <2> QED  BY <1>0, <1>1, <1>2, <2>1 DEF GuessInv
<1>4. EntryTyped' /\ SuspendedInv' /\ RevealInv'
  <2>1. ASSUME NEW h \in Hands, Entry!AskMail(h) \/ Entry!HitCooldown(h) \/ Entry!HitHour(h)
        PROVE  EntryTyped' /\ SuspendedInv' /\ RevealInv'
    <3>1. PICK at \in {"idle", "cooldown", "hour", "ticket"} : Moved(h, at, None)
      BY <1>0, <2>1, Moves DEF Entry!AskMail, Entry!HitCooldown, Entry!HitHour, Stops
    <3> QED  BY <1>0, <1>1, <1>2, <3>1, MoveKeeps
  <2>2. CASE Entry!Tick
    <3>1. visiting' = visiting
      BY <2>2 DEF Entry!Tick
    <3> QED  BY <1>0, <1>1, <1>2, <3>1 DEF EntryTyped, SuspendedInv, RevealInv, Exchanging, Entry!Suspending
  <2> QED  BY <2>1, <2>2
<1>5. MailInv'
  <2>1. /\ cooldown \in Nat /\ hour \in Nat /\ sent \in [window : Nat, hour : Nat] /\ HourlyMax \in Nat
        /\ sent.window <= 1 /\ (cooldown = 0 => sent.window = 0)
        /\ sent.hour = IF hour < HourlyMax THEN hour ELSE HourlyMax
    BY <1>0 DEF MailInv
  <2>2. \A w, u \in Nat : LET s1 == [sent EXCEPT !.window = w]
                              s2 == [sent EXCEPT !.hour = u] IN
          /\ s1 \in [window : Nat, hour : Nat] /\ s1.window = w /\ s1.hour = sent.hour
          /\ s2 \in [window : Nat, hour : Nat] /\ s2.window = sent.window /\ s2.hour = u
    BY <2>1
  <2>3. ASSUME NEW h \in Hands, Entry!AskMail(h)
        PROVE  MailInv'
    BY <1>0, <2>3 DEF Entry!AskMail, Entry!mailVars, MailInv
  <2>4. ASSUME NEW h \in Hands, Entry!HitCooldown(h)
        PROVE  MailInv'
    <3>1. /\ cooldown' = cooldown + 1 /\ hour' = hour
          /\ sent' = sent \/ (cooldown = 0 /\ sent' = [sent EXCEPT !.window = sent.window + 1])
      BY <2>1, <2>4 DEF Entry!HitCooldown
    <3>2. CASE sent' = sent
      BY <2>1, <3>1, <3>2 DEF MailInv
    <3>3. CASE cooldown = 0 /\ sent' = [sent EXCEPT !.window = sent.window + 1]
      <4>1. sent' \in [window : Nat, hour : Nat] /\ sent'.window = 1 /\ sent'.hour = sent.hour
        BY <2>1, <2>2, <3>3
      <4> QED  BY <2>1, <3>1, <4>1 DEF MailInv
    <3> QED  BY <3>1, <3>2, <3>3
  <2>5. ASSUME NEW h \in Hands, Entry!HitHour(h)
        PROVE  MailInv'
    <3>1. /\ cooldown' = cooldown /\ hour' = hour + 1
          /\ sent' = IF hour < HourlyMax THEN [sent EXCEPT !.hour = sent.hour + 1] ELSE sent
      BY <2>5 DEF Entry!HitHour, Entry!HourAllows
    <3>2. CASE hour < HourlyMax
      <4>1. /\ sent' \in [window : Nat, hour : Nat] /\ sent'.window = sent.window /\ sent'.hour = hour + 1
        BY <2>1, <2>2, <3>1, <3>2
      <4> QED  BY <2>1, <3>1, <3>2, <4>1 DEF MailInv
    <3>3. CASE ~(hour < HourlyMax)
      BY <2>1, <3>1, <3>3 DEF MailInv
    <3> QED  BY <3>2, <3>3
  <2>6. CASE Entry!Tick
    <3>1. cooldown' = 0 /\ hour' = hour /\ sent' = [sent EXCEPT !.window = 0]
      BY <2>6 DEF Entry!Tick
    <3>2. sent' \in [window : Nat, hour : Nat] /\ sent'.window = 0 /\ sent'.hour = sent.hour
      BY <2>1, <2>2, <3>1
    <3> QED  BY <2>1, <3>1, <3>2 DEF MailInv
  <2> QED  BY <2>3, <2>4, <2>5, <2>6
<1> QED  BY <1>3, <1>4, <1>5 DEF EntryInv

\* Tickets that are mailed, and codes and tickets that expire.
LEMMA TicketMailKeeps ==
  ASSUME EntryInv,
         \/ \E h \in Hands : Entry!DropTickets(h) \/ \E t \in Tickets : Entry!StoreTicket(h, t)
         \/ \E t \in Tickets : Entry!TicketExpires(t)
         \/ \E c \in Codes : Entry!CodeExpires(c)
  PROVE  EntryInv'
<1>0. /\ EntryTyped /\ SuspendedInv /\ GuessInv /\ RevealInv /\ MailInv /\ started \in Nat
      /\ session \in [Sessions -> {"none", "live", "revoked"}] /\ status \in {"active", "suspended"}
  BY DEF EntryInv, EntryTyped
<1>1. UNCHANGED <<status, session, slipped, reveals, right, cooldown, hour, sent, started>>
  BY DEF Entry!DropTickets, Entry!StoreTicket, Entry!TicketExpires, Entry!CodeExpires, Entry!sessionVars,
     Entry!mailVars, Entry!Go, Entry!Leave
<1>2. MailInv'
  BY <1>0, <1>1 DEF MailInv
<1>3. \/ visiting' = visiting
      \/ \E h \in Hands, at \in {"idle", "mail"} : Moved(h, at, None)
  BY <1>0, Moves DEF Entry!DropTickets, Entry!StoreTicket, Entry!TicketExpires, Entry!CodeExpires, Stops
<1>4. EntryTyped' /\ SuspendedInv'
  <2>1. CASE visiting' = visiting
    BY <1>0, <1>1, <2>1 DEF EntryTyped, SuspendedInv, Entry!Suspending
  <2>2. CASE \E h \in Hands, at \in {"idle", "mail"} : Moved(h, at, None)
    BY <1>0, <1>1, <2>2, MoveKeeps
  <2> QED  BY <1>3, <2>1, <2>2
<1>5. ASSUME NEW t \in Tickets
      PROVE  /\ Exchanging(t)' \subseteq Exchanging(t)
             /\ \A h \in Exchanging(t)' : visiting'[h] = visiting[h]
  BY <1>3 DEF Exchanging, Moved
<1>6. /\ revealed' \in [Tickets -> {"none", "valid", "consumed", "gone"}]
      /\ \A t \in Tickets : \/ revealed'[t] = revealed[t]
                            \/ revealed[t] = "none" /\ revealed'[t] = "valid"
                            \/ revealed[t] # "none" /\ revealed'[t] = "gone"
  <2>0. revealed \in [Tickets -> {"none", "valid", "consumed", "gone"}]
    BY <1>0 DEF RevealInv
  <2>1. ASSUME NEW h \in Hands, Entry!DropTickets(h)
        PROVE  <1>6
    BY <2>0, <2>1 DEF Entry!DropTickets
  <2>2. ASSUME NEW h \in Hands, NEW t \in Tickets, Entry!StoreTicket(h, t)
        PROVE  <1>6
    BY <2>0, <2>2 DEF Entry!StoreTicket
  <2>3. ASSUME NEW t \in Tickets, Entry!TicketExpires(t)
        PROVE  <1>6
    BY <2>0, <2>3 DEF Entry!TicketExpires
  <2>4. ASSUME NEW c \in Codes, Entry!CodeExpires(c)
        PROVE  <1>6
    BY <2>0, <2>4 DEF Entry!CodeExpires
  <2> QED  BY <2>1, <2>2, <2>3, <2>4
<1>7. RevealInv'
  <2> SUFFICES ASSUME NEW t \in Tickets
               PROVE  /\ reveals[t] + Cardinality(Exchanging(t)') <= Cardinality(Hands)
                      /\ reveals[t] > 0 => revealed'[t] \in {"consumed", "gone"}
                      /\ \A k \in Exchanging(t)' : /\ revealed'[t] # "none"
                                                   /\ visiting'[k].at # "consume" => revealed'[t] # "valid"
    BY <1>0, <1>1, <1>6 DEF RevealInv
  <2>1. /\ reveals[t] + Cardinality(Exchanging(t)) <= Cardinality(Hands) /\ reveals[t] \in Nat
        /\ reveals[t] > 0 => revealed[t] \in {"consumed", "gone"}
        /\ \A k \in Exchanging(t) : revealed[t] # "none" /\ (visiting[k].at # "consume" => revealed[t] # "valid")
    BY <1>0 DEF RevealInv
  <2>2. /\ Cardinality(Hands) \in Nat /\ Cardinality(Exchanging(t)) \in Nat /\ Cardinality(Exchanging(t)') \in Nat
        /\ Cardinality(Exchanging(t)') <= Cardinality(Exchanging(t))
    <3>1. Exchanging(t) \subseteq Hands
      BY DEF Exchanging
    <3> QED  BY <1>5, <3>1, SameCount, FS_Subset, FS_CardinalityType
  <2> QED  BY <1>5, <1>6, <2>1, <2>2
<1>8. GuessInv'
  <2>1. \/ otp' = otp
        \/ \E c \in Codes : otp' = [otp EXCEPT ![c].at = "gone"]
    BY DEF Entry!DropTickets, Entry!StoreTicket, Entry!TicketExpires, Entry!CodeExpires
  <2>2. CASE otp' = otp
    BY <1>0, <1>1, <2>2 DEF GuessInv
  <2>3. ASSUME NEW c \in Codes, otp' = [otp EXCEPT ![c].at = "gone"]
        PROVE  GuessInv'
    <3> DEFINE row == [otp[c] EXCEPT !.at = "gone"]
    <3>1. otp' = [otp EXCEPT ![c] = row] /\ otp \in [Codes -> OtpRows]
      BY <1>0, <2>3 DEF GuessInv
    <3>2. row \in OtpRows /\ row.guesses = otp[c].guesses /\ row.consumed = otp[c].consumed
          /\ row.at = "gone"
      BY <3>1 DEF OtpRows
    <3> HIDE DEF row
    <3> QED  BY <1>0, <1>1, <3>1, <3>2 DEF GuessInv
  <2> QED  BY <2>1, <2>2, <2>3
<1> QED  BY <1>2, <1>4, <1>7, <1>8 DEF EntryInv

\* An exchange: a request that found the ticket unused, the save that uses it, the codes
\* that are deleted, the one that is stored.
LEMMA RevealStepsKeep ==
  ASSUME EntryInv, NEW h \in Hands,
         \/ Entry!Consume(h) \/ Entry!DropCodes(h)
         \/ \E t \in Tickets : Entry!Reveal(h, t)
         \/ \E c \in Codes : Entry!StoreCode(h, c)
  PROVE  EntryInv'
<1>0. /\ EntryTyped /\ SuspendedInv /\ GuessInv /\ RevealInv /\ MailInv /\ started \in Nat
      /\ session \in [Sessions -> {"none", "live", "revoked"}] /\ status \in {"active", "suspended"}
      /\ visiting[h].at \in {"consume", "drop", "code"} => visiting[h].with \in Tickets
      /\ revealed \in [Tickets -> {"none", "valid", "consumed", "gone"}] /\ reveals \in [Tickets -> Nat]
      /\ otp \in [Codes -> OtpRows]
  BY DEF EntryInv, EntryTyped, RevealInv, GuessInv
<1>1. UNCHANGED <<status, session, slipped, right, cooldown, hour, sent>>
  BY DEF Entry!Consume, Entry!DropCodes, Entry!Reveal, Entry!StoreCode, Entry!sessionVars, Entry!codeVars,
     Entry!mailVars
<1>2. started' = started \/ started' = started + 1
  BY DEF Entry!Consume, Entry!DropCodes, Entry!Reveal, Entry!StoreCode, Entry!Begin, Entry!Go, Entry!Leave
<1>3. MailInv'
  BY <1>0, <1>1 DEF MailInv
<1>4. PICK t \in Tickets :
        \/ Moved(h, "consume", t) /\ revealed[t] = "valid" /\ UNCHANGED <<revealed, reveals>>
        \/ visiting[h].with = t /\ visiting[h].at = "consume" /\ Moved(h, "idle", None) /\ UNCHANGED <<revealed, reveals>>
        \/ /\ visiting[h].with = t /\ visiting[h].at = "consume" /\ Moved(h, "drop", t)
           /\ revealed' = [revealed EXCEPT ![t] = "consumed"] /\ reveals' = reveals
        \/ /\ visiting[h].with = t /\ visiting[h].at = "drop" /\ Moved(h, "code", t)
           /\ UNCHANGED <<revealed, reveals>>
        \/ /\ visiting[h].with = t /\ visiting[h].at = "code" /\ Moved(h, "idle", None)
           /\ revealed' = revealed /\ reveals' = [reveals EXCEPT ![t] = @ + 1]
  <2>1. ASSUME NEW t \in Tickets, Entry!Reveal(h, t)
        PROVE  Moved(h, "consume", t) /\ revealed[t] = "valid" /\ UNCHANGED <<revealed, reveals>>
    BY <1>0, <2>1, Moves DEF Entry!Reveal, Entry!Unused, Entry!codeVars, Stops
  <2>2. CASE Entry!Consume(h)
    <3>1. visiting[h].at = "consume" /\ visiting[h].with \in Tickets /\ reveals' = reveals
      BY <1>0, <2>2 DEF Entry!Consume, Entry!At
    <3>2. CASE revealed[visiting[h].with] = "gone"
      BY <1>0, <2>2, <3>1, <3>2, Moves DEF Entry!Consume
    <3>3. CASE revealed[visiting[h].with] # "gone"
      <4>1. Entry!Go(h, "drop", visiting[h].with) /\ revealed' = [revealed EXCEPT ![visiting[h].with] = "consumed"]
        BY <2>2, <3>3 DEF Entry!Consume
      <4>2. Moved(h, "drop", visiting[h].with)
        BY <1>0, <3>1, <4>1, Moves DEF Stops
      <4> QED  BY <3>1, <4>1, <4>2
    <3> QED  BY <3>2, <3>3
  <2>3. CASE Entry!DropCodes(h)
    <3>1. visiting[h].at = "drop" /\ visiting[h].with \in Tickets /\ UNCHANGED <<revealed, reveals>>
      BY <1>0, <2>3 DEF Entry!DropCodes, Entry!At
    <3>2. Moved(h, "code", visiting[h].with)
      BY <1>0, <2>3, <3>1, Moves DEF Entry!DropCodes, Stops
    <3> QED  BY <3>1, <3>2
  <2>4. ASSUME NEW c \in Codes, Entry!StoreCode(h, c)
        PROVE  /\ visiting[h].with \in Tickets /\ visiting[h].at = "code" /\ Moved(h, "idle", None)
               /\ revealed' = revealed /\ reveals' = [reveals EXCEPT ![visiting[h].with] = @ + 1]
    BY <1>0, <2>4, Moves DEF Entry!StoreCode, Entry!At
  <2> QED  BY <2>1, <2>2, <2>3, <2>4
<1>5. EntryTyped' /\ SuspendedInv'
  <2>1. PICK at \in {"idle", "consume", "drop", "code"}, with \in Tickets \cup {None} :
          Moved(h, at, with) /\ (at # "idle" => with \in Tickets)
    BY <1>4
  <2> QED  BY <1>0, <1>1, <1>2, <2>1, MoveKeeps
<1>6. RevealInv'
  <2> DEFINE Kept(u) == /\ reveals'[u] + Cardinality(Exchanging(u)') <= Cardinality(Hands)
                        /\ reveals'[u] > 0 => revealed'[u] \in {"consumed", "gone"}
                        /\ \A k \in Exchanging(u)' : /\ revealed'[u] # "none"
                                                     /\ visiting'[k].at # "consume" => revealed'[u] # "valid"
  <2>0. \A u \in Tickets : /\ reveals[u] + Cardinality(Exchanging(u)) <= Cardinality(Hands) /\ reveals[u] \in Nat
                           /\ reveals[u] > 0 => revealed[u] \in {"consumed", "gone"}
                           /\ \A k \in Exchanging(u) : /\ revealed[u] # "none"
                                                       /\ visiting[k].at # "consume" => revealed[u] # "valid"
    BY <1>0 DEF RevealInv
  <2>1. /\ revealed' \in [Tickets -> {"none", "valid", "consumed", "gone"}] /\ reveals' \in [Tickets -> Nat]
        /\ \A u \in Tickets : u # t => revealed'[u] = revealed[u] /\ reveals'[u] = reveals[u]
    BY <1>0, <1>4
  <2>2. \A u \in Tickets : /\ IsFiniteSet(Exchanging(u)) /\ Cardinality(Exchanging(u)) \in Nat
                           /\ Cardinality(Exchanging(u)') \in Nat /\ Exchanging(u)' \subseteq Hands
                           /\ Cardinality(Exchanging(u)') <= Cardinality(Hands) /\ Cardinality(Hands) \in Nat
    <3>1. \A u : Exchanging(u) \subseteq Hands /\ Exchanging(u)' \subseteq Hands
      BY DEF Exchanging
    <3> QED  BY <3>1, SameCount, FS_Subset, FS_CardinalityType
  <2>3. ASSUME NEW u \in Tickets, u # t
        PROVE  Kept(u)
    <3>1. /\ Exchanging(u)' \subseteq Exchanging(u)
          /\ \A k \in Exchanging(u)' : visiting'[k] = visiting[k]
      <4>1. \A k \in Exchanging(u)' : k # h
        BY <1>4, <2>3 DEF Exchanging, Moved
      <4> QED  BY <1>4, <4>1 DEF Exchanging, Moved
    <3>2. Cardinality(Exchanging(u)') <= Cardinality(Exchanging(u))
      BY <2>2, <3>1, FS_Subset
    <3> QED  BY <2>0, <2>1, <2>2, <2>3, <3>1, <3>2
  <2>4. Kept(t)
    <3>1. CASE Moved(h, "consume", t) /\ revealed[t] = "valid" /\ UNCHANGED <<revealed, reveals>>
      <4>1. reveals[t] = 0
        BY <2>0, <3>1
      <4>2. \A k \in Exchanging(t)' : visiting'[k].at = "consume"
        BY <2>0, <3>1 DEF Exchanging, Moved
      <4> QED  BY <2>2, <3>1, <4>1, <4>2
    <3>2. CASE /\ visiting[h].with = t /\ visiting[h].at = "consume" /\ Moved(h, "idle", None)
               /\ UNCHANGED <<revealed, reveals>>
      <4>1. Exchanging(t)' \subseteq Exchanging(t) /\ \A k \in Exchanging(t)' : visiting'[k] = visiting[k]
        BY <3>2 DEF Exchanging, Moved
      <4>2. Cardinality(Exchanging(t)') <= Cardinality(Exchanging(t))
        BY <2>2, <4>1, FS_Subset
      <4> QED  BY <2>0, <2>2, <3>2, <4>1, <4>2
    <3>3. CASE /\ visiting[h].with = t /\ visiting[h].at = "consume" /\ Moved(h, "drop", t)
               /\ revealed' = [revealed EXCEPT ![t] = "consumed"] /\ reveals' = reveals
      <4>1. Exchanging(t)' = Exchanging(t) /\ revealed'[t] = "consumed"
        BY <1>0, <3>3 DEF Exchanging, Moved
      <4> QED  BY <2>0, <3>3, <4>1
    <3>4. CASE /\ visiting[h].with = t /\ visiting[h].at = "drop" /\ Moved(h, "code", t)
               /\ UNCHANGED <<revealed, reveals>>
      <4>1. Exchanging(t)' = Exchanging(t) /\ h \in Exchanging(t) /\ revealed[t] \notin {"none", "valid"}
        BY <2>0, <3>4 DEF Exchanging, Moved
      <4> QED  BY <2>0, <3>4, <4>1
    <3>5. CASE /\ visiting[h].with = t /\ visiting[h].at = "code" /\ Moved(h, "idle", None)
               /\ revealed' = revealed /\ reveals' = [reveals EXCEPT ![t] = @ + 1]
      <4>1. h \in Exchanging(t) /\ Exchanging(t)' = Exchanging(t) \ {h} /\ revealed[t] \in {"consumed", "gone"}
        BY <1>0, <2>0, <3>5 DEF Exchanging, Moved
      <4>2. Cardinality(Exchanging(t)') = Cardinality(Exchanging(t)) - 1
        BY <2>2, <4>1, FS_RemoveElement
      <4>3. reveals'[t] = reveals[t] + 1
        BY <1>0, <3>5
      <4> QED  BY <2>0, <2>2, <3>5, <4>1, <4>2, <4>3
    <3> QED  BY <1>4, <3>1, <3>2, <3>3, <3>4, <3>5
  <2>5. \A u \in Tickets : Kept(u)
    BY <2>3, <2>4
  <2> QED  BY <2>1, <2>5 DEF RevealInv
<1>7. GuessInv'
  <2>1. /\ otp' \in [Codes -> OtpRows]
        /\ \A c \in Codes : /\ otp'[c].guesses \in {0, otp[c].guesses}
                           /\ \/ otp[c].at = "none"
                              \/ otp'[c].consumed = otp[c].consumed /\ otp'[c].at # "none"
    <3>1. CASE otp' = otp
      BY <1>0, <3>1
    <3>2. ASSUME NEW c \in Codes, otp' = [otp EXCEPT ![c].at = "stored"]
          PROVE  <2>1
      <4> DEFINE row == [otp[c] EXCEPT !.at = "stored"]
      <4>1. otp' = [otp EXCEPT ![c] = row]
        BY <3>2
      <4>2. row \in OtpRows /\ row.guesses = otp[c].guesses /\ row.consumed = otp[c].consumed
            /\ row.at = "stored"
        BY <1>0 DEF OtpRows
      <4> HIDE DEF row
      <4> QED  BY <1>0, <4>1, <4>2
    <3>3. CASE Entry!DropCodes(h)
      <4>1. otp' = [c \in Codes |-> IF otp[c].at = "none" THEN Entry!NoCode ELSE [otp[c] EXCEPT !.at = "gone"]]
        BY <3>3 DEF Entry!DropCodes
      <4>2. Entry!NoCode \in OtpRows /\ Entry!NoCode.guesses = 0
        BY DEF Entry!NoCode, OtpRows
      <4>3. ASSUME NEW row \in OtpRows
            PROVE  LET gone == [row EXCEPT !.at = "gone"] IN
                   gone \in OtpRows /\ gone.guesses = row.guesses /\ gone.consumed = row.consumed /\ gone.at = "gone"
        BY DEF OtpRows
      <4>4. ASSUME NEW c \in Codes
            PROVE  /\ otp'[c] \in OtpRows /\ otp'[c].guesses \in {0, otp[c].guesses}
                   /\ \/ otp[c].at = "none"
                      \/ otp'[c].consumed = otp[c].consumed /\ otp'[c].at # "none"
        BY <1>0, <4>1, <4>2, <4>3
      <4> QED  BY <4>1, <4>4
    <3>4. \/ otp' = otp \/ Entry!DropCodes(h)
          \/ \E c \in Codes : otp' = [otp EXCEPT ![c].at = "stored"]
      BY DEF Entry!Consume, Entry!Reveal, Entry!StoreCode, Entry!codeVars
    <3> QED  BY <3>1, <3>2, <3>3, <3>4
  <2> QED  BY <1>0, <1>1, <1>2, <2>1 DEF GuessInv, OtpRows
<1> QED  BY <1>3, <1>5, <1>6, <1>7 DEF EntryInv

\* A guess counts in the update that finds the code open to it, and one right guess wins.
LEMMA GuessStepsKeep ==
  ASSUME EntryInv, NEW h \in Hands,
         Entry!Confirm(h) \/ \E c \in Codes, isRight \in BOOLEAN : Entry!Guess(h, c, isRight)
  PROVE  EntryInv'
<1>0. /\ EntryTyped /\ SuspendedInv /\ GuessInv /\ RevealInv /\ MailInv /\ started \in Nat
      /\ session \in [Sessions -> {"none", "live", "revoked"}] /\ status \in {"active", "suspended"}
      /\ visiting[h].at = "confirm" => visiting[h].with \in Codes
      /\ otp \in [Codes -> OtpRows] /\ right \in [Codes -> Nat]
      /\ MaxGuesses \in Nat /\ MaxAccountRequests \in Nat
  BY DEF EntryInv, EntryTyped, GuessInv
<1>1. UNCHANGED <<status, session, slipped, revealed, reveals, cooldown, hour, sent>>
  BY DEF Entry!Confirm, Entry!Guess, Entry!sessionVars, Entry!mailVars
<1>2. started' = started \/ started' = started + 1
  BY DEF Entry!Confirm, Entry!Guess, Entry!Begin, Entry!Leave
<1>3. MailInv'
  BY <1>0, <1>1 DEF MailInv
<1>4. EntryTyped' /\ SuspendedInv' /\ RevealInv'
  <2>1. \/ visiting' = visiting
        \/ Moved(h, "idle", None)
        \/ \E c \in Codes : Moved(h, "confirm", c)
    BY <1>0, Moves DEF Entry!Confirm, Entry!Guess, Stops
  <2>2. CASE visiting' = visiting
    <3>1. EntryTyped' /\ SuspendedInv'
      BY <1>0, <1>1, <1>2, <2>2 DEF EntryTyped, SuspendedInv, Entry!Suspending
    <3>2. RevealInv'
      BY <1>0, <1>1, <2>2 DEF RevealInv, Exchanging
    <3> QED  BY <3>1, <3>2
  <2>3. CASE Moved(h, "idle", None)
    BY <1>0, <1>1, <1>2, <2>3, MoveKeeps
  <2>4. CASE \E c \in Codes : Moved(h, "confirm", c)
    BY <1>0, <1>1, <1>2, <2>4, MoveKeeps
  <2> QED  BY <2>1, <2>2, <2>3, <2>4
<1>5. GuessInv'
  <2>1. CASE Entry!Confirm(h)
    <3> DEFINE c == visiting[h].with
    <3>1. c \in Codes /\ started' = started
      BY <1>0, <2>1 DEF Entry!Confirm, Entry!At, Entry!Leave
    <3>2. CASE Entry!Wins(c)
      <4> DEFINE row == [otp[c] EXCEPT !.consumed = TRUE]
      <4>1. /\ otp' = [otp EXCEPT ![c] = row] /\ right' = [right EXCEPT ![c] = @ + 1]
            /\ otp[c].at = "stored" /\ ~otp[c].consumed
        BY <2>1, <3>2 DEF Entry!Confirm, Entry!Wins
      <4>2. row \in OtpRows /\ row.guesses = otp[c].guesses /\ row.consumed /\ row.at = "stored"
        BY <1>0, <3>1, <4>1 DEF OtpRows
      <4>3. right[c] = 0
        BY <1>0, <3>1, <4>1 DEF GuessInv
      <4> HIDE DEF row, c
      <4>4. /\ otp' \in [Codes -> OtpRows] /\ right' \in [Codes -> Nat]
            /\ otp'[c] = row /\ right'[c] = 1
            /\ \A d \in Codes : d # c => otp'[d] = otp[d] /\ right'[d] = right[d]
        BY <1>0, <3>1, <4>1, <4>2, <4>3
      <4> QED  BY <1>0, <3>1, <4>2, <4>4 DEF GuessInv
    <3>3. CASE ~Entry!Wins(c)
      <4>1. otp' = otp /\ right' = right
        BY <2>1, <3>3 DEF Entry!Confirm
      <4> QED  BY <1>0, <3>1, <4>1 DEF GuessInv
    <3> QED  BY <3>2, <3>3
  <2>2. ASSUME NEW c \in Codes, NEW isRight \in BOOLEAN, Entry!Guess(h, c, isRight)
        PROVE  GuessInv'
    <3> DEFINE row == [otp[c] EXCEPT !.guesses = @ + 1]
    <3>1. /\ otp' = [otp EXCEPT ![c] = row] /\ right' = right
          /\ otp[c].guesses < MaxGuesses /\ started < MaxAccountRequests /\ started' = started + 1
      BY <2>2 DEF Entry!Guess, Entry!OpenTo, Entry!Begin
    <3>2. row \in OtpRows /\ row.guesses = otp[c].guesses + 1 /\ row.consumed = otp[c].consumed /\ row.at = otp[c].at
      BY <1>0 DEF OtpRows
    <3>3. \A d \in Codes : otp[d].guesses \in Nat
      BY <1>0 DEF OtpRows
    <3> HIDE DEF row
    <3>4. /\ otp' \in [Codes -> OtpRows] /\ otp'[c] = row
          /\ \A d \in Codes : d # c => otp'[d] = otp[d]
      BY <1>0, <3>1, <3>2
    <3> QED  BY <1>0, <3>1, <3>2, <3>3, <3>4 DEF GuessInv
  <2> QED  BY <2>1, <2>2
<1> QED  BY <1>3, <1>4, <1>5 DEF EntryInv

\* Every step about accounts.
LEMMA EntryStep == EntryInv /\ [Entry!Next]_(Entry!accountVars) => EntryInv'
<1> SUFFICES ASSUME EntryInv, Entry!Next \/ UNCHANGED Entry!accountVars PROVE EntryInv'
  OBVIOUS
<1>1. CASE UNCHANGED Entry!accountVars
  <2>1. UNCHANGED <<status, session, slipped, revealed, otp, reveals, right, cooldown, hour, sent, visiting, started>>
    BY <1>1 DEF Entry!accountVars
  <2>2. EntryTyped' /\ SuspendedInv'
    BY <2>1 DEF EntryInv, EntryTyped, SuspendedInv, Entry!Suspending
  <2>3. GuessInv' /\ RevealInv' /\ MailInv'
    BY <2>1 DEF EntryInv, GuessInv, RevealInv, Exchanging, MailInv
  <2> QED  BY <2>2, <2>3 DEF EntryInv
<1>2. CASE Entry!Next
  BY <1>2, SessionStepsKeep, SuspensionStepsKeep, MailStepsKeep, TicketMailKeeps, RevealStepsKeep,
     GuessStepsKeep DEF Entry!Next
<1> QED  BY <1>1, <1>2

-----------------------------------------------------------------------------
(* Signed links: views, claims and corrections.                                *)

ReplyRows == [address : Addresses, verified : BOOLEAN, owner : Accounts \cup {None},
              status : {"new", "in_progress", "completed"}, answers : SUBSET (1..MaxRequests),
              flag : BOOLEAN, gone : BOOLEAN]
Asks == [at : {"idle", "issue", "view", "review", "write", "clear", "claim", "attach"},
         r : Replies \cup {None}, l : Links \cup {None}, copy : {None} \cup LinkRows \cup Accounts,
         id : 0..MaxRequests, seen : BOOLEAN, base : SUBSET (1..MaxRequests)]

LinksTyped ==
  /\ reply \in [Replies -> ReplyRows]
  /\ link \in [Links -> {None} \cup LinkRows]
  /\ asking \in [Hands -> Asks]
  /\ \A h \in Hands : /\ asking[h].at \in {"issue", "review", "write", "clear"} => asking[h].r \in Replies
                      /\ asking[h].at \in {"view", "claim", "attach"} =>
                           asking[h].l \in Links /\ link[asking[h].l] # None
  /\ started \in Nat

\* The links that are not revoked, and who is about to store one more.
Open(r) == {l \in Links : link[l] # None /\ link[l].r = r /\ ~link[l].revoked}
Issuing(r) == {h \in Hands : asking[h].at = "issue" /\ asking[h].r = r}
OpenInv ==
  \A r \in Replies : IsFiniteSet(Open(r)) /\ Cardinality(Open(r)) + Cardinality(Issuing(r)) <= Cardinality(Hands)

\* Who claims has the address of the link; who attaches took the link.
ClaimInv ==
  /\ OwnerIsProven /\ ClaimBringsAlong
  /\ \A h \in Hands : asking[h].at \in {"claim", "attach"} =>
       /\ asking[h].copy = Holder[reply[link[asking[h].l].r].address]
       /\ asking[h].at = "attach" => link[asking[h].l].claimed

\* Corrections under way: each has a number of its own; two of one response know of each
\* other; what was answered before is in the answers read; who was told that members
\* looked writes the flag.
Correcting(h) == asking[h].at \in {"review", "write"}
CorrectInv ==
  /\ CorrectionsStay /\ ReviewersKnow
  /\ \A d \in done \cup unseen : d \in Replies \X (1..MaxRequests) /\ d[2] <= started
  /\ \A h \in Hands : Correcting(h) =>
       /\ asking[h].id <= started /\ asking[h].id \in 1..MaxRequests
       /\ <<asking[h].r, asking[h].id>> \notin done
       /\ asking[h].at = "review" => <<asking[h].r, asking[h].id>> \notin unseen
       /\ asking[h].at = "write" /\ <<asking[h].r, asking[h].id>> \in unseen => asking[h].seen
       /\ \A d \in done : d[1] = asking[h].r => d[2] \in overlapped \/ d[2] \in asking[h].base
  /\ \A h, i \in Hands : h # i /\ Correcting(h) /\ Correcting(i) =>
       /\ asking[h].id # asking[i].id
       /\ asking[h].r = asking[i].r => asking[h].id \in overlapped

LinksInv == LinksTyped /\ OpenInv /\ ClaimInv /\ CorrectInv

\* Rows of links never go back, and a response keeps its address.
LinksKept ==
  \A l \in Links : link[l] # None =>
    /\ link'[l] # None /\ link'[l].r = link[l].r
    /\ link[l].revoked => link'[l].revoked
    /\ link[l].claimed => link'[l].claimed
AddressesKept ==
  \A r \in Replies : reply'[r].address = reply[r].address /\ reply'[r].verified = reply[r].verified
\* A request that is somewhere else now.
Turns(h, a) ==
  /\ asking' \in [Hands -> Asks] /\ asking'[h] = a
  /\ \A k \in Hands : k # h => asking'[k] = asking[k]

\* What a step leaves true of the types.
LEMMA TypesKeep ==
  ASSUME LinksTyped, LinksKept, reply' \in [Replies -> ReplyRows], link' \in [Links -> {None} \cup LinkRows],
         started' \in Nat, asking' \in [Hands -> Asks],
         \A h \in Hands : \/ asking'[h] = asking[h]
                          \/ /\ asking'[h].at \in {"issue", "review", "write", "clear"} => asking'[h].r \in Replies
                             /\ asking'[h].at \in {"view", "claim", "attach"} =>
                                  asking'[h].l \in Links /\ link'[asking'[h].l] # None
  PROVE  LinksTyped'
BY DEF LinksTyped, LinksKept

\* A step that stores no link and lets nobody begin to.
LEMMA OpenKeeps ==
  ASSUME OpenInv,
         \A r \in Replies : Open(r)' \subseteq Open(r) /\ Issuing(r)' \subseteq Issuing(r)
  PROVE  OpenInv'
<1> SUFFICES ASSUME NEW r \in Replies
             PROVE  /\ IsFiniteSet(Open(r)')
                    /\ Cardinality(Open(r)') + Cardinality(Issuing(r)') <= Cardinality(Hands)
  BY DEF OpenInv
<1>1. Issuing(r) \subseteq Hands /\ IsFiniteSet(Open(r))
      /\ Cardinality(Open(r)) + Cardinality(Issuing(r)) <= Cardinality(Hands)
  BY DEF Issuing, OpenInv
<1>2. IsFiniteSet(Issuing(r)) /\ Cardinality(Hands) \in Nat
  BY <1>1, SameCount, FS_Subset, FS_CardinalityType
<1>3. /\ IsFiniteSet(Open(r)') /\ Cardinality(Open(r)') <= Cardinality(Open(r))
      /\ IsFiniteSet(Issuing(r)') /\ Cardinality(Issuing(r)') <= Cardinality(Issuing(r))
  BY <1>1, <1>2, FS_Subset
<1>4. /\ Cardinality(Open(r)) \in Nat /\ Cardinality(Open(r)') \in Nat
      /\ Cardinality(Issuing(r)) \in Nat /\ Cardinality(Issuing(r)') \in Nat
  BY <1>1, <1>2, <1>3, FS_CardinalityType
<1> QED  BY <1>1, <1>2, <1>3, <1>4

\* Who could open or store: links that are not revoked.
LEMMA OpenSame ==
  ASSUME LinksTyped, LinksKept,
         \A l \in Links : link'[l] # None => link[l] # None,
         \A h \in Hands : asking'[h] = asking[h] \/ asking'[h].at # "issue"
  PROVE  \A r \in Replies : Open(r)' \subseteq Open(r) /\ Issuing(r)' \subseteq Issuing(r)
BY DEF LinksTyped, LinksKept, Open, Issuing, LinkRows

\* A step that attaches nothing and takes no link.
LEMMA ClaimsKeep ==
  ASSUME LinksTyped, ClaimInv, LinksKept, AddressesKept,
         \A r \in Replies : reply'[r].owner = reply[r].owner,
         \A l \in Links : link'[l] # None /\ link'[l].claimed => link[l] # None /\ link[l].claimed,
         halfway \subseteq halfway',
         \A h \in Hands : /\ asking'[h] = asking[h] \/ asking'[h].at \notin {"claim", "attach"}
                          /\ asking[h].at = "attach" => asking'[h] = asking[h] \/ asking[h].l \in halfway'
  PROVE  ClaimInv'
<1>0. /\ \A l \in Links : link[l] # None => link[l].r \in Replies
      /\ \A h \in Hands : asking[h].at \in {"claim", "attach"} => asking[h].l \in Links /\ link[asking[h].l] # None
  BY DEF LinksTyped, LinkRows
<1>1. OwnerIsProven'
  <2> SUFFICES ASSUME NEW r \in Replies, reply'[r].owner # None
               PROVE  /\ reply'[r].owner = Holder[reply'[r].address]
                      /\ \/ reply'[r].verified
                         \/ \E l \in Links : link'[l] # None /\ link'[l].claimed /\ reply'[link'[l].r].address = reply'[r].address
    BY DEF OwnerIsProven
  <2>1. /\ reply[r].owner = Holder[reply[r].address]
        /\ \/ reply[r].verified
           \/ \E l \in Links : link[l] # None /\ link[l].claimed /\ reply[link[l].r].address = reply[r].address
    BY DEF ClaimInv, OwnerIsProven
  <2> QED  BY <1>0, <2>1 DEF LinksKept, AddressesKept
<1>2. ClaimBringsAlong'
  <2> SUFFICES ASSUME NEW l \in Links, link'[l] # None, link'[l].claimed
               PROVE  \/ reply'[link'[l].r].owner # None
                      \/ l \in halfway'
                      \/ \E h \in Hands : asking'[h].at = "attach" /\ asking'[h].l = l
    BY DEF ClaimBringsAlong
  <2>1. link[l] # None /\ link[l].claimed /\ link'[l].r = link[l].r /\ link[l].r \in Replies
    BY <1>0 DEF LinksKept
  <2>2. \/ reply[link[l].r].owner # None \/ l \in halfway
        \/ \E h \in Hands : asking[h].at = "attach" /\ asking[h].l = l
    BY <2>1 DEF ClaimInv, ClaimBringsAlong
  <2> QED  BY <2>1, <2>2
<1>3. ASSUME NEW h \in Hands, asking'[h].at \in {"claim", "attach"}
      PROVE  /\ asking'[h].copy = Holder[reply'[link'[asking'[h].l].r].address]
             /\ asking'[h].at = "attach" => link'[asking'[h].l].claimed
  <2>1. /\ asking'[h] = asking[h] /\ asking[h].l \in Links /\ link[asking[h].l] # None
        /\ link[asking[h].l].r \in Replies
    BY <1>0, <1>3
  <2> QED  BY <1>3, <2>1 DEF ClaimInv, LinksKept, AddressesKept
<1> QED  BY <1>1, <1>2, <1>3 DEF ClaimInv

\* A step that begins, decides and writes no correction and acknowledges none.
LEMMA CorrectionsKeep ==
  ASSUME CorrectInv, UNCHANGED <<overlapped, done, unseen>>, started \in Nat, started' \in Nat, started' >= started,
         \A r \in Replies : reply'[r].answers = reply[r].answers /\ (reply[r].flag => reply'[r].flag),
         \A h \in Hands : asking'[h] = asking[h] \/ asking'[h].at \notin {"review", "write"}
  PROVE  CorrectInv'
<1>0. \A d \in done \cup unseen : d[1] \in Replies /\ d[2] \in Nat
  BY DEF CorrectInv
<1>1. CorrectionsStay'
  BY <1>0 DEF CorrectInv, CorrectionsStay
<1>2. ReviewersKnow'
  BY <1>0 DEF CorrectInv, ReviewersKnow
<1>3. \A h \in Hands : Correcting(h)' => Correcting(h) /\ asking'[h] = asking[h]
  BY DEF Correcting
<1>4. \A d \in done' \cup unseen' : d \in Replies \X (1..MaxRequests) /\ d[2] <= started'
  BY <1>0 DEF CorrectInv
<1>5. ASSUME NEW h \in Hands, Correcting(h)'
      PROVE  /\ asking'[h].id <= started' /\ asking'[h].id \in 1..MaxRequests
             /\ <<asking'[h].r, asking'[h].id>> \notin done'
             /\ asking'[h].at = "review" => <<asking'[h].r, asking'[h].id>> \notin unseen'
             /\ asking'[h].at = "write" /\ <<asking'[h].r, asking'[h].id>> \in unseen' => asking'[h].seen
             /\ \A d \in done' : d[1] = asking'[h].r => d[2] \in overlapped' \/ d[2] \in asking'[h].base
  BY <1>3, <1>5 DEF CorrectInv
<1>6. ASSUME NEW h \in Hands, NEW i \in Hands, h # i, Correcting(h)', Correcting(i)'
      PROVE  /\ asking'[h].id # asking'[i].id
             /\ asking'[h].r = asking'[i].r => asking'[h].id \in overlapped'
  BY <1>3, <1>6 DEF CorrectInv
<1> QED  BY <1>1, <1>2, <1>4, <1>5, <1>6 DEF CorrectInv

\* The marks of a link.
LEMMA LinkFields ==
  ASSUME NEW a \in LinkRows
  PROVE  /\ LET b == [a EXCEPT !.revoked = TRUE] IN
            b \in LinkRows /\ b # None /\ b.r = a.r /\ b.revoked /\ b.claimed = a.claimed
         /\ LET b == [a EXCEPT !.claimed = TRUE] IN
            b \in LinkRows /\ b # None /\ b.r = a.r /\ b.revoked = a.revoked /\ b.claimed
         /\ LET b == [a EXCEPT !.expired = TRUE] IN
            b \in LinkRows /\ b # None /\ b.r = a.r /\ b.revoked = a.revoked /\ b.claimed = a.claimed
BY DEF LinkRows
\* Nobody asks for anything.
LEMMA WaitingFits == Waiting \in Asks /\ Waiting.at = "idle"
BY DEF Waiting, Asks

\* One request, one response and one link that change.
LEMMA Sets ==
  ASSUME LinksTyped
  PROVE  /\ \A h \in Hands, a \in Asks : asking' = [asking EXCEPT ![h] = a] => Turns(h, a)
         /\ \A r \in Replies, a \in ReplyRows : reply' = [reply EXCEPT ![r] = a] =>
              /\ reply' \in [Replies -> ReplyRows] /\ reply'[r] = a
              /\ \A q \in Replies : q # r => reply'[q] = reply[q]
         /\ \A l \in Links, a \in LinkRows : link' = [link EXCEPT ![l] = a] =>
              /\ link' \in [Links -> {None} \cup LinkRows] /\ link'[l] = a
              /\ \A k \in Links : k # l => link'[k] = link[k]
BY DEF LinksTyped, Turns

\* Links and responses of which nothing changes that the invariants are about, and
\* requests that begin or end what they are not about.
LinkQuiet ==
  /\ link' \in [Links -> {None} \cup LinkRows] /\ LinksKept
  /\ \A l \in Links : link'[l] # None => link[l] # None /\ (link'[l].claimed => link[l].claimed)
ReplyQuiet ==
  /\ reply' \in [Replies -> ReplyRows] /\ AddressesKept
  /\ \A r \in Replies : /\ reply'[r].owner = reply[r].owner /\ reply'[r].answers = reply[r].answers
                        /\ reply'[r].flag = reply[r].flag
AskQuiet ==
  /\ asking' \in [Hands -> Asks] /\ halfway \subseteq halfway'
  /\ \A h \in Hands : asking'[h] # asking[h] =>
       /\ asking'[h].at \in {"idle", "view", "clear"}
       /\ asking'[h].at = "clear" => asking'[h].r \in Replies
       /\ asking'[h].at = "view" => asking'[h].l \in Links /\ link[asking'[h].l] # None
       /\ asking[h].at = "attach" => asking[h].l \in halfway'

\* What stays as it is is quiet; so are a request that settles and one that begins.
LEMMA QuietParts ==
  ASSUME LinksTyped
  PROVE  /\ link' = link => LinkQuiet
         /\ reply' = reply => ReplyQuiet
         /\ asking' = asking /\ halfway \subseteq halfway' => AskQuiet
         /\ \A h \in Hands : Settle(h) /\ halfway \subseteq halfway'
                             /\ (asking[h].at = "attach" => asking[h].l \in halfway') => AskQuiet
         /\ \A h \in Hands, a \in Asks :
              /\ Turns(h, a) /\ asking[h] = Waiting /\ halfway' = halfway
              /\ \/ a.at = "view" /\ a.l \in Links /\ link[a.l] # None
                 \/ a.at = "clear" /\ a.r \in Replies
              => AskQuiet
<1>1. link' = link => LinkQuiet
  BY DEF LinksTyped, LinkQuiet, LinksKept
<1>2. reply' = reply => ReplyQuiet
  BY DEF LinksTyped, ReplyQuiet, AddressesKept
<1>3. asking' = asking /\ halfway \subseteq halfway' => AskQuiet
  BY DEF LinksTyped, AskQuiet
<1>4. ASSUME NEW h \in Hands, Settle(h), halfway \subseteq halfway', asking[h].at = "attach" => asking[h].l \in halfway'
      PROVE  AskQuiet
  <2>1. Turns(h, Waiting)
    BY <1>4, Sets, WaitingFits DEF Settle
  <2> QED  BY <1>4, <2>1, WaitingFits DEF Turns, AskQuiet
<1>5. ASSUME NEW h \in Hands, NEW a \in Asks, Turns(h, a), asking[h] = Waiting, halfway' = halfway,
             \/ a.at = "view" /\ a.l \in Links /\ link[a.l] # None
             \/ a.at = "clear" /\ a.r \in Replies
      PROVE  AskQuiet
  BY <1>5, WaitingFits DEF Turns, AskQuiet
<1> QED  BY <1>1, <1>2, <1>3, <1>4, <1>5

\* The invariants, each from the parts that are quiet.
LEMMA QuietKeeps ==
  ASSUME LinksInv, started' = started \/ started' = started + 1, AskQuiet
  PROVE  /\ LinkQuiet /\ reply' \in [Replies -> ReplyRows] => LinksTyped' /\ OpenInv'
         /\ LinkQuiet /\ ReplyQuiet => ClaimInv'
         /\ ReplyQuiet /\ UNCHANGED <<overlapped, done, unseen>> => CorrectInv'
<1>0. /\ LinksTyped /\ OpenInv /\ ClaimInv /\ CorrectInv
      /\ started \in Nat /\ started' \in Nat /\ started' >= started
  BY DEF LinksInv, LinksTyped
<1>1. ASSUME LinkQuiet, reply' \in [Replies -> ReplyRows]
      PROVE  LinksTyped' /\ OpenInv'
  <2>1. LinksTyped'
    BY <1>0, <1>1, TypesKeep DEF LinkQuiet, AskQuiet, LinksKept
  <2>2. \A r \in Replies : Open(r)' \subseteq Open(r) /\ Issuing(r)' \subseteq Issuing(r)
    BY <1>0, <1>1, OpenSame DEF LinkQuiet, AskQuiet
  <2>3. OpenInv'
    BY <1>0, <2>2, OpenKeeps
  <2> QED  BY <2>1, <2>3
<1>2. ASSUME LinkQuiet, ReplyQuiet
      PROVE  ClaimInv'
  BY <1>0, <1>2, ClaimsKeep DEF LinkQuiet, ReplyQuiet, AskQuiet
<1>3. ASSUME ReplyQuiet, UNCHANGED <<overlapped, done, unseen>>
      PROVE  CorrectInv'
  BY <1>0, <1>3, CorrectionsKeep DEF ReplyQuiet, AskQuiet
<1> QED  BY <1>1, <1>2, <1>3

\* Views, members, time, and requests that are cut short.
LEMMA QuietStepsKeep ==
  ASSUME LinksInv,
         \/ \E h \in Hands : Viewed(h) \/ Cut(h) \/ \E l \in Links : View(h, l)
         \/ \E h \in Hands, r \in Replies : Clear(h, r)
         \/ \E l \in Links : Expire(l)
         \/ \E r \in Replies : OpenOrUnread(r) \/ Trash(r) \/ \E s \in {"new", "in_progress", "completed"} : Move(r, s)
         \/ CloseForm
  PROVE  LinksInv'
<1>0. /\ LinksTyped /\ reply \in [Replies -> ReplyRows] /\ link \in [Links -> {None} \cup LinkRows]
      /\ asking \in [Hands -> Asks]
  BY DEF LinksInv, LinksTyped
<1>1. /\ started' = started \/ started' = started + 1
      /\ UNCHANGED <<overlapped, done, unseen>>
  BY DEF Viewed, Cut, View, Clear, Expire, OpenOrUnread, Trash, Move, CloseForm, Begin, Member, history
<1>2. LinkQuiet
  <2>1. ASSUME NEW l \in Links, Expire(l)
        PROVE  LinkQuiet
    <3> DEFINE row == [link[l] EXCEPT !.expired = TRUE]
    <3>1. link' = [link EXCEPT ![l] = row] /\ link[l] \in LinkRows
      BY <1>0, <2>1 DEF Expire
    <3>2. row \in LinkRows /\ row # None /\ row.r = link[l].r /\ row.revoked = link[l].revoked /\ row.claimed = link[l].claimed
      BY <3>1, LinkFields
    <3> HIDE DEF row
    <3>3. /\ link' \in [Links -> {None} \cup LinkRows] /\ link'[l] = row
          /\ \A k \in Links : k # l => link'[k] = link[k]
      BY <1>0, <3>1, <3>2, Sets
    <3>4. link[l] # None
      BY <2>1 DEF Expire
    <3>5. ASSUME NEW k \in Links
          PROVE  /\ link[k] # None => /\ link'[k] # None /\ link'[k].r = link[k].r
                                      /\ link[k].revoked => link'[k].revoked
                                      /\ link[k].claimed => link'[k].claimed
                 /\ link'[k] # None => link[k] # None /\ (link'[k].claimed => link[k].claimed)
      <4>1. CASE k = l
        BY <3>2, <3>3, <3>4, <4>1
      <4>2. CASE k # l
        BY <3>3, <4>2
      <4> QED  BY <4>1, <4>2
    <3> QED  BY <3>3, <3>5 DEF LinkQuiet, LinksKept
  <2>2. link' = link \/ \E l \in Links : Expire(l)
    BY <1>0 DEF Viewed, Touched, Cut, View, Clear, OpenOrUnread, Trash, Move, CloseForm
  <2> QED  BY <1>0, <2>1, <2>2, QuietParts
<1>3. ReplyQuiet
  <2>1. \/ reply' = reply
        \/ \E r \in Replies : \/ reply' = [reply EXCEPT ![r].gone = TRUE]
                              \/ \E s \in {"new", "in_progress", "completed"} : reply' = [reply EXCEPT ![r].status = s]
    BY DEF Viewed, Cut, View, Clear, Expire, OpenOrUnread, Trash, Move, CloseForm
  <2>2. ASSUME NEW r \in Replies, NEW row \in ReplyRows, reply' = [reply EXCEPT ![r] = row],
               row.address = reply[r].address /\ row.verified = reply[r].verified,
               row.owner = reply[r].owner /\ row.answers = reply[r].answers /\ row.flag = reply[r].flag
        PROVE  ReplyQuiet
    <3>1. /\ reply' \in [Replies -> ReplyRows] /\ reply'[r] = row
          /\ \A q \in Replies : q # r => reply'[q] = reply[q]
      BY <1>0, <2>2, Sets
    <3> QED  BY <2>2, <3>1 DEF ReplyQuiet, AddressesKept
  <2>3. ASSUME NEW r \in Replies, reply' = [reply EXCEPT ![r].gone = TRUE]
        PROVE  ReplyQuiet
    <3> DEFINE row == [reply[r] EXCEPT !.gone = TRUE]
    <3>1. reply' = [reply EXCEPT ![r] = row]
      BY <2>3
    <3>2. /\ row \in ReplyRows /\ row.address = reply[r].address /\ row.verified = reply[r].verified
          /\ row.owner = reply[r].owner /\ row.answers = reply[r].answers /\ row.flag = reply[r].flag
      BY <1>0 DEF ReplyRows
    <3> HIDE DEF row
    <3> QED  BY <2>2, <3>1, <3>2
  <2>4. ASSUME NEW r \in Replies, NEW s \in {"new", "in_progress", "completed"}, reply' = [reply EXCEPT ![r].status = s]
        PROVE  ReplyQuiet
    <3> DEFINE row == [reply[r] EXCEPT !.status = s]
    <3>1. reply' = [reply EXCEPT ![r] = row]
      BY <2>4
    <3>2. /\ row \in ReplyRows /\ row.address = reply[r].address /\ row.verified = reply[r].verified
          /\ row.owner = reply[r].owner /\ row.answers = reply[r].answers /\ row.flag = reply[r].flag
      BY <1>0 DEF ReplyRows
    <3> HIDE DEF row
    <3> QED  BY <2>2, <3>1, <3>2
  <2> QED  BY <1>0, <2>1, <2>3, <2>4, QuietParts
<1>4. AskQuiet
  <2>1. ASSUME NEW h \in Hands, Viewed(h) \/ Cut(h)
        PROVE  AskQuiet
    <3>1. Settle(h) /\ halfway \subseteq halfway' /\ (asking[h].at = "attach" => asking[h].l \in halfway')
      BY <2>1 DEF Viewed, Cut, history
    <3> QED  BY <1>0, <3>1, QuietParts
  <2>2. ASSUME NEW h \in Hands, NEW l \in Links, View(h, l)
        PROVE  AskQuiet
    <3> DEFINE a1 == [Waiting EXCEPT !.at = "view"]
               a2 == [a1 EXCEPT !.l = l]
               a3 == [a2 EXCEPT !.copy = link[l]]
    <3>1. asking' = [asking EXCEPT ![h] = a3] /\ asking[h] = Waiting /\ halfway' = halfway /\ link[l] # None
      BY <2>2 DEF View, Begin, history, Valid
    <3>2. a1 \in Asks /\ a1.at = "view"
      BY WaitingFits DEF Asks
    <3> HIDE DEF a1
    <3>3. a2 \in Asks /\ a2.at = "view" /\ a2.l = l
      BY <3>2 DEF Asks
    <3> HIDE DEF a2
    <3>4. link[l] \in LinkRows
      BY <1>0, <3>1
    <3>5. a3 \in Asks /\ a3.at = "view" /\ a3.l = l
      BY <3>3, <3>4 DEF Asks
    <3> HIDE DEF a3
    <3>6. Turns(h, a3)
      BY <1>0, <3>1, <3>5, Sets
    <3> QED  BY <1>0, <3>1, <3>5, <3>6, QuietParts
  <2>3. ASSUME NEW h \in Hands, NEW r \in Replies, Clear(h, r)
        PROVE  AskQuiet
    <3> DEFINE a1 == [Waiting EXCEPT !.at = "clear"]
               a2 == [a1 EXCEPT !.r = r]
    <3>1. asking' = [asking EXCEPT ![h] = a2] /\ asking[h] = Waiting /\ halfway' = halfway
      BY <2>3 DEF Clear, Begin, history
    <3>2. a1 \in Asks /\ a1.at = "clear"
      BY WaitingFits DEF Asks
    <3> HIDE DEF a1
    <3>3. a2 \in Asks /\ a2.at = "clear" /\ a2.r = r
      BY <3>2 DEF Asks
    <3> HIDE DEF a2
    <3>4. Turns(h, a2)
      BY <1>0, <3>1, <3>3, Sets
    <3> QED  BY <1>0, <3>1, <3>3, <3>4, QuietParts
  <2>4. \/ asking' = asking /\ halfway' = halfway
        \/ \E h \in Hands : Viewed(h) \/ Cut(h) \/ \E l \in Links : View(h, l)
        \/ \E h \in Hands, r \in Replies : Clear(h, r)
    BY DEF Expire, OpenOrUnread, Trash, Move, CloseForm, history
  <2> QED  BY <1>0, <2>1, <2>2, <2>3, <2>4, QuietParts
<1> QED  BY <1>0, <1>1, <1>2, <1>3, <1>4, QuietKeeps DEF LinksInv, ReplyQuiet

\* A link is rotated: all of the response are revoked, then one is stored.
LEMMA IssueKeeps ==
  ASSUME LinksInv, NEW h \in Hands, NEW r \in Replies, Issue(h, r)
  PROVE  LinksInv'
<1> DEFINE a1 == [Waiting EXCEPT !.at = "issue"]
           a2 == [a1 EXCEPT !.r = r]
<1>0. /\ LinksTyped /\ OpenInv /\ ClaimInv /\ CorrectInv /\ reply \in [Replies -> ReplyRows]
      /\ link \in [Links -> {None} \cup LinkRows] /\ started \in Nat
  BY DEF LinksInv, LinksTyped
<1>1. /\ asking' = [asking EXCEPT ![h] = a2] /\ asking[h] = Waiting /\ link' = RevokedBefore(r)
      /\ started' = started + 1 /\ UNCHANGED <<reply, overlapped, done, unseen, halfway>>
  BY DEF Issue, Begin, history
<1>2. a1 \in Asks /\ a1.at = "issue"
  BY WaitingFits DEF Asks
<1> HIDE DEF a1
<1>3. a2 \in Asks /\ a2.at = "issue" /\ a2.r = r
  BY <1>2 DEF Asks
<1> HIDE DEF a2
<1>4. Turns(h, a2)
  BY <1>0, <1>1, <1>3, Sets
<1>5. ASSUME NEW l \in Links
      PROVE  /\ link'[l] \in {None} \cup LinkRows
             /\ link[l] = None => link'[l] = None
             /\ link[l] # None => /\ link'[l] # None /\ link'[l].r = link[l].r
                                  /\ link[l].revoked => link'[l].revoked
                                  /\ link[l].claimed = link'[l].claimed
             /\ link[l] # None /\ link[l].r = r => link'[l].revoked
  <2> DEFINE row == [link[l] EXCEPT !.revoked = TRUE]
  <2>1. CASE link[l] # None /\ link[l].r = r
    <3>1. link'[l] = row /\ link[l] \in LinkRows
      BY <1>0, <1>1, <2>1 DEF RevokedBefore
    <3>2. row \in LinkRows /\ row # None /\ row.r = link[l].r /\ row.revoked /\ row.claimed = link[l].claimed
      BY <3>1, LinkFields
    <3> HIDE DEF row
    <3> QED  BY <2>1, <3>1, <3>2
  <2>2. CASE ~(link[l] # None /\ link[l].r = r)
    <3>1. link'[l] = link[l]
      BY <1>1, <2>2 DEF RevokedBefore
    <3> QED  BY <1>0, <2>2, <3>1
  <2> QED  BY <2>1, <2>2
<1>6. link' \in [Links -> {None} \cup LinkRows] /\ LinksKept
  <2>1. link' = [l \in Links |-> link'[l]]
    BY <1>1 DEF RevokedBefore
  <2> QED  BY <1>5, <2>1 DEF LinksKept
<1>7. LinksTyped'
  BY <1>0, <1>1, <1>3, <1>4, <1>6, TypesKeep DEF Turns
<1>8. OpenInv'
  <2> SUFFICES ASSUME NEW q \in Replies
               PROVE  /\ IsFiniteSet(Open(q)')
                      /\ Cardinality(Open(q)') + Cardinality(Issuing(q)') <= Cardinality(Hands)
    BY DEF OpenInv
  <2>1. /\ Issuing(q) \subseteq Hands /\ Issuing(q)' \subseteq Hands /\ IsFiniteSet(Open(q))
        /\ Cardinality(Open(q)) + Cardinality(Issuing(q)) <= Cardinality(Hands)
    BY <1>0 DEF Issuing, OpenInv
  <2>2. /\ Cardinality(Hands) \in Nat /\ IsFiniteSet(Issuing(q)) /\ Cardinality(Issuing(q)) \in Nat
        /\ Cardinality(Issuing(q)') \in Nat /\ Cardinality(Issuing(q)') <= Cardinality(Hands)
        /\ Cardinality(Open(q)) \in Nat
    BY <2>1, SameCount, FS_Subset, FS_CardinalityType
  <2>3. CASE q = r
    <3>1. Open(q)' = {}
      BY <1>5, <2>3 DEF Open
    <3>2. IsFiniteSet(Open(q)') /\ Cardinality(Open(q)') = 0
      BY <3>1, FS_EmptySet
    <3> QED  BY <2>2, <3>2
  <2>4. CASE q # r
    <3>1. Open(q)' \subseteq Open(q)
      BY <1>5 DEF Open
    <3>2. Issuing(q)' \subseteq Issuing(q)
      BY <1>3, <1>4, <2>4 DEF Issuing, Turns
    <3>3. /\ IsFiniteSet(Open(q)') /\ Cardinality(Open(q)') <= Cardinality(Open(q))
          /\ Cardinality(Issuing(q)') <= Cardinality(Issuing(q)) /\ Cardinality(Open(q)') \in Nat
      BY <2>1, <2>2, <3>1, <3>2, FS_Subset, FS_CardinalityType
    <3> QED  BY <2>1, <2>2, <3>3
  <2> QED  BY <2>3, <2>4
<1>9. ClaimInv'
  <2>1. asking[h].at # "attach"
    BY <1>1, WaitingFits
  <2> QED  BY <1>0, <1>1, <1>3, <1>4, <1>5, <1>6, <2>1, ClaimsKeep DEF Turns, AddressesKept
<1>10. CorrectInv'
  BY <1>0, <1>1, <1>3, <1>4, CorrectionsKeep DEF Turns
<1> QED  BY <1>7, <1>8, <1>9, <1>10 DEF LinksInv

\* One more link is open than before, and one request less is about to store one.
LEMMA IssuedKeeps ==
  ASSUME LinksInv, NEW h \in Hands, NEW l \in Links, Issued(h, l)
  PROVE  LinksInv'
<1> DEFINE r == asking[h].r
           row == [r |-> r, revoked |-> FALSE, claimed |-> FALSE, expired |-> FALSE]
<1>0. /\ LinksTyped /\ OpenInv /\ ClaimInv /\ CorrectInv /\ reply \in [Replies -> ReplyRows]
      /\ link \in [Links -> {None} \cup LinkRows] /\ started \in Nat
  BY DEF LinksInv, LinksTyped
<1>1. /\ asking[h].at = "issue" /\ r \in Replies /\ link[l] = None /\ Settle(h)
      /\ link' = [link EXCEPT ![l] = row]
      /\ UNCHANGED <<reply, started, overlapped, done, unseen, halfway>>
  BY <1>0 DEF Issued, history, LinksTyped
<1>2. row \in LinkRows /\ row # None /\ row.r = r /\ ~row.revoked /\ ~row.claimed
  <2>1. row \in LinkRows
    BY <1>1 DEF LinkRows
  <2>2. row.r = r /\ row.revoked = FALSE /\ row.claimed = FALSE
    OBVIOUS
  <2> QED  BY <2>1, <2>2
<1> HIDE DEF row
<1>3. Turns(h, Waiting)
  BY <1>0, <1>1, WaitingFits, Sets DEF Settle
<1>4. /\ link' \in [Links -> {None} \cup LinkRows] /\ link'[l] = row
      /\ \A k \in Links : k # l => link'[k] = link[k]
  BY <1>0, <1>1, <1>2, Sets
<1>5. LinksKept
  BY <1>1, <1>4 DEF LinksKept
<1>6. LinksTyped'
  BY <1>0, <1>1, <1>3, <1>4, <1>5, WaitingFits, TypesKeep DEF Turns
<1>7. OpenInv'
  <2> SUFFICES ASSUME NEW q \in Replies
               PROVE  /\ IsFiniteSet(Open(q)')
                      /\ Cardinality(Open(q)') + Cardinality(Issuing(q)') <= Cardinality(Hands)
    BY DEF OpenInv
  <2>1. /\ Issuing(q) \subseteq Hands /\ IsFiniteSet(Open(q))
        /\ Cardinality(Open(q)) + Cardinality(Issuing(q)) <= Cardinality(Hands)
    BY <1>0 DEF Issuing, OpenInv
  <2>2. /\ Cardinality(Hands) \in Nat /\ IsFiniteSet(Issuing(q)) /\ Cardinality(Issuing(q)) \in Nat
        /\ Cardinality(Open(q)) \in Nat
    BY <2>1, SameCount, FS_Subset, FS_CardinalityType
  <2>3. CASE q = r
    <3>1. Open(q)' = Open(q) \cup {l} /\ l \notin Open(q)
      BY <1>1, <1>2, <1>4, <2>3 DEF Open
    <3>2. Issuing(q)' = Issuing(q) \ {h} /\ h \in Issuing(q)
      BY <1>1, <1>3, <2>3, WaitingFits DEF Issuing, Turns
    <3>3. IsFiniteSet(Open(q)') /\ Cardinality(Open(q)') <= Cardinality(Open(q)) + 1
      BY <2>1, <3>1, Counting
    <3>4. Cardinality(Issuing(q)') = Cardinality(Issuing(q)) - 1
      BY <2>2, <3>2, Counting
    <3>5. Cardinality(Open(q)') \in Nat
      BY <3>3, FS_CardinalityType
    <3> QED  BY <2>1, <2>2, <3>3, <3>4, <3>5
  <2>4. CASE q # r
    <3>1. Open(q)' \subseteq Open(q)
      BY <1>2, <1>4, <2>4 DEF Open
    <3>2. Issuing(q)' \subseteq Issuing(q)
      BY <1>3, WaitingFits DEF Issuing, Turns
    <3>3. /\ IsFiniteSet(Open(q)') /\ Cardinality(Open(q)') <= Cardinality(Open(q))
          /\ IsFiniteSet(Issuing(q)') /\ Cardinality(Issuing(q)') <= Cardinality(Issuing(q))
      BY <2>1, <2>2, <3>1, <3>2, FS_Subset
    <3>4. Cardinality(Open(q)') \in Nat /\ Cardinality(Issuing(q)') \in Nat
      BY <3>3, FS_CardinalityType
    <3> QED  BY <2>1, <2>2, <3>3, <3>4
  <2> QED  BY <2>3, <2>4
<1>8. ClaimInv'
  <2>1. \A k \in Links : link'[k] # None /\ link'[k].claimed => link[k] # None /\ link[k].claimed
    BY <1>2, <1>4
  <2> QED  BY <1>0, <1>1, <1>3, <1>5, <2>1, WaitingFits, ClaimsKeep DEF Turns, AddressesKept
<1>9. CorrectInv'
  BY <1>0, <1>1, <1>3, WaitingFits, CorrectionsKeep DEF Turns
<1> QED  BY <1>6, <1>7, <1>8, <1>9 DEF LinksInv

\* Owners that are given: to the account that has the address, when it was verified or
\* a link mailed to it was claimed.
LEMMA OwnersGiven ==
  ASSUME LinksTyped, ClaimInv, LinksKept, AddressesKept,
         \A r \in Replies :
           \/ reply'[r].owner = reply[r].owner
           \/ /\ reply[r].owner = None /\ reply'[r].owner = Holder[reply[r].address]
              /\ \/ reply[r].verified
                 \/ \E l \in Links : link[l] # None /\ link[l].claimed /\ reply[link[l].r].address = reply[r].address
  PROVE  OwnerIsProven'
<1>0. \A l \in Links : link[l] # None => link[l].r \in Replies
  BY DEF LinksTyped, LinkRows
<1> SUFFICES ASSUME NEW r \in Replies, reply'[r].owner # None
             PROVE  /\ reply'[r].owner = Holder[reply'[r].address]
                    /\ \/ reply'[r].verified
                       \/ \E l \in Links : link'[l] # None /\ link'[l].claimed /\ reply'[link'[l].r].address = reply'[r].address
  BY DEF OwnerIsProven
<1>1. /\ reply'[r].owner = Holder[reply[r].address]
      /\ \/ reply[r].verified
         \/ \E l \in Links : link[l] # None /\ link[l].claimed /\ reply[link[l].r].address = reply[r].address
  BY DEF ClaimInv, OwnerIsProven
<1> QED  BY <1>0, <1>1 DEF LinksKept, AddressesKept

\* Every address has an account, and that is somebody.
LEMMA HolderIs == \A r \in Replies : reply \in [Replies -> ReplyRows] =>
  /\ Holder[reply[r].address] \in Accounts /\ Holder[reply[r].address] # None
<1> SUFFICES ASSUME NEW r \in Replies, reply \in [Replies -> ReplyRows]
             PROVE  Holder[reply[r].address] \in Accounts /\ Holder[reply[r].address] # None
  OBVIOUS
<1>1. reply[r].address \in Addresses
  BY DEF ReplyRows
<1>2. Holder[reply[r].address] \in Accounts
  BY <1>1 DEF Accounts
<1> QED  BY <1>2

\* A claim begins for the account with the address.
LEMMA ClaimKeeps ==
  ASSUME LinksInv, NEW h \in Hands, NEW l \in Links, NEW a \in Accounts, Claim(h, l, a)
  PROVE  LinksInv'
<1> DEFINE a1 == [Waiting EXCEPT !.at = "claim"]
           a2 == [a1 EXCEPT !.l = l]
           a3 == [a2 EXCEPT !.copy = a]
<1>0. /\ LinksTyped /\ OpenInv /\ ClaimInv /\ CorrectInv /\ reply \in [Replies -> ReplyRows]
      /\ link \in [Links -> {None} \cup LinkRows] /\ started \in Nat
  BY DEF LinksInv, LinksTyped
<1>1. /\ asking' = [asking EXCEPT ![h] = a3] /\ asking[h] = Waiting
      /\ link[l] # None /\ a = Holder[reply[link[l].r].address]
      /\ started' = started + 1 /\ UNCHANGED <<reply, link, overlapped, done, unseen, halfway>>
  BY DEF Claim, Begin, Valid, Claimant, history
<1>2. a1 \in Asks /\ a1.at = "claim"
  BY WaitingFits DEF Asks
<1> HIDE DEF a1
<1>3. a2 \in Asks /\ a2.at = "claim" /\ a2.l = l
  BY <1>2 DEF Asks
<1> HIDE DEF a2
<1>4. a3 \in Asks /\ a3.at = "claim" /\ a3.l = l /\ a3.copy = a
  BY <1>3 DEF Asks
<1> HIDE DEF a3
<1>5. Turns(h, a3)
  BY <1>0, <1>1, <1>4, Sets
<1>6. LinksKept /\ AddressesKept
  BY <1>1 DEF LinksKept, AddressesKept
<1>7. LinksTyped'
  BY <1>0, <1>1, <1>4, <1>5, <1>6, TypesKeep DEF Turns
<1>8. OpenInv'
  <2>1. \A r \in Replies : Open(r)' \subseteq Open(r) /\ Issuing(r)' \subseteq Issuing(r)
    BY <1>0, <1>1, <1>4, <1>5, <1>6, OpenSame DEF Turns
  <2> QED  BY <1>0, <2>1, OpenKeeps
<1>9. ClaimInv'
  <2>1. OwnerIsProven'
    BY <1>1, <1>0 DEF ClaimInv, OwnerIsProven
  <2>2. ClaimBringsAlong'
    <3>1. \A k \in Hands : asking[k].at = "attach" => asking'[k] = asking[k]
      BY <1>1, <1>5, WaitingFits DEF Turns
    <3> QED  BY <1>0, <1>1, <3>1 DEF ClaimInv, ClaimBringsAlong
  <2>3. ASSUME NEW k \in Hands, asking'[k].at \in {"claim", "attach"}
        PROVE  /\ asking'[k].copy = Holder[reply'[link'[asking'[k].l].r].address]
               /\ asking'[k].at = "attach" => link'[asking'[k].l].claimed
    <3>1. CASE k = h
      BY <1>1, <1>4, <1>5, <3>1 DEF Turns
    <3>2. CASE k # h
      BY <1>0, <1>1, <1>5, <2>3, <3>2 DEF Turns, ClaimInv
    <3> QED  BY <3>1, <3>2
  <2> QED  BY <2>1, <2>2, <2>3 DEF ClaimInv
<1>10. CorrectInv'
  BY <1>0, <1>1, <1>4, <1>5, CorrectionsKeep DEF Turns
<1> QED  BY <1>7, <1>8, <1>9, <1>10 DEF LinksInv

\* One claim takes the link; whoever finds it taken leaves.
LEMMA ClaimedKeeps ==
  ASSUME LinksInv, NEW h \in Hands, Claimed(h)
  PROVE  LinksInv'
<1> DEFINE l == asking[h].l
           row == [link[l] EXCEPT !.claimed = TRUE]
           a == [asking[h] EXCEPT !.at = "attach"]
<1>0. /\ LinksTyped /\ OpenInv /\ ClaimInv /\ CorrectInv /\ reply \in [Replies -> ReplyRows]
      /\ link \in [Links -> {None} \cup LinkRows] /\ started \in Nat /\ asking \in [Hands -> Asks]
  BY DEF LinksInv, LinksTyped
<1>1. /\ asking[h].at = "claim" /\ l \in Links /\ link[l] # None /\ link[l] \in LinkRows
      /\ UNCHANGED <<reply, started, overlapped, done, unseen, halfway>>
  BY <1>0 DEF Claimed, history, LinksTyped
<1>2. CASE link[l].claimed
  <2>1. Settle(h) /\ link' = link
    BY <1>2 DEF Claimed
  <2>2. LinkQuiet /\ ReplyQuiet /\ AskQuiet
    BY <1>0, <1>1, <2>1, QuietParts
  <2> QED  BY <1>1, <2>2, QuietKeeps DEF LinksInv, ReplyQuiet
<1>3. CASE ~link[l].claimed
  <2>1. link' = [link EXCEPT ![l] = row] /\ asking' = [asking EXCEPT ![h] = a]
    BY <1>3 DEF Claimed
  <2>2. row \in LinkRows /\ row # None /\ row.r = link[l].r /\ row.revoked = link[l].revoked /\ row.claimed
    BY <1>1, LinkFields
  <2>3. a \in Asks /\ a.at = "attach" /\ a.l = l /\ a.copy = asking[h].copy
    BY <1>0 DEF Asks
  <2> HIDE DEF row, a
  <2>4. Turns(h, a)
    BY <1>0, <2>1, <2>3, Sets
  <2>5. /\ link' \in [Links -> {None} \cup LinkRows] /\ link'[l] = row
        /\ \A k \in Links : k # l => link'[k] = link[k]
    BY <1>0, <1>1, <2>1, <2>2, Sets
  <2>6. LinksKept /\ AddressesKept
    BY <1>1, <2>2, <2>5 DEF LinksKept, AddressesKept
  <2>7. LinksTyped'
    BY <1>0, <1>1, <2>2, <2>3, <2>4, <2>5, <2>6, TypesKeep DEF Turns
  <2>8. OpenInv'
    <3>1. \A r \in Replies : Open(r)' \subseteq Open(r) /\ Issuing(r)' \subseteq Issuing(r)
      BY <1>0, <1>1, <2>3, <2>4, <2>5, <2>6, OpenSame DEF Turns
    <3> QED  BY <1>0, <3>1, OpenKeeps
  <2>9. OwnerIsProven'
    BY <1>0, <1>1, <2>6, OwnersGiven
  <2>10. ClaimBringsAlong'
    <3> SUFFICES ASSUME NEW k \in Links, link'[k] # None, link'[k].claimed
                 PROVE  \/ reply[link'[k].r].owner # None
                        \/ k \in halfway
                        \/ \E i \in Hands : asking'[i].at = "attach" /\ asking'[i].l = k
      BY <1>1 DEF ClaimBringsAlong
    <3>1. CASE k = l
      BY <2>3, <2>4, <3>1 DEF Turns
    <3>2. CASE k # l
      <4>1. \/ reply[link[k].r].owner # None \/ k \in halfway
            \/ \E i \in Hands : asking[i].at = "attach" /\ asking[i].l = k
        BY <1>0, <2>5, <3>2 DEF ClaimInv, ClaimBringsAlong
      <4> QED  BY <1>1, <2>4, <2>5, <3>2, <4>1 DEF Turns
    <3> QED  BY <3>1, <3>2
  <2>11. ASSUME NEW k \in Hands, asking'[k].at \in {"claim", "attach"}
         PROVE  /\ asking'[k].copy = Holder[reply'[link'[asking'[k].l].r].address]
                /\ asking'[k].at = "attach" => link'[asking'[k].l].claimed
    <3>1. CASE k = h
      <4>1. asking[h].copy = Holder[reply[link[l].r].address]
        BY <1>0, <1>1 DEF ClaimInv
      <4> QED  BY <1>1, <2>2, <2>3, <2>4, <2>5, <3>1, <4>1 DEF Turns
    <3>2. CASE k # h
      <4>1. asking'[k] = asking[k] /\ asking[k].l \in Links /\ link[asking[k].l] # None
        BY <1>0, <2>4, <2>11, <3>2 DEF Turns, LinksTyped
      <4> QED  BY <1>0, <1>1, <2>6, <2>11, <4>1 DEF ClaimInv, LinksKept
    <3> QED  BY <3>1, <3>2
  <2>12. ClaimInv'
    BY <2>9, <2>10, <2>11 DEF ClaimInv
  <2>13. CorrectInv'
    BY <1>0, <1>1, <2>3, <2>4, CorrectionsKeep DEF Turns
  <2> QED  BY <2>7, <2>8, <2>12, <2>13 DEF LinksInv
<1> QED  BY <1>2, <1>3

\* Responses get an owner.
Given(G, x) == reply' = [r \in Replies |-> IF r \in G THEN [reply[r] EXCEPT !.owner = x[r]] ELSE reply[r]]

\* Owners that are given leave everything else of the responses alone.
LEMMA GivenOwners ==
  ASSUME LinksTyped, NEW G \in SUBSET Replies, NEW x \in [Replies -> Accounts], Given(G, x)
  PROVE  /\ reply' \in [Replies -> ReplyRows] /\ AddressesKept
         /\ \A r \in Replies : /\ reply'[r].answers = reply[r].answers /\ reply'[r].flag = reply[r].flag
                               /\ reply'[r].owner = IF r \in G THEN x[r] ELSE reply[r].owner
<1>2. ASSUME NEW r \in Replies
      PROVE  /\ reply'[r] \in ReplyRows /\ reply'[r].address = reply[r].address
             /\ reply'[r].verified = reply[r].verified
             /\ reply'[r].answers = reply[r].answers /\ reply'[r].flag = reply[r].flag
             /\ reply'[r].owner = IF r \in G THEN x[r] ELSE reply[r].owner
  <2>1. reply[r] \in ReplyRows /\ x[r] \in Accounts
    BY DEF LinksTyped
  <2>2. CASE r \in G
    <3>1. reply'[r] = [reply[r] EXCEPT !.owner = x[r]]
      BY <2>2 DEF Given
    <3> QED  BY <2>1, <2>2, <3>1 DEF ReplyRows
  <2>3. CASE r \notin G
    BY <2>1, <2>3 DEF Given
  <2> QED  BY <2>2, <2>3
<1>3. reply' = [r \in Replies |-> reply'[r]]
  BY DEF Given
<1> QED  BY <1>2, <1>3 DEF AddressesKept

\* The responses of the address that have a link, or that are verified, get their owner.
LEMMA AttachKeeps ==
  ASSUME LinksInv, (\E h \in Hands : Attach(h)) \/ \E e \in Addresses : ListMine(e)
  PROVE  LinksInv'
<1>0. /\ LinksTyped /\ OpenInv /\ ClaimInv /\ CorrectInv /\ reply \in [Replies -> ReplyRows]
      /\ link \in [Links -> {None} \cup LinkRows] /\ started \in Nat /\ asking \in [Hands -> Asks]
  BY DEF LinksInv, LinksTyped
<1>1. /\ UNCHANGED <<link, started, overlapped, done, unseen, halfway>> /\ LinksKept
  BY DEF Attach, ListMine, history, LinksKept
<1>2. ASSUME NEW h \in Hands, Attach(h)
      PROVE  LinksInv'
  <2> DEFINE l == asking[h].l
             e == reply[link[l].r].address
             G == {r \in Replies : Attachable(r, e) /\ reply[r].owner = None}
             x == [r \in Replies |-> asking[h].copy]
  <2>1. /\ asking[h].at = "attach" /\ Settle(h) /\ l \in Links /\ link[l] # None /\ link[l] \in LinkRows
        /\ link[l].r \in Replies
    BY <1>0, <1>2 DEF Attach, LinksTyped, LinkRows
  <2>2. asking[h].copy = Holder[e] /\ Holder[e] \in Accounts /\ Holder[e] # None /\ link[l].claimed
    BY <1>0, <2>1, HolderIs DEF ClaimInv
  <2>3. reply' = [r \in Replies |-> IF Attachable(r, e) /\ reply[r].owner = None THEN [reply[r] EXCEPT !.owner = asking[h].copy] ELSE reply[r]]
    BY <1>2 DEF Attach
  <2>4. Given(G, x)
    BY <2>3 DEF Given
  <2>5. G \in SUBSET Replies /\ x \in [Replies -> Accounts] /\ \A r \in Replies : x[r] = Holder[e]
    BY <2>2
  <2>6. \A r \in Replies : r \in G <=> Attachable(r, e) /\ reply[r].owner = None
    OBVIOUS
  <2> HIDE DEF G, x
  <2>7. /\ reply' \in [Replies -> ReplyRows] /\ AddressesKept
        /\ \A r \in Replies : /\ reply'[r].answers = reply[r].answers /\ reply'[r].flag = reply[r].flag
                              /\ reply'[r].owner = IF r \in G THEN x[r] ELSE reply[r].owner
    BY <1>0, <2>4, <2>5, GivenOwners
  <2>8. Turns(h, Waiting)
    BY <1>0, <2>1, WaitingFits, Sets DEF Settle
  <2>9. LinksTyped'
    BY <1>0, <1>1, <2>7, <2>8, WaitingFits, TypesKeep DEF Turns
  <2>10. OpenInv'
    <3>1. \A r \in Replies : Open(r)' \subseteq Open(r) /\ Issuing(r)' \subseteq Issuing(r)
      BY <1>0, <1>1, <2>8, WaitingFits, OpenSame DEF Turns
    <3> QED  BY <1>0, <3>1, OpenKeeps
  <2>11. CorrectInv'
    BY <1>0, <1>1, <2>7, <2>8, WaitingFits, CorrectionsKeep DEF Turns
  <2>12. OwnerIsProven'
    <3>1. \A r \in G : reply[r].owner = None /\ reply[r].address = e
      BY <2>5, <2>6 DEF Attachable
    <3>2. \A r \in Replies :
            \/ reply'[r].owner = reply[r].owner
            \/ /\ reply[r].owner = None /\ reply'[r].owner = Holder[reply[r].address]
               /\ \E k \in Links : link[k] # None /\ link[k].claimed /\ reply[link[k].r].address = reply[r].address
      BY <2>1, <2>2, <2>5, <2>7, <3>1
    <3> QED  BY <1>0, <1>1, <2>7, <3>2, OwnersGiven
  <2>13. ClaimBringsAlong'
    <3> SUFFICES ASSUME NEW k \in Links, link[k] # None, link[k].claimed
                 PROVE  \/ reply'[link[k].r].owner # None
                        \/ k \in halfway
                        \/ \E i \in Hands : asking'[i].at = "attach" /\ asking'[i].l = k
      BY <1>1 DEF ClaimBringsAlong
    <3>0. link[k].r \in Replies
      BY <1>0 DEF LinkRows
    <3>1. CASE k = l
      <4>1. Attachable(link[l].r, e)
        BY <2>1 DEF Attachable
      <4>2. reply'[link[l].r].owner # None
        BY <2>1, <2>2, <2>5, <2>6, <2>7, <4>1
      <4> QED  BY <3>1, <4>2
    <3>2. CASE k # l
      <4>1. \/ reply[link[k].r].owner # None \/ k \in halfway
            \/ \E i \in Hands : asking[i].at = "attach" /\ asking[i].l = k
        BY <1>0 DEF ClaimInv, ClaimBringsAlong
      <4>2. reply[link[k].r].owner # None => reply'[link[k].r].owner # None
        BY <2>2, <2>5, <2>7, <3>0
      <4>3. \A i \in Hands : asking[i].at = "attach" /\ asking[i].l = k => asking'[i] = asking[i]
        BY <2>8, <3>2 DEF Turns
      <4> QED  BY <4>1, <4>2, <4>3
    <3> QED  BY <3>1, <3>2
  <2>14. ASSUME NEW k \in Hands, asking'[k].at \in {"claim", "attach"}
         PROVE  /\ asking'[k].copy = Holder[reply'[link'[asking'[k].l].r].address]
                /\ asking'[k].at = "attach" => link'[asking'[k].l].claimed
    <3>1. k # h
      BY <2>8, <2>14, WaitingFits DEF Turns
    <3>2. /\ asking'[k] = asking[k] /\ asking[k].l \in Links /\ link[asking[k].l] # None
          /\ link[asking[k].l].r \in Replies
      BY <1>0, <2>8, <2>14, <3>1 DEF Turns, LinksTyped, LinkRows
    <3> QED  BY <1>0, <1>1, <2>7, <2>14, <3>2 DEF ClaimInv, AddressesKept
  <2>15. ClaimInv'
    BY <2>12, <2>13, <2>14 DEF ClaimInv
  <2> QED  BY <2>9, <2>10, <2>11, <2>15 DEF LinksInv
<1>3. ASSUME NEW e \in Addresses, ListMine(e)
      PROVE  LinksInv'
  <2> DEFINE G == {r \in Replies : Attaches(r, e) /\ reply[r].owner = None}
             x == [r \in Replies |-> Holder[e]]
  <2>1. Holder[e] \in Accounts /\ asking' = asking
    BY <1>3 DEF Accounts, ListMine
  <2>2. reply' = [r \in Replies |-> IF Attaches(r, e) /\ reply[r].owner = None THEN [reply[r] EXCEPT !.owner = Holder[e]] ELSE reply[r]]
    BY <1>3 DEF ListMine
  <2>3. Given(G, x)
    BY <2>2 DEF Given
  <2>4. G \in SUBSET Replies /\ x \in [Replies -> Accounts] /\ \A r \in Replies : x[r] = Holder[e]
    BY <2>1
  <2>5. \A r \in G : reply[r].owner = None /\ reply[r].address = e /\ reply[r].verified
    BY DEF Attaches
  <2> HIDE DEF G, x
  <2>6. /\ reply' \in [Replies -> ReplyRows] /\ AddressesKept
        /\ \A r \in Replies : /\ reply'[r].answers = reply[r].answers /\ reply'[r].flag = reply[r].flag
                              /\ reply'[r].owner = IF r \in G THEN x[r] ELSE reply[r].owner
    BY <1>0, <2>3, <2>4, GivenOwners
  <2>7. LinksTyped'
    BY <1>0, <1>1, <2>1, <2>6, TypesKeep
  <2>8. OpenInv'
    BY <1>0, <1>1, <2>1 DEF OpenInv, Open, Issuing
  <2>9. CorrectInv'
    BY <1>0, <1>1, <2>1, <2>6, CorrectionsKeep
  <2>10. OwnerIsProven'
    BY <1>0, <1>1, <2>4, <2>5, <2>6, OwnersGiven
  <2>11. ClaimBringsAlong'
    <3>1. \A r \in Replies : reply[r].owner # None => reply'[r].owner # None
      BY <2>5, <2>6
    <3>2. \A k \in Links : link[k] # None => link[k].r \in Replies
      BY <1>0 DEF LinkRows
    <3> QED  BY <1>0, <1>1, <2>1, <3>1, <3>2 DEF ClaimInv, ClaimBringsAlong
  <2>12. ASSUME NEW k \in Hands, asking'[k].at \in {"claim", "attach"}
         PROVE  /\ asking'[k].copy = Holder[reply'[link'[asking'[k].l].r].address]
                /\ asking'[k].at = "attach" => link'[asking'[k].l].claimed
    <3>1. /\ asking'[k] = asking[k] /\ asking[k].l \in Links /\ link[asking[k].l] # None
          /\ link[asking[k].l].r \in Replies
      BY <1>0, <2>1, <2>12 DEF LinksTyped, LinkRows
    <3> QED  BY <1>0, <1>1, <2>6, <2>12, <3>1 DEF ClaimInv, AddressesKept
  <2>13. ClaimInv'
    BY <2>10, <2>11, <2>12 DEF ClaimInv
  <2> QED  BY <2>7, <2>8, <2>9, <2>13 DEF LinksInv
<1> QED  BY <1>2, <1>3

\* What every step of a correction leaves alone.
LEMMA CorrectingKeeps ==
  ASSUME LinksInv, NEW h \in Hands, NEW a \in Asks, Turns(h, a), asking[h].at \notin {"claim", "attach"},
         \/ a.at = "idle"
         \/ a.at \in {"review", "write"} /\ a.r \in Replies,
         UNCHANGED <<link, halfway>>, started' = started \/ started' = started + 1,
         reply' \in [Replies -> ReplyRows], AddressesKept,
         \A r \in Replies : reply'[r].owner = reply[r].owner
  PROVE  LinksTyped' /\ OpenInv' /\ ClaimInv'
<1>0. /\ LinksTyped /\ OpenInv /\ ClaimInv /\ started \in Nat /\ started' \in Nat
      /\ link' \in [Links -> {None} \cup LinkRows] /\ LinksKept
  BY DEF LinksInv, LinksTyped, LinksKept
<1>1. LinksTyped'
  BY <1>0, TypesKeep DEF Turns
<1>2. OpenInv'
  <2>1. \A r \in Replies : Open(r)' \subseteq Open(r) /\ Issuing(r)' \subseteq Issuing(r)
    BY <1>0, OpenSame DEF Turns
  <2> QED  BY <1>0, <2>1, OpenKeeps
<1>3. ClaimInv'
  <2>1. \A l \in Links : link'[l] # None /\ link'[l].claimed => link[l] # None /\ link[l].claimed
    OBVIOUS
  <2> QED  BY <1>0, <2>1, ClaimsKeep DEF Turns
<1> QED  BY <1>1, <1>2, <1>3

\* A correction begins: it knows those under way, and they know it.
LEMMA CorrectKeeps ==
  ASSUME LinksInv, NEW h \in Hands, NEW r \in Replies, Correct(h, r)
  PROVE  LinksInv'
<1> DEFINE a1 == [Waiting EXCEPT !.at = "review"]
           a2 == [a1 EXCEPT !.r = r]
           a3 == [a2 EXCEPT !.id = started']
           a4 == [a3 EXCEPT !.base = reply[r].answers]
           a5 == [a4 EXCEPT !.seen = reply[r].status # "new"]
           also == UNION {{asking[j].id, started'} : j \in {i \in Hands : asking[i].at \in {"review", "write"} /\ asking[i].r = r}}
<1>0. /\ LinksTyped /\ CorrectInv /\ reply \in [Replies -> ReplyRows] /\ started \in Nat
      /\ MaxRequests \in Nat
  BY DEF LinksInv, LinksTyped
<1>1. /\ asking' = [asking EXCEPT ![h] = a5] /\ asking[h] = Waiting
      /\ started' = started + 1 /\ started < MaxRequests /\ overlapped' = overlapped \cup also
      /\ UNCHANGED <<reply, link, done, unseen, halfway>>
  BY DEF Correct, Begin
<1>2. \A j \in Hands : asking[j].at \in {"review", "write"} /\ asking[j].r = r =>
        asking[j].id \in overlapped' /\ started' \in overlapped'
  BY <1>1
<1>3. overlapped \subseteq overlapped'
  BY <1>1
<1> HIDE DEF also
<1>4. a1 \in Asks /\ a1.at = "review"
  BY WaitingFits DEF Asks
<1> HIDE DEF a1
<1>5. a2 \in Asks /\ a2.at = "review" /\ a2.r = r
  BY <1>4 DEF Asks
<1> HIDE DEF a2
<1>6. started' \in 0..MaxRequests /\ started' \in 1..MaxRequests
  BY <1>0, <1>1
<1>7. a3 \in Asks /\ a3.at = "review" /\ a3.r = r /\ a3.id = started'
  BY <1>5, <1>6 DEF Asks
<1> HIDE DEF a3
<1>8. a4 \in Asks /\ a4.at = "review" /\ a4.r = r /\ a4.id = started' /\ a4.base = reply[r].answers
  BY <1>0, <1>7 DEF Asks, ReplyRows
<1> HIDE DEF a4
<1>9. a5 \in Asks /\ a5.at = "review" /\ a5.r = r /\ a5.id = started' /\ a5.base = reply[r].answers
  BY <1>8 DEF Asks
<1> HIDE DEF a5
<1>10. Turns(h, a5)
  BY <1>0, <1>1, <1>9, Sets
<1>11. LinksTyped' /\ OpenInv' /\ ClaimInv'
  BY <1>0, <1>1, <1>9, <1>10, WaitingFits, CorrectingKeeps DEF AddressesKept
<1>12. CorrectInv'
  <2>0. \A d \in done \cup unseen : d \in Replies \X (1..MaxRequests) /\ d[2] <= started /\ d[2] \in Nat
    BY <1>0 DEF CorrectInv
  <2>1. CorrectionsStay' /\ ReviewersKnow'
    BY <1>0, <1>1, <1>3 DEF CorrectInv, CorrectionsStay, ReviewersKnow
  <2>2. \A d \in done' \cup unseen' : d \in Replies \X (1..MaxRequests) /\ d[2] <= started'
    BY <1>0, <1>1, <2>0
  <2>3. <<r, started'>> \notin done /\ <<r, started'>> \notin unseen
    BY <1>0, <1>1, <2>0
  <2>4. \A k \in Hands : k # h => asking'[k] = asking[k]
    BY <1>10 DEF Turns
  <2>5. asking'[h] = a5
    BY <1>10 DEF Turns
  <2>6. ASSUME NEW k \in Hands, Correcting(k)'
        PROVE  /\ asking'[k].id <= started' /\ asking'[k].id \in 1..MaxRequests
               /\ <<asking'[k].r, asking'[k].id>> \notin done'
               /\ asking'[k].at = "review" => <<asking'[k].r, asking'[k].id>> \notin unseen'
               /\ asking'[k].at = "write" /\ <<asking'[k].r, asking'[k].id>> \in unseen' => asking'[k].seen
               /\ \A d \in done' : d[1] = asking'[k].r => d[2] \in overlapped' \/ d[2] \in asking'[k].base
    <3>1. CASE k = h
      <4>1. \A d \in done : d[1] = r => d[2] \in overlapped \/ d[2] \in reply[r].answers
        BY <1>0 DEF CorrectInv, CorrectionsStay
      <4> QED  BY <1>1, <1>3, <1>6, <1>9, <2>3, <2>5, <3>1, <4>1
    <3>2. CASE k # h
      <4>1. asking'[k] = asking[k] /\ Correcting(k)
        BY <2>4, <2>6, <3>2 DEF Correcting
      <4>2. /\ asking[k].id <= started /\ asking[k].id \in 1..MaxRequests
            /\ <<asking[k].r, asking[k].id>> \notin done
            /\ asking[k].at = "review" => <<asking[k].r, asking[k].id>> \notin unseen
            /\ asking[k].at = "write" /\ <<asking[k].r, asking[k].id>> \in unseen => asking[k].seen
            /\ \A d \in done : d[1] = asking[k].r => d[2] \in overlapped \/ d[2] \in asking[k].base
        BY <1>0, <4>1 DEF CorrectInv
      <4> QED  BY <1>0, <1>1, <1>3, <4>1, <4>2
    <3> QED  BY <3>1, <3>2
  <2>7. ASSUME NEW k \in Hands, k # h, Correcting(k)'
        PROVE  /\ asking'[k].id # asking'[h].id
               /\ asking'[k].r = asking'[h].r => asking'[k].id \in overlapped' /\ asking'[h].id \in overlapped'
    <3>1. asking'[k] = asking[k] /\ Correcting(k) /\ asking[k].at \in {"review", "write"}
      BY <2>4, <2>7 DEF Correcting
    <3>2. asking[k].id <= started /\ asking[k].id \in 1..MaxRequests
      BY <1>0, <3>1 DEF CorrectInv
    <3>3. asking[k].id # started'
      BY <1>0, <1>1, <3>2
    <3> QED  BY <1>2, <1>9, <2>5, <3>1, <3>3
  <2>8. ASSUME NEW k \in Hands, NEW i \in Hands, k # i, Correcting(k)', Correcting(i)'
        PROVE  /\ asking'[k].id # asking'[i].id
               /\ asking'[k].r = asking'[i].r => asking'[k].id \in overlapped'
    <3>1. CASE k = h \/ i = h
      BY <2>7, <2>8, <3>1
    <3>2. CASE k # h /\ i # h
      <4>1. asking'[k] = asking[k] /\ asking'[i] = asking[i] /\ Correcting(k) /\ Correcting(i)
        BY <2>4, <2>8, <3>2 DEF Correcting
      <4> QED  BY <1>0, <1>3, <2>8, <4>1 DEF CorrectInv
    <3> QED  BY <3>1, <3>2
  <2> QED  BY <2>1, <2>2, <2>6, <2>8 DEF CorrectInv
<1> QED  BY <1>11, <1>12 DEF LinksInv

\* Whether members looked is decided once, and whoever did is owed the flag.
LEMMA ReviewKeeps ==
  ASSUME LinksInv, NEW h \in Hands, Review(h)
  PROVE  LinksInv'
<1> DEFINE r == asking[h].r
           q == <<asking[h].r, asking[h].id>>
           a1 == [asking[h] EXCEPT !.at = "write"]
           a2 == [a1 EXCEPT !.seen = SeenBy(r, asking[h].seen)]
           p1 == [asking EXCEPT ![h].at = "write"]
<1>0. /\ LinksTyped /\ CorrectInv /\ reply \in [Replies -> ReplyRows] /\ started \in Nat
      /\ asking \in [Hands -> Asks]
  BY DEF LinksInv, LinksTyped
<1>1. /\ asking' = [p1 EXCEPT ![h].seen = SeenBy(r, @)] /\ asking[h].at = "review" /\ r \in Replies
      /\ UNCHANGED <<reply, link, overlapped, done, halfway, started>>
      /\ unseen' = IF asking[h].seen \/ r \in opened THEN unseen \cup {q} ELSE unseen
  BY <1>0 DEF Review, LinksTyped
<1>2. /\ a1 \in Asks /\ a1.at = "write" /\ a1.r = r /\ a1.id = asking[h].id /\ a1.base = asking[h].base
      /\ a1.seen = asking[h].seen
  BY <1>0 DEF Asks
<1>3. p1 = [asking EXCEPT ![h] = a1] /\ p1[h] = a1
  BY <1>0
<1> HIDE DEF p1, a1
<1>4. asking' = [asking EXCEPT ![h] = a2]
  BY <1>0, <1>1, <1>2, <1>3
<1>5. SeenBy(r, asking[h].seen) \in BOOLEAN
  BY <1>0 DEF SeenBy, Asks
<1>6. /\ a2 \in Asks /\ a2.at = "write" /\ a2.r = r /\ a2.id = asking[h].id /\ a2.base = asking[h].base
      /\ a2.seen = SeenBy(r, asking[h].seen)
  BY <1>2, <1>5 DEF Asks
<1> HIDE DEF a2
<1>7. Turns(h, a2)
  BY <1>0, <1>4, <1>6, Sets
<1>8. LinksTyped' /\ OpenInv' /\ ClaimInv'
  BY <1>0, <1>1, <1>6, <1>7, CorrectingKeeps DEF AddressesKept
<1>9. CorrectInv'
  <2>0. /\ q \notin done /\ q \notin unseen /\ asking[h].id <= started /\ asking[h].id \in 1..MaxRequests
        /\ Correcting(h) /\ \A d \in done : d[1] = r => d[2] \in overlapped \/ d[2] \in asking[h].base
    BY <1>0, <1>1 DEF CorrectInv, Correcting
  <2>1. /\ unseen' \subseteq unseen \cup {q} /\ unseen \subseteq unseen'
        /\ q \in unseen' => a2.seen
    BY <1>1, <1>6, <2>0 DEF SeenBy
  <2>2. CorrectionsStay' /\ ReviewersKnow'
    BY <1>0, <1>1, <2>0, <2>1 DEF CorrectInv, CorrectionsStay, ReviewersKnow
  <2>3. \A d \in done' \cup unseen' : d \in Replies \X (1..MaxRequests) /\ d[2] <= started'
    BY <1>0, <1>1, <2>0, <2>1 DEF CorrectInv
  <2>4. asking'[h] = a2 /\ \A k \in Hands : k # h => asking'[k] = asking[k]
    BY <1>7 DEF Turns
  <2>5. ASSUME NEW k \in Hands, Correcting(k)'
        PROVE  /\ Correcting(k) /\ asking'[k].id = asking[k].id /\ asking'[k].r = asking[k].r
               /\ asking'[k].base = asking[k].base
    BY <1>1, <1>6, <2>4, <2>5 DEF Correcting
  <2>6. ASSUME NEW k \in Hands, Correcting(k)'
        PROVE  /\ asking'[k].id <= started' /\ asking'[k].id \in 1..MaxRequests
               /\ <<asking'[k].r, asking'[k].id>> \notin done'
               /\ asking'[k].at = "review" => <<asking'[k].r, asking'[k].id>> \notin unseen'
               /\ asking'[k].at = "write" /\ <<asking'[k].r, asking'[k].id>> \in unseen' => asking'[k].seen
               /\ \A d \in done' : d[1] = asking'[k].r => d[2] \in overlapped' \/ d[2] \in asking'[k].base
    <3>1. CASE k = h
      <4>1. asking'[k] = a2 /\ <<a2.r, a2.id>> = q
        BY <1>6, <2>4, <3>1
      <4> HIDE DEF q
      <4>2. a2.id <= started /\ a2.id \in 1..MaxRequests /\ a2.at # "review"
        BY <1>6, <2>0
      <4>3. \A d \in done : d[1] = a2.r => d[2] \in overlapped \/ d[2] \in a2.base
        BY <1>6, <2>0
      <4>4. done' = done /\ overlapped' = overlapped /\ started' = started
        BY <1>1
      <4> QED  BY <2>0, <2>1, <4>1, <4>2, <4>3, <4>4
    <3>2. CASE k # h
      <4>1. asking'[k] = asking[k] /\ Correcting(k)
        BY <2>4, <2>5, <2>6, <3>2
      <4>2. asking[k].id # asking[h].id
        BY <1>0, <2>0, <3>2, <4>1 DEF CorrectInv
      <4>3. <<asking[k].r, asking[k].id>> # q
        BY <4>2
      <4>4. /\ asking[k].id <= started /\ asking[k].id \in 1..MaxRequests
            /\ <<asking[k].r, asking[k].id>> \notin done
            /\ asking[k].at = "review" => <<asking[k].r, asking[k].id>> \notin unseen
            /\ asking[k].at = "write" /\ <<asking[k].r, asking[k].id>> \in unseen => asking[k].seen
            /\ \A d \in done : d[1] = asking[k].r => d[2] \in overlapped \/ d[2] \in asking[k].base
        BY <1>0, <4>1 DEF CorrectInv
      <4> HIDE DEF q
      <4>5. <<asking[k].r, asking[k].id>> \in unseen' => <<asking[k].r, asking[k].id>> \in unseen
        BY <2>1, <4>3
      <4>6. done' = done /\ overlapped' = overlapped /\ started' = started
        BY <1>1
      <4> QED  BY <4>1, <4>4, <4>5, <4>6
    <3> QED  BY <3>1, <3>2
  <2>7. ASSUME NEW k \in Hands, NEW i \in Hands, k # i, Correcting(k)', Correcting(i)'
        PROVE  /\ asking'[k].id # asking'[i].id
               /\ asking'[k].r = asking'[i].r => asking'[k].id \in overlapped'
    BY <1>0, <1>1, <2>5, <2>7 DEF CorrectInv
  <2> QED  BY <2>2, <2>3, <2>6, <2>7 DEF CorrectInv
<1> QED  BY <1>8, <1>9 DEF LinksInv

\* The answers read, with the correction, replace the answers.
LEMMA WriteKeeps ==
  ASSUME LinksInv, NEW h \in Hands, Write(h)
  PROVE  LinksInv'
<1> DEFINE a == asking[h]
           r == asking[h].r
           q == <<asking[h].r, asking[h].id>>
           b1 == [reply[r] EXCEPT !.answers = Merged(a.base, a.id)]
           b2 == [b1 EXCEPT !.flag = b1.flag \/ a.seen]
           p1 == [reply EXCEPT ![r].answers = Merged(a.base, a.id)]
<1>0. /\ LinksTyped /\ CorrectInv /\ reply \in [Replies -> ReplyRows] /\ started \in Nat
      /\ asking \in [Hands -> Asks]
  BY DEF LinksInv, LinksTyped
<1>1. /\ reply' = [p1 EXCEPT ![r].flag = @ \/ a.seen] /\ a.at = "write" /\ r \in Replies /\ Settle(h)
      /\ UNCHANGED <<link, overlapped, unseen, halfway, started>> /\ done' = done \cup {q}
  BY <1>0 DEF Write, LinksTyped
<1>2. /\ q \notin done /\ a.id <= started /\ a.id \in 1..MaxRequests /\ (q \in unseen => a.seen)
      /\ Correcting(h) /\ \A d \in done : d[1] = r => d[2] \in overlapped \/ d[2] \in a.base
  BY <1>0, <1>1 DEF CorrectInv, Correcting
<1>3. Merged(a.base, a.id) \in SUBSET (1..MaxRequests) /\ a.id \in Merged(a.base, a.id) /\ a.base \subseteq Merged(a.base, a.id)
  BY <1>0, <1>2 DEF Merged, Asks
<1>4. /\ b1 \in ReplyRows /\ b1.address = reply[r].address /\ b1.verified = reply[r].verified
      /\ b1.owner = reply[r].owner /\ b1.answers = Merged(a.base, a.id) /\ b1.flag = reply[r].flag
  BY <1>0, <1>1, <1>3 DEF ReplyRows
<1>5. p1 = [reply EXCEPT ![r] = b1] /\ p1[r] = b1
  BY <1>0, <1>1
<1> HIDE DEF p1, b1
<1>6. reply' = [reply EXCEPT ![r] = b2]
  BY <1>0, <1>1, <1>4, <1>5
<1>7. a.seen \in BOOLEAN /\ b1.flag \in BOOLEAN
  BY <1>0, <1>4 DEF Asks, ReplyRows
<1>8. /\ b2 \in ReplyRows /\ b2.address = reply[r].address /\ b2.verified = reply[r].verified
      /\ b2.owner = reply[r].owner /\ b2.answers = Merged(a.base, a.id)
      /\ b2.flag = (reply[r].flag \/ a.seen)
  BY <1>4, <1>7 DEF ReplyRows
<1> HIDE DEF b2
<1>9. /\ reply' \in [Replies -> ReplyRows] /\ reply'[r] = b2
      /\ \A s \in Replies : s # r => reply'[s] = reply[s]
  BY <1>0, <1>1, <1>6, <1>8, Sets
<1>10. Turns(h, Waiting)
  BY <1>0, <1>1, WaitingFits, Sets DEF Settle
<1>11. AddressesKept /\ \A s \in Replies : reply'[s].owner = reply[s].owner
  BY <1>8, <1>9 DEF AddressesKept
<1>12. LinksTyped' /\ OpenInv' /\ ClaimInv'
  BY <1>0, <1>1, <1>9, <1>10, <1>11, WaitingFits, CorrectingKeeps
<1>13. CorrectInv'
  <2>0. \A d \in done \cup unseen : d \in Replies \X (1..MaxRequests) /\ d[1] \in Replies /\ d[2] <= started
    BY <1>0 DEF CorrectInv
  <2>1. CorrectionsStay'
    <3> SUFFICES ASSUME NEW d \in done'
                 PROVE  d[2] \in overlapped \/ d[2] \in reply'[d[1]].answers
      BY <1>1 DEF CorrectionsStay
    <3>1. CASE d = q
      BY <1>3, <1>8, <1>9, <3>1
    <3>2. CASE d \in done /\ d[1] = r
      BY <1>2, <1>3, <1>8, <1>9, <3>2
    <3>3. CASE d \in done /\ d[1] # r
      BY <1>0, <1>9, <2>0, <3>3 DEF CorrectInv, CorrectionsStay
    <3> QED  BY <1>1, <3>1, <3>2, <3>3
  <2>2. ReviewersKnow'
    <3> SUFFICES ASSUME NEW u \in unseen, u \in done'
                 PROVE  reply'[u[1]].flag
      BY <1>1 DEF ReviewersKnow
    <3>1. CASE u = q
      BY <1>2, <1>8, <1>9, <3>1
    <3>2. CASE u \in done
      <4>1. reply[u[1]].flag /\ u[1] \in Replies
        BY <1>0, <2>0, <3>2 DEF CorrectInv, ReviewersKnow
      <4> QED  BY <1>8, <1>9, <4>1
    <3> QED  BY <1>1, <3>1, <3>2
  <2>3. \A d \in done' \cup unseen' : d \in Replies \X (1..MaxRequests) /\ d[2] <= started'
    BY <1>1, <1>2, <2>0
  <2>4. \A k \in Hands : Correcting(k)' => k # h /\ Correcting(k) /\ asking'[k] = asking[k]
    BY <1>10, WaitingFits DEF Turns, Correcting
  <2>5. ASSUME NEW k \in Hands, Correcting(k)'
        PROVE  /\ asking'[k].id <= started' /\ asking'[k].id \in 1..MaxRequests
               /\ <<asking'[k].r, asking'[k].id>> \notin done'
               /\ asking'[k].at = "review" => <<asking'[k].r, asking'[k].id>> \notin unseen'
               /\ asking'[k].at = "write" /\ <<asking'[k].r, asking'[k].id>> \in unseen' => asking'[k].seen
               /\ \A d \in done' : d[1] = asking'[k].r => d[2] \in overlapped' \/ d[2] \in asking'[k].base
    <3>1. k # h /\ asking'[k] = asking[k] /\ Correcting(k)
      BY <2>4, <2>5
    <3>2. /\ asking[k].id # asking[h].id
          /\ asking[k].r = asking[h].r => asking[h].id \in overlapped
      BY <1>0, <1>2, <3>1 DEF CorrectInv
    <3>3. <<asking[k].r, asking[k].id>> # q
      BY <3>2
    <3>4. /\ asking[k].id <= started /\ asking[k].id \in 1..MaxRequests
          /\ <<asking[k].r, asking[k].id>> \notin done
          /\ asking[k].at = "review" => <<asking[k].r, asking[k].id>> \notin unseen
          /\ asking[k].at = "write" /\ <<asking[k].r, asking[k].id>> \in unseen => asking[k].seen
          /\ \A d \in done : d[1] = asking[k].r => d[2] \in overlapped \/ d[2] \in asking[k].base
      BY <1>0, <3>1 DEF CorrectInv
    <3>5. q[1] = asking[k].r => q[2] \in overlapped
      BY <3>2
    <3> HIDE DEF q
    <3> QED  BY <1>1, <3>1, <3>3, <3>4, <3>5
  <2>6. ASSUME NEW k \in Hands, NEW i \in Hands, k # i, Correcting(k)', Correcting(i)'
        PROVE  /\ asking'[k].id # asking'[i].id
               /\ asking'[k].r = asking'[i].r => asking'[k].id \in overlapped'
    BY <1>0, <1>1, <2>4, <2>6 DEF CorrectInv
  <2> QED  BY <2>1, <2>2, <2>3, <2>5, <2>6 DEF CorrectInv
<1> QED  BY <1>12, <1>13 DEF LinksInv

\* Members acknowledge what was corrected so far.
LEMMA ClearedKeeps ==
  ASSUME LinksInv, NEW h \in Hands, Cleared(h)
  PROVE  LinksInv'
<1> DEFINE r == asking[h].r
           row == [reply[r] EXCEPT !.flag = FALSE]
<1>0. /\ LinksTyped /\ CorrectInv /\ reply \in [Replies -> ReplyRows] /\ started \in Nat
      /\ asking \in [Hands -> Asks]
  BY DEF LinksInv, LinksTyped
<1>1. /\ reply' = [reply EXCEPT ![r] = row] /\ asking[h].at = "clear" /\ r \in Replies /\ Settle(h)
      /\ UNCHANGED <<link, overlapped, done, halfway, started>>
      /\ unseen' = {u \in unseen : u[1] # r \/ u \notin done}
  BY <1>0 DEF Cleared, LinksTyped
<1>2. /\ row \in ReplyRows /\ row.address = reply[r].address /\ row.verified = reply[r].verified
      /\ row.owner = reply[r].owner /\ row.answers = reply[r].answers
  <2>1. reply[r] \in ReplyRows
    BY <1>0, <1>1
  <2> QED  BY <2>1 DEF ReplyRows
<1> HIDE DEF row
<1>3. /\ reply' \in [Replies -> ReplyRows] /\ reply'[r] = row
      /\ \A s \in Replies : s # r => reply'[s] = reply[s]
  BY <1>0, <1>1, <1>2, Sets
<1>4. Turns(h, Waiting)
  BY <1>0, <1>1, WaitingFits, Sets DEF Settle
<1>5. /\ AddressesKept
      /\ \A s \in Replies : reply'[s].owner = reply[s].owner /\ reply'[s].answers = reply[s].answers
  BY <1>2, <1>3 DEF AddressesKept
<1>6. LinksTyped' /\ OpenInv' /\ ClaimInv'
  BY <1>0, <1>1, <1>3, <1>4, <1>5, WaitingFits, CorrectingKeeps
<1>7. CorrectInv'
  <2>0. \A d \in done \cup unseen : d \in Replies \X (1..MaxRequests) /\ d[1] \in Replies /\ d[2] <= started
    BY <1>0 DEF CorrectInv
  <2>1. CorrectionsStay'
    BY <1>0, <1>1, <1>5, <2>0 DEF CorrectInv, CorrectionsStay
  <2>2. ReviewersKnow'
    <3> SUFFICES ASSUME NEW u \in unseen, u \in done, u[1] # r
                 PROVE  reply'[u[1]].flag
      BY <1>1 DEF ReviewersKnow
    <3>1. reply[u[1]].flag /\ u[1] \in Replies
      BY <1>0, <2>0 DEF CorrectInv, ReviewersKnow
    <3> QED  BY <1>3, <3>1
  <2>3. \A d \in done' \cup unseen' : d \in Replies \X (1..MaxRequests) /\ d[2] <= started'
    BY <1>1, <2>0
  <2>4. \A k \in Hands : Correcting(k)' => Correcting(k) /\ asking'[k] = asking[k]
    BY <1>4, WaitingFits DEF Turns, Correcting
  <2>5. ASSUME NEW k \in Hands, Correcting(k)'
        PROVE  /\ asking'[k].id <= started' /\ asking'[k].id \in 1..MaxRequests
               /\ <<asking'[k].r, asking'[k].id>> \notin done'
               /\ asking'[k].at = "review" => <<asking'[k].r, asking'[k].id>> \notin unseen'
               /\ asking'[k].at = "write" /\ <<asking'[k].r, asking'[k].id>> \in unseen' => asking'[k].seen
               /\ \A d \in done' : d[1] = asking'[k].r => d[2] \in overlapped' \/ d[2] \in asking'[k].base
    <3>1. asking'[k] = asking[k] /\ Correcting(k) /\ unseen' \subseteq unseen
      BY <1>1, <2>4, <2>5
    <3> QED  BY <1>0, <1>1, <3>1 DEF CorrectInv
  <2>6. ASSUME NEW k \in Hands, NEW i \in Hands, k # i, Correcting(k)', Correcting(i)'
        PROVE  /\ asking'[k].id # asking'[i].id
               /\ asking'[k].r = asking'[i].r => asking'[k].id \in overlapped'
    BY <1>0, <1>1, <2>4, <2>6 DEF CorrectInv
  <2> QED  BY <2>1, <2>2, <2>3, <2>5, <2>6 DEF CorrectInv
<1> QED  BY <1>6, <1>7 DEF LinksInv

\* Every step about stored responses.
LEMMA LinksStep == LinksInv /\ [Next]_linkVars => LinksInv'
<1> SUFFICES ASSUME LinksInv, Next \/ UNCHANGED linkVars PROVE LinksInv'
  OBVIOUS
<1>1. CASE UNCHANGED linkVars
  <2>1. UNCHANGED <<reply, link, asking, started, overlapped, done, unseen, halfway>>
    BY <1>1 DEF linkVars
  <2>2. LinkQuiet /\ ReplyQuiet /\ AskQuiet
    BY <2>1, QuietParts DEF LinksInv
  <2> QED  BY <2>1, <2>2, QuietKeeps DEF LinksInv, ReplyQuiet
<1>2. CASE Next
  BY <1>2, QuietStepsKeep, IssueKeeps, IssuedKeeps, ClaimKeeps, ClaimedKeeps, AttachKeeps, CorrectKeeps,
     ReviewKeeps, WriteKeeps, ClearedKeeps DEF Next
<1> QED  BY <1>1, <1>2

-----------------------------------------------------------------------------
(* The three together.                                                         *)

IdentityInv == ProofInv /\ EntryInv /\ LinksInv

\* A step is one request more at most.
LEMMA Grows == Next \/ Proving!Next \/ Entry!Next => started' = started \/ started' = started + 1
<1>1. ASSUME Next PROVE started' = started \/ started' = started + 1
  <2>1. ASSUME NEW h \in Hands, NEW r \in Replies, Issue(h, r) \/ Correct(h, r) \/ Clear(h, r)
        PROVE  started' = started + 1
    BY <2>1 DEF Issue, Correct, Clear, Begin
  <2>2. ASSUME NEW h \in Hands, NEW l \in Links, Issued(h, l) \/ View(h, l) \/ \E a \in Accounts : Claim(h, l, a)
        PROVE  started' = started \/ started' = started + 1
    BY <2>2 DEF Issued, View, Claim, Begin
  <2>3. ASSUME NEW h \in Hands, Viewed(h) \/ Review(h) \/ Write(h) \/ Cleared(h) \/ Claimed(h) \/ Attach(h) \/ Cut(h)
        PROVE  started' = started
    BY <2>3 DEF Viewed, Review, Write, Cleared, Claimed, Attach, Cut
  <2>4. ASSUME \/ \E l \in Links : Expire(l)
               \/ \E e \in Addresses : ListMine(e)
               \/ \E r \in Replies : OpenOrUnread(r) \/ Trash(r) \/ \E s \in {"new", "in_progress", "completed"} : Move(r, s)
               \/ CloseForm
        PROVE  started' = started \/ started' = started + 1
    BY <2>4 DEF Expire, ListMine, OpenOrUnread, Trash, Move, CloseForm, Member
  <2> QED  BY <1>1, <2>1, <2>2, <2>3, <2>4 DEF Next
<1>2. ASSUME Proving!Next PROVE started' = started \/ started' = started + 1
  BY <1>2 DEF Proving!Next, Proving!RequestCode, Proving!Mailed, Proving!Try, Proving!Right, Proving!Wrong,
     Proving!Redeem, Proving!CodeExpires, Proving!ProofExpires, Proving!PresentTicket, Proving!RedeemTicket,
     Proving!IssueTicket, Proving!TicketExpires, Proving!RowPurged, Proving!Submitted, Proving!Suspend, Proving!Begin
<1>3. ASSUME Entry!Next PROVE started' = started \/ started' = started + 1
  <2>1. ASSUME NEW h \in Hands,
               \/ Entry!SignIn(h) \/ Entry!SignInAccount(h) \/ Entry!Touch(h)
               \/ Entry!Suspend(h) \/ Entry!Disable(h) \/ Entry!SaveStatus(h) \/ Entry!Reactivate(h) \/ Entry!SaveActive(h)
        PROVE  started' = started \/ started' = started + 1
    BY <2>1 DEF Entry!SignIn, Entry!SignInAccount, Entry!Touch, Entry!Suspend, Entry!Disable, Entry!SaveStatus,
       Entry!Reactivate, Entry!SaveActive, Entry!Begin, Entry!Go, Entry!Leave
  <2>2. ASSUME NEW h \in Hands,
               \/ Entry!AskMail(h) \/ Entry!HitCooldown(h) \/ Entry!HitHour(h) \/ Entry!DropTickets(h)
               \/ Entry!Consume(h) \/ Entry!DropCodes(h) \/ Entry!Confirm(h)
        PROVE  started' = started \/ started' = started + 1
    BY <2>2 DEF Entry!AskMail, Entry!HitCooldown, Entry!HitHour, Entry!DropTickets, Entry!Consume, Entry!DropCodes,
       Entry!Confirm, Entry!Begin, Entry!Go, Entry!Leave
  <2>3. ASSUME NEW h \in Hands,
               \/ \E s \in Sessions : Entry!SignInSession(h, s) \/ Entry!Request(h, s)
               \/ \E t \in Tickets : Entry!StoreTicket(h, t) \/ Entry!Reveal(h, t)
               \/ \E c \in Codes : Entry!StoreCode(h, c) \/ \E isRight \in BOOLEAN : Entry!Guess(h, c, isRight)
        PROVE  started' = started \/ started' = started + 1
    BY <2>3 DEF Entry!SignInSession, Entry!Request, Entry!StoreTicket, Entry!Reveal, Entry!StoreCode, Entry!Guess,
       Entry!Begin, Entry!Leave
  <2>4. ASSUME \/ \E s \in Sessions : Entry!EndOne(s) \/ Entry!EndOthers(s)
               \/ \E t \in Tickets : Entry!TicketExpires(t)
               \/ \E c \in Codes : Entry!CodeExpires(c)
               \/ Entry!Tick
        PROVE  started' = started
    BY <2>4 DEF Entry!EndOne, Entry!EndOthers, Entry!TicketExpires, Entry!CodeExpires, Entry!Tick
  <2> QED  BY <1>3, <2>1, <2>2, <2>3, <2>4 DEF Entry!Next
<1> QED  BY <1>1, <1>2, <1>3

\* What one part does leaves the invariants of the others.
LEMMA OthersKeep ==
  ASSUME IdentityInv, started' = started \/ started' = started + 1
  PROVE  /\ UNCHANGED provingOnly => ProofInv'
         /\ UNCHANGED entryOnly => EntryInv'
         /\ UNCHANGED linksOnly => LinksInv'
<1>0. started \in Nat /\ started' \in Nat /\ started' >= started
  BY DEF IdentityInv, ProofInv, ProofTyped
<1>1. ASSUME UNCHANGED provingOnly PROVE ProofInv'
  <2>0. UNCHANGED <<code, ticket, bucket, proving, passed>>
    BY <1>1 DEF provingOnly
  <2>1. ProofTyped' /\ CodesSpent' /\ TicketsSpent'
    BY <1>0, <2>0 DEF IdentityInv, ProofInv, ProofTyped, CodesSpent, TicketsSpent, Proving!Holds
  <2>2. TriesInv'
    BY <1>0, <2>0, NoTry DEF IdentityInv, Proving!Holds
  <2> QED  BY <2>1, <2>2 DEF ProofInv
<1>2. ASSUME UNCHANGED entryOnly PROVE EntryInv'
  <2>0. UNCHANGED <<status, session, slipped, revealed, otp, reveals, right, cooldown, hour, sent, visiting>>
    BY <1>2 DEF entryOnly
  <2>1. EntryTyped' /\ SuspendedInv' /\ MailInv'
    BY <1>0, <2>0 DEF IdentityInv, EntryInv, EntryTyped, SuspendedInv, MailInv, Entry!Suspending
  <2>2. RevealInv'
    BY <2>0 DEF IdentityInv, EntryInv, RevealInv, Exchanging
  <2>3. GuessInv'
    <3>1. \A c \in Codes : otp[c].guesses \in Nat
      BY DEF IdentityInv, EntryInv, GuessInv, OtpRows
    <3> QED  BY <1>0, <2>0, <3>1 DEF IdentityInv, EntryInv, GuessInv
  <2> QED  BY <2>1, <2>2, <2>3 DEF EntryInv
<1>3. ASSUME UNCHANGED linksOnly PROVE LinksInv'
  <2>1. UNCHANGED <<reply, link, asking, overlapped, done, unseen, halfway>>
    BY <1>3 DEF linksOnly
  <2>2. LinkQuiet /\ ReplyQuiet /\ AskQuiet
    BY <2>1, QuietParts DEF IdentityInv, LinksInv
  <2> QED  BY <2>1, <2>2, QuietKeeps DEF IdentityInv, LinksInv, ReplyQuiet
<1> QED  BY <1>1, <1>2, <1>3

\* Before anything happened.
LEMMA Begins == IdentityInit => IdentityInv
<1> SUFFICES ASSUME Init, Proving!Init, Entry!Init PROVE IdentityInv
  BY DEF IdentityInit
<1>0. /\ \A S : S = {} => IsFiniteSet(S) /\ Cardinality(S) = 0
      /\ Cardinality(Hands) \in Nat
  BY SameCount, FS_EmptySet, FS_CardinalityType
<1>1. ProofInv
  <2>0. \A h \in Hands, at \in {"compare", "ticket"} : \A p : ~Proving!Holds(h, at, p)
    BY ErrandsFit DEF Proving!Init, Proving!Holds
  <2>1. Proving!NoRecord \in CodeRows /\ Proving!NoRecord.attempts = 0 /\ ~Proving!NoRecord.used
    BY DEF Proving!NoRecord, CodeRows
  <2>2. ProofTyped
    BY <2>1, ErrandsFit DEF Proving!Init, ProofTyped
  <2>3. TriesInv
    <3> SUFFICES ASSUME NEW c \in Requested
                 PROVE  LET tries == code[c].attempts + Cardinality(Comparing(c)) IN
                        tries <= started /\ tries <= MaxProofRequests /\ tries <= MaxAttempts - 1 + Cardinality(Hands)
      BY DEF TriesInv
    <3>1. Comparing(c) = {}
      BY <2>0 DEF Comparing
    <3>2. Cardinality(Comparing(c)) = 0 /\ code[c].attempts = 0 /\ started = 0
      BY <1>0, <2>1, <3>1 DEF Proving!Init
    <3> QED  BY <1>0, <3>2
  <2>4. CodesSpent /\ TicketsSpent
    BY <2>1 DEF Proving!Init, CodesSpent, TicketsSpent, Proving!Proofs
  <2> QED  BY <2>2, <2>3, <2>4 DEF ProofInv
<1>2. EntryInv
  <2>1. Entry!Out \in Visits /\ Entry!Out.at = "idle" /\ Entry!NoCode \in OtpRows /\ Entry!NoCode.guesses = 0
    BY DEF Entry!Out, Visits, Stops, Entry!NoCode, OtpRows
  <2>2. EntryTyped /\ SuspendedInv /\ GuessInv /\ MailInv
    BY <2>1 DEF Entry!Init, EntryTyped, SuspendedInv, Entry!Suspending, GuessInv, MailInv
  <2>3. RevealInv
    <3>1. \A t \in Tickets : Exchanging(t) = {}
      BY <2>1 DEF Entry!Init, Exchanging
    <3>2. \A t \in Tickets : Cardinality(Exchanging(t)) = 0
      BY <1>0, <3>1
    <3> QED  BY <1>0, <3>1, <3>2 DEF Entry!Init, RevealInv
  <2> QED  BY <2>2, <2>3 DEF EntryInv
<1>3. LinksInv
  <2>1. /\ \A h \in Hands : asking[h] = Waiting /\ asking[h].at = "idle"
        /\ \A l \in Links : link[l] = None
        /\ \A r \in Replies : reply[r].owner = None
        /\ done = {} /\ unseen = {} /\ started = 0
    BY WaitingFits DEF Init
  <2>2. LinksTyped
    <3>1. [address : Addresses, verified : BOOLEAN, owner : {None}, status : {"new"},
           answers : {{}}, flag : {FALSE}, gone : {FALSE}] \subseteq ReplyRows
      BY DEF ReplyRows
    <3>2. reply \in [Replies -> ReplyRows]
      BY <3>1 DEF Init
    <3> QED  BY <2>1, <3>2, WaitingFits DEF Init, LinksTyped
  <2>3. OpenInv
    <3>1. \A r \in Replies : Open(r) = {} /\ Issuing(r) = {}
      BY <2>1 DEF Open, Issuing
    <3>2. \A r \in Replies : IsFiniteSet(Open(r)) /\ Cardinality(Open(r)) = 0 /\ Cardinality(Issuing(r)) = 0
      BY <1>0, <3>1
    <3> QED  BY <1>0, <3>2 DEF OpenInv
  <2>4. ClaimInv
    BY <2>1 DEF ClaimInv, OwnerIsProven, ClaimBringsAlong
  <2>5. CorrectInv
    BY <2>1 DEF CorrectInv, CorrectionsStay, ReviewersKnow, Correcting
  <2> QED  BY <2>2, <2>3, <2>4, <2>5 DEF LinksInv
<1> QED  BY <1>1, <1>2, <1>3 DEF IdentityInv

\* Every step of the three.
LEMMA Goes == IdentityInv /\ [IdentityNext]_identityVars => IdentityInv'
<1> SUFFICES ASSUME IdentityInv, IdentityNext \/ UNCHANGED identityVars PROVE IdentityInv'
  OBVIOUS
<1>1. CASE UNCHANGED identityVars
  <2>1. UNCHANGED provingOnly /\ UNCHANGED entryOnly /\ UNCHANGED linksOnly /\ started' = started
    BY <1>1 DEF identityVars
  <2> QED  BY <2>1, OthersKeep DEF IdentityInv
<1>2. CASE IdentityNext
  <2>1. started' = started \/ started' = started + 1
    BY <1>2, Grows DEF IdentityNext
  <2>2. CASE Next /\ UNCHANGED <<part, provingOnly, entryOnly>>
    BY <2>1, <2>2, LinksStep, OthersKeep DEF IdentityInv
  <2>3. CASE Proving!Next /\ UNCHANGED <<part, linksOnly, entryOnly>>
    BY <2>1, <2>3, ProofStep, OthersKeep DEF IdentityInv
  <2>4. CASE Entry!Next /\ UNCHANGED <<part, linksOnly, provingOnly>>
    BY <2>1, <2>4, EntryStep, OthersKeep DEF IdentityInv
  <2> QED  BY <1>2, <2>2, <2>3, <2>4 DEF IdentityNext
<1> QED  BY <1>1, <1>2

\* The invariants of the three parts, always.
LEMMA InvAlways == IdentitySpec => []IdentityInv
BY Begins, Goes, PTL DEF IdentitySpec

-----------------------------------------------------------------------------
(* What the runs check.                                                        *)

\* Tries and guesses of codes, links of a response, reveals of a ticket and mails in an
\* hour stay within their limits and the requests side by side (emailVerification.service.ts
\* verifyCode, respondent.service.ts issueLink, auth.controller.ts, utils/rateLimiter.ts).
THEOREM LimitsHold == IdentitySpec => []WithinBounds
<1>1. IdentityInv => WithinBounds
  <2> SUFFICES ASSUME IdentityInv PROVE WithinBounds
    OBVIOUS
  <2>0. ProofInv /\ EntryInv /\ LinksInv /\ Cardinality(Hands) \in Nat
    BY SameCount, FS_CardinalityType DEF IdentityInv
  <2>1. ASSUME NEW c \in Requested
        PROVE  /\ code[c] \in CodeRows /\ code[c].attempts <= MaxProofRequests
               /\ code[c].attempts <= MaxAttempts + Cardinality(Hands) - 1
    <3>1. Comparing(c) \subseteq Hands
      BY DEF Comparing
    <3>2. Cardinality(Comparing(c)) \in Nat
      BY <3>1, SameCount, FS_Subset, FS_CardinalityType
    <3>3. code[c] \in CodeRows /\ code[c].attempts \in Nat
      BY <2>0 DEF ProofInv, ProofTyped, CodeRows
    <3> QED  BY <2>0, <3>2, <3>3 DEF ProofInv, TriesInv
  <2>2. TypeOK
    <3>1. \A c \in Requested : code[c] \in [at : {"none", "stored", "known", "deleted"}, attempts : 0..MaxProofRequests,
                                            live : BOOLEAN, verified : BOOLEAN, proofLive : BOOLEAN, used : BOOLEAN]
      BY <2>1 DEF CodeRows
    <3>2. \A c \in Codes : otp[c] \in [at : {"none", "stored", "gone"}, guesses : 0..MaxAccountRequests, consumed : BOOLEAN]
      BY <2>0 DEF EntryInv, GuessInv, OtpRows
    <3>3. code \in [Requested -> CodeRows] /\ otp \in [Codes -> OtpRows] /\ \A c \in Requested : code[c].used => code[c].verified
      BY <2>0 DEF ProofInv, ProofTyped, CodesSpent, EntryInv, GuessInv
    <3>4. reply \in [Replies -> ReplyRows] /\ link \in [Links -> {None} \cup LinkRows]
      BY <2>0 DEF LinksInv, LinksTyped
    <3>5. session \in [Sessions -> {"none", "live", "revoked"}] /\ sent \in [window : Nat, hour : Nat]
      BY <2>0 DEF EntryInv, EntryTyped, MailInv
    <3> QED  BY <3>1, <3>2, <3>3, <3>4, <3>5 DEF TypeOK, ReplyRows
  <2>3. Proving!TriesBounded
    BY <2>1, SameCount DEF Proving!TriesBounded
  <2>4. LinksBounded
    <3> SUFFICES ASSUME NEW r \in Replies
                 PROVE  Cardinality(Open(r)) <= Cardinality(Hands)
      BY DEF LinksBounded, Open
    <3>1. Issuing(r) \subseteq Hands
      BY DEF Issuing
    <3>2. Cardinality(Issuing(r)) \in Nat
      BY <3>1, SameCount, FS_Subset, FS_CardinalityType
    <3>3. Cardinality(Open(r)) \in Nat /\ Cardinality(Open(r)) + Cardinality(Issuing(r)) <= Cardinality(Hands)
      BY <2>0, FS_CardinalityType DEF LinksInv, OpenInv
    <3> QED  BY <2>0, <3>2, <3>3
  <2>5. Entry!GuessesBounded
    BY <2>0 DEF EntryInv, GuessInv, Entry!GuessesBounded
  <2>6. Entry!RevealsBounded
    <3> SUFFICES ASSUME NEW t \in Tickets
                 PROVE  reveals[t] <= Cardinality(Hands)
      BY SameCount DEF Entry!RevealsBounded
    <3>1. Exchanging(t) \subseteq Hands
      BY DEF Exchanging
    <3>2. Cardinality(Exchanging(t)) \in Nat
      BY <3>1, SameCount, FS_Subset, FS_CardinalityType
    <3>3. reveals[t] \in Nat /\ reveals[t] + Cardinality(Exchanging(t)) <= Cardinality(Hands)
      BY <2>0 DEF EntryInv, RevealInv
    <3> QED  BY <2>0, <3>2, <3>3
  <2>7. Entry!MailsBounded
    BY <2>0 DEF EntryInv, MailInv, Entry!MailsBounded
  <2> QED  BY <2>2, <2>3, <2>4, <2>5, <2>6, <2>7 DEF WithinBounds
<1> QED  BY <1>1, InvAlways, PTL

\* A code or ticket serves one submission (redeem, redeemSubmitTicket), a response belongs
\* to who proved its address (claimViaLink, attachVerifiedSubmissions), and a suspended
\* account keeps no session (updateAdmin).
THEOREM ProvenOnly == IdentitySpec => []OnlyTheProven
<1>1. IdentityInv => OnlyTheProven
  <2> SUFFICES ASSUME IdentityInv PROVE OnlyTheProven
    OBVIOUS
  <2>1. Proving!ProofSpentOnce
    BY DEF IdentityInv, ProofInv, CodesSpent, TicketsSpent, Proving!ProofSpentOnce, Proving!Proofs
  <2>2. OwnerIsProven
    BY DEF IdentityInv, LinksInv, ClaimInv
  <2>3. Entry!SuspendedIsOut
    BY DEF IdentityInv, EntryInv, SuspendedInv, Entry!SuspendedIsOut
  <2> QED  BY <2>1, <2>2, <2>3 DEF OnlyTheProven
<1> QED  BY <1>1, InvAlways, PTL

\* Claims bring the responses along, corrections stay, and members learn of those made
\* after they looked (claimViaLink, editViaLink, clearEditedAfterReview).
THEOREM ServiceHolds == IdentitySpec => []LinksServe
<1>1. IdentityInv => LinksServe
  BY DEF IdentityInv, LinksInv, ClaimInv, CorrectInv, LinksServe
<1> QED  BY <1>1, InvAlways, PTL

\* A link that is revoked or claimed stays so.
LEMMA RowsStay == LinksInv /\ Next => LinksKept
<1> SUFFICES ASSUME LinksInv, Next PROVE LinksKept
  OBVIOUS
<1>0. LinksTyped /\ link \in [Links -> {None} \cup LinkRows]
  BY DEF LinksInv, LinksTyped
<1>1. \/ link' = link
      \/ \E h \in Hands, r \in Replies : Issue(h, r)
      \/ \E h \in Hands, l \in Links : Issued(h, l)
      \/ \E l \in Links : link[l] # None /\ link' = [link EXCEPT ![l].expired = TRUE]
      \/ \E l \in Links : link[l] # None /\ link' = [link EXCEPT ![l].claimed = TRUE]
  <2>1. ASSUME NEW h \in Hands, Viewed(h)
        PROVE  link' = link
    BY <1>0, <2>1 DEF Viewed, Touched
  <2>2. ASSUME NEW h \in Hands, Claimed(h)
        PROVE  link' = link \/ \E l \in Links : link[l] # None /\ link' = [link EXCEPT ![l].claimed = TRUE]
    BY <1>0, <2>2 DEF Claimed, LinksTyped
  <2>3. ASSUME NEW l \in Links, Expire(l)
        PROVE  link[l] # None /\ link' = [link EXCEPT ![l].expired = TRUE]
    BY <2>3 DEF Expire
  <2>4. ASSUME NEW h \in Hands,
               \/ Review(h) \/ Write(h) \/ Cleared(h) \/ Attach(h) \/ Cut(h)
               \/ \E r \in Replies : Correct(h, r) \/ Clear(h, r)
               \/ \E l \in Links : View(h, l) \/ \E a \in Accounts : Claim(h, l, a)
        PROVE  link' = link
    BY <2>4 DEF Review, Write, Cleared, Attach, Cut, Correct, Clear, View, Claim
  <2>5. ASSUME \/ \E e \in Addresses : ListMine(e)
               \/ \E r \in Replies : OpenOrUnread(r) \/ Trash(r) \/ \E s \in {"new", "in_progress", "completed"} : Move(r, s)
               \/ CloseForm
        PROVE  link' = link
    BY <2>5 DEF ListMine, OpenOrUnread, Trash, Move, CloseForm
  <2> QED  BY <2>1, <2>2, <2>3, <2>4, <2>5 DEF Next
<1>2. ASSUME NEW l \in Links, link[l] # None
      PROVE  /\ link'[l] # None /\ link'[l].r = link[l].r
             /\ link[l].revoked => link'[l].revoked
             /\ link[l].claimed => link'[l].claimed
  <2> DEFINE b1 == [link[l] EXCEPT !.revoked = TRUE]
             b2 == [link[l] EXCEPT !.claimed = TRUE]
             b3 == [link[l] EXCEPT !.expired = TRUE]
  <2>1. link[l] \in LinkRows
    BY <1>0, <1>2
  <2>2. \A b \in {b1, b2, b3} : /\ b # None /\ b.r = link[l].r
                                /\ link[l].revoked => b.revoked
                                /\ link[l].claimed => b.claimed
    BY <2>1, LinkFields
  <2>3. link'[l] = link[l] \/ link'[l] \in {b1, b2, b3}
    BY <1>0, <1>1, <1>2 DEF Issue, RevokedBefore, Issued
  <2> QED  BY <1>2, <2>2, <2>3
<1> QED  BY <1>2 DEF LinksKept

\* A session that is revoked stays so.
LEMMA RevokedStep ==
  ASSUME EntryTyped, Entry!Next, NEW s \in Sessions, session[s] = "revoked"
  PROVE  session'[s] = "revoked"
<1>0. session \in [Sessions -> {"none", "live", "revoked"}]
  BY DEF EntryTyped
<1>1. \/ session' = session
      \/ \E r \in Sessions : session[r] = "none" /\ session' = [session EXCEPT ![r] = "live"]
      \/ \E S \in SUBSET Sessions : Entry!Revoke(S)
  <2>1. ASSUME NEW h \in Hands, Entry!Touch(h)
        PROVE  session' = session
    BY <1>0, <2>1 DEF Entry!Touch, Entry!Touched
  <2>2. ASSUME NEW h \in Hands, NEW r \in Sessions, Entry!SignInSession(h, r)
        PROVE  session[r] = "none" /\ session' = [session EXCEPT ![r] = "live"]
    BY <2>2 DEF Entry!SignInSession
  <2>3. ASSUME NEW h \in Hands, Entry!Suspend(h)
        PROVE  \E S \in SUBSET Sessions : Entry!Revoke(S)
    BY <2>3 DEF Entry!Suspend, Entry!EndedBySuspension
  <2>4. ASSUME NEW r \in Sessions, Entry!EndOne(r) \/ Entry!EndOthers(r)
        PROVE  \E S \in SUBSET Sessions : Entry!Revoke(S)
    <3>1. {r} \in SUBSET Sessions /\ Sessions \ {r} \in SUBSET Sessions
      OBVIOUS
    <3>2. Entry!Revoke({r}) \/ Entry!Revoke(Sessions \ {r})
      BY <2>4 DEF Entry!EndOne, Entry!EndOthers
    <3> QED  BY <3>1, <3>2
  <2>5. ASSUME NEW h \in Hands,
               \/ Entry!SignIn(h) \/ Entry!SignInAccount(h) \/ \E r \in Sessions : Entry!Request(h, r)
               \/ Entry!Disable(h) \/ Entry!SaveStatus(h) \/ Entry!Reactivate(h) \/ Entry!SaveActive(h)
        PROVE  session' = session
    BY <2>5 DEF Entry!SignIn, Entry!SignInAccount, Entry!Request, Entry!Disable, Entry!SaveStatus, Entry!Reactivate,
       Entry!SaveActive, Entry!sessionVars
  <2>6. ASSUME NEW h \in Hands,
               \/ Entry!AskMail(h) \/ Entry!HitCooldown(h) \/ Entry!HitHour(h) \/ Entry!DropTickets(h)
               \/ Entry!Consume(h) \/ Entry!DropCodes(h) \/ Entry!Confirm(h)
               \/ \E t \in Tickets : Entry!StoreTicket(h, t) \/ Entry!Reveal(h, t)
               \/ \E c \in Codes : Entry!StoreCode(h, c) \/ \E isRight \in BOOLEAN : Entry!Guess(h, c, isRight)
        PROVE  session' = session
    BY <2>6 DEF Entry!AskMail, Entry!HitCooldown, Entry!HitHour, Entry!DropTickets, Entry!Consume, Entry!DropCodes,
       Entry!Confirm, Entry!StoreTicket, Entry!Reveal, Entry!StoreCode, Entry!Guess, Entry!sessionVars
  <2>7. ASSUME \/ \E t \in Tickets : Entry!TicketExpires(t)
               \/ \E c \in Codes : Entry!CodeExpires(c)
               \/ Entry!Tick
        PROVE  session' = session
    BY <2>7 DEF Entry!TicketExpires, Entry!CodeExpires, Entry!Tick, Entry!sessionVars
  <2> QED  BY <2>1, <2>2, <2>3, <2>4, <2>5, <2>6, <2>7 DEF Entry!Next
<1> QED  BY <1>0, <1>1 DEF Entry!Revoke

\* A link that is gone (issueLink, claimViaLink) and a session that was ended (logout,
\* updateAdmin) never come back, whatever a request that read them earlier still saves.
THEOREM NothingComesBack == IdentitySpec => GoneStay
<1>1. IdentityInv /\ [IdentityNext]_identityVars =>
        [\A l \in Links : link[l] # None =>
           /\ link'[l] # None
           /\ link[l].revoked => link'[l].revoked
           /\ link[l].claimed => link'[l].claimed]_linkVars
  <2> SUFFICES ASSUME IdentityInv, IdentityNext \/ UNCHANGED identityVars
               PROVE  UNCHANGED link \/ LinksKept
    BY DEF LinksKept, linkVars
  <2>1. CASE Next
    BY <2>1, RowsStay DEF IdentityInv
  <2>2. CASE ~Next
    BY <2>2 DEF IdentityNext, identityVars, linksOnly
  <2> QED  BY <2>1, <2>2
<1>2. IdentityInv /\ [IdentityNext]_identityVars =>
        [\A s \in Sessions : session[s] = "revoked" => session'[s] = "revoked"]_identityVars
  <2> SUFFICES ASSUME IdentityInv, IdentityNext, NEW s \in Sessions, session[s] = "revoked"
               PROVE  session'[s] = "revoked"
    OBVIOUS
  <2>1. CASE Entry!Next
    BY <2>1, RevokedStep DEF IdentityInv, EntryInv
  <2>2. CASE ~Entry!Next
    BY <2>2 DEF IdentityNext, entryOnly
  <2> QED  BY <2>1, <2>2
<1>3. IdentitySpec => []IdentityInv /\ [][IdentityNext]_identityVars
  BY InvAlways, PTL DEF IdentitySpec
<1>4. IdentitySpec => [][\A l \in Links : link[l] # None =>
                           /\ link'[l] # None
                           /\ link[l].revoked => link'[l].revoked
                           /\ link[l].claimed => link'[l].claimed]_linkVars
  BY <1>1, <1>3, PTL
<1>5. IdentitySpec => [][\A s \in Sessions : session[s] = "revoked" => session'[s] = "revoked"]_identityVars
  BY <1>2, <1>3, PTL
<1> QED  BY <1>4, <1>5 DEF GoneStay, GoneLinksStay, RevokedStay

=============================================================================
