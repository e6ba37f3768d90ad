---------------------------- MODULE BuilderProofs ----------------------------
(* Proofs about Editing: for any builders, saves, fields and requests, a copy  *)
(* with the form's version is the form, a save is stored once, and what was     *)
(* saved, the fields and the link stay but for the writes that replace them.    *)
(* Proofs about Keeping: for any users, forms, requests and limits, a form that  *)
(* moves leaves nothing behind, a default view is not saved over, what is kept   *)
(* up to a number stays near it, the rules of copied forms lead to fields, and   *)
(* what a respondent sends is read back under the questions it was given to.     *)
EXTENDS Editing, Keeping, Sequences, FiniteSetTheorems, WellFoundedInduction, TLAPS

USE EditingAssumption

-----------------------------------------------------------------------------
(* The types, to the last record.                                              *)

FieldLists == [Fields -> {"absent", "live", "deleted"}]
FormDocs == [content : Content, version : Nat, lastSave : Saves \cup {None},
             status : {"draft", "published", "closed"}, slug : Nat,
             archived : BOOLEAN, trashed : BOOLEAN]
CopyDocs == [content : Content, version : Nat]
Sendings == [client : Clients, part : Parts, checked : BOOLEAN, publish : BOOLEAN,
             version : Nat, body : FieldLists \cup SUBSET Saves]
Readings == [fields : FieldLists \cup {None}, settings : (SUBSET Saves) \cup {None},
             slug : Nat \cup {None}]
Calls == [kind : {"idle", "save", "publish", "regenerate"},
          at : {"idle", "read", "write", "plain", "commit"},
          save : Saves \cup {None}, read : Readings]

Typed ==
  /\ form \in FormDocs /\ links \in Nat /\ form.slug <= links
  /\ copy \in [Clients -> CopyDocs]
  /\ sent \in [Saves -> Sendings \cup {None}]
  /\ waiting \in [Clients -> Saves \cup {None}]
  /\ request \in [Slots -> Calls]
  /\ uses \in [Saves -> Nat]
  /\ acked \subseteq Saves

\* A save carries a body of its part.
BodyFits(x) == IF x.part = "fields" THEN x.body \in FieldLists ELSE x.body \in SUBSET Saves

\* A handler has what it goes on with.
CallFits(q) ==
  /\ q.kind = "save" =>
       /\ q.save \in Saves /\ sent[q.save] # None
       /\ q.at = "write" =>
            /\ sent[q.save].part = "fields" => q.read.fields \in FieldLists
            /\ sent[q.save].publish => q.read.slug \in Nat /\ q.read.slug <= links
  /\ q.kind = "publish" =>
       /\ q.read.slug \in Nat /\ q.read.slug <= links
       /\ q.at # "plain" => q.read.settings \in SUBSET Saves

Fits ==
  /\ \A s \in Saves : sent[s] # None => BodyFits(sent[s])
  /\ \A k \in Slots : CallFits(request[k])

-----------------------------------------------------------------------------
(* What the versions say.                                                      *)

\* No copy is ahead of the form, and one that is not behind is the form.
CopiesInv ==
  /\ \A c \in Clients : copy[c].version <= form.version
  /\ CopiesAgree

\* A save that asks for the version the form still has was made on top of what
\* the form has.
SentInv ==
  \A s \in Saves : sent[s] # None =>
    /\ sent[s].version <= form.version
    /\ sent[s].checked /\ sent[s].part # "fields" /\ sent[s].version = form.version
       => form.content[sent[s].part] \subseteq sent[s].body

\* Its handler has merged with the fields the form still has.
ReadInv ==
  \A k \in Slots :
    LET s == request[k].save
    IN request[k].kind = "save" /\ request[k].at = "write" /\ sent[s].checked
         /\ sent[s].part = "fields" /\ sent[s].version = form.version
       => request[k].read.fields = form.content.fields

\* A save that was stored has moved the form past the version it asked for.
OnceInv ==
  \A s \in Saves :
    /\ sent[s] = None => uses[s] = 0
    /\ sent[s] # None /\ sent[s].checked /\ ~sent[s].publish =>
         uses[s] <= 1 /\ (uses[s] = 1 => sent[s].version < form.version)

\* What was answered with success, or is the last one stored, was stored.
AckInv ==
  /\ \A s \in acked : uses[s] >= 1
  /\ form.lastSave \in Saves => uses[form.lastSave] >= 1

EditInv == Typed /\ Fits /\ CopiesInv /\ SentInv /\ ReadInv /\ OnceInv /\ AckInv

-----------------------------------------------------------------------------
(* What every step that writes the form has in common.                         *)

\* A change of the content is a new version.
Moved ==
  \/ form'.content = form.content /\ form'.version = form.version
  \/ form'.version = form.version + 1
CopyOf(f) == [content |-> f.content, version |-> f.version]

\* Copies stay true when the form moves and some of them are taken anew.
LEMMA CopiesKept ==
  ASSUME Typed, CopiesInv, form' \in FormDocs, Moved,
         \A c \in Clients : copy'[c] = copy[c] \/ copy'[c] = CopyOf(form')
  PROVE  CopiesInv'
<1>1. form.version \in Nat /\ form'.version \in Nat
  BY DEF Typed, FormDocs
<1> SUFFICES ASSUME NEW c \in Clients
             PROVE  /\ copy'[c].version <= form'.version
                    /\ copy'[c].version = form'.version => copy'[c].content = form'.content
  BY DEF CopiesInv, CopiesAgree
<1>2. copy[c].version \in Nat /\ copy[c].version <= form.version
      /\ (copy[c].version = form.version => copy[c].content = form.content)
  BY DEF Typed, CopyDocs, CopiesInv, CopiesAgree
<1>3. CASE copy'[c] = CopyOf(form')
  BY <1>1, <1>3 DEF CopyOf
<1>4. CASE copy'[c] = copy[c]
  BY <1>1, <1>2, <1>4 DEF Moved
<1> QED  BY <1>3, <1>4

\* A save that was sent is not changed by the form's moves.
LEMMA SentKept ==
  ASSUME Typed, SentInv, form' \in FormDocs, Moved, sent' = sent
  PROVE  SentInv'
<1>1. form.version \in Nat /\ form'.version \in Nat
  BY DEF Typed, FormDocs
<1> SUFFICES ASSUME NEW s \in Saves, sent[s] # None
             PROVE  /\ sent[s].version <= form'.version
                    /\ sent[s].checked /\ sent[s].part # "fields" /\ sent[s].version = form'.version
                       => form'.content[sent[s].part] \subseteq sent[s].body
  BY DEF SentInv
<1>2. sent[s].version \in Nat
  BY DEF Typed, Sendings
<1> QED  BY <1>1, <1>2 DEF SentInv, Moved

\* Handlers go on, or end, with what they have read.
LEMMA ReadKept ==
  ASSUME Typed, Fits, SentInv, ReadInv, form' \in FormDocs, Moved, sent' = sent,
         \A k \in Slots : request'[k] = request[k] \/ request'[k] = Idle
  PROVE  ReadInv'
<1> DEFINE Merges(q, f) ==
      q.kind = "save" /\ q.at = "write" /\ sent[q.save].checked
        /\ sent[q.save].part = "fields" /\ sent[q.save].version = f.version
        => q.read.fields = f.content.fields
<1>1. \A k \in Slots : Merges(request[k], form)
  BY DEF ReadInv
<1>2. \A k \in Slots : Merges(request'[k], form')
  <2> SUFFICES ASSUME NEW k \in Slots, request'[k] = request[k], request[k].kind = "save",
                      sent[request[k].save].version = form'.version
               PROVE  form'.content = form.content /\ form'.version = form.version
    BY <1>1 DEF Idle
  <2>1. request[k].save \in Saves /\ sent[request[k].save] # None
    BY DEF Fits, CallFits
  <2>2. sent[request[k].save].version <= form.version /\ form.version \in Nat
    BY <2>1 DEF SentInv, Typed, FormDocs
  <2> QED  BY <2>2 DEF Moved
<1> HIDE DEF Merges
<1>3. ReadInv' <=> \A k \in Slots : Merges(request'[k], form')
  BY DEF ReadInv, Merges
<1> QED  BY <1>2, <1>3

\* What was stored stays behind the version.
LEMMA OnceKept ==
  ASSUME Typed, OnceInv, form' \in FormDocs, Moved, sent' = sent, uses' = uses
  PROVE  OnceInv'
<1>1. form.version \in Nat /\ form'.version \in Nat
  BY DEF Typed, FormDocs
<1>2. \A s \in Saves : sent[s] # None => sent[s].version \in Nat
  BY DEF Typed, Sendings
<1> QED  BY <1>1, <1>2 DEF OnceInv, Moved

\* Handlers keep what they have, and links are only added.
LEMMA FitsKept ==
  ASSUME Typed, Fits, sent' = sent, links' \in Nat, links <= links',
         \A k \in Slots : request'[k] = request[k] \/ request'[k] = Idle
  PROVE  Fits'
<1>1. links \in Nat
  BY DEF Typed
<1>2. ASSUME NEW k \in Slots PROVE CallFits(request[k])'
  <2>1. CASE request'[k] = Idle
    BY <2>1 DEF CallFits, Idle
  <2>2. CASE request'[k] = request[k]
    BY <1>1, <2>2 DEF Fits, CallFits
  <2> QED  BY <2>1, <2>2
<1>3. ASSUME NEW s \in Saves, sent'[s] # None PROVE BodyFits(sent'[s])
  BY <1>3 DEF Fits
<1> QED  BY <1>2, <1>3 DEF Fits

\* An answer leaves the builder with his copy, or with that of the form answered with.
LEMMA Told ==
  ASSUME Typed, NEW s \in Saves, sent[s] # None, NEW f \in FormDocs, Answer(s, f) \/ Refuse(s)
  PROVE  /\ copy' \in [Clients -> CopyDocs] /\ waiting' \in [Clients -> Saves \cup {None}]
         /\ \A c \in Clients : copy'[c] = copy[c] \/ copy'[c] = CopyOf(f)
         /\ acked' \subseteq acked \cup {s}
         /\ Refuse(s) => copy' = copy /\ acked' = acked
<1>1. sent[s].client \in Clients
  BY DEF Typed, Sendings
<1>2. CopyOf(f) \in CopyDocs
  BY DEF CopyOf, CopyDocs, FormDocs
<1>3. CASE Refuse(s)
  BY <1>1, <1>3 DEF Refuse, Typed
<1>4. CASE Answer(s, f) /\ ~Refuse(s)
  BY <1>1, <1>2, <1>4 DEF Answer, Typed, CopyOf
<1> QED  BY <1>3, <1>4

\* The content of a save, put into the form, is content again.
LEMMA PatchedFits ==
  ASSUME Typed, Fits, NEW s \in Saves, sent[s] # None, NEW read \in Readings,
         sent[s].part = "fields" => read.fields \in FieldLists
  PROVE  /\ Patched(s, read) \in Content
         /\ \A piece \in Parts : piece # sent[s].part => Patched(s, read)[piece] = form.content[piece]
         /\ Patched(s, read)[sent[s].part] = NewPart(s, read.fields)
<1>1. form.content \in Content /\ sent[s].part \in Parts /\ BodyFits(sent[s])
  BY DEF Typed, FormDocs, Sendings, Fits
<1>2. CASE sent[s].part = "fields"
  <2>1. NewPart(s, read.fields) \in FieldLists
    BY <1>1, <1>2 DEF NewPart, Merged, FieldLists, BodyFits
  <2> QED  BY <1>1, <1>2, <2>1 DEF Patched, Content, FieldLists, Parts
<1>3. CASE sent[s].part # "fields"
  <2>1. NewPart(s, read.fields) \in SUBSET Saves
    BY <1>1, <1>3 DEF NewPart, BodyFits
  <2> QED  BY <1>1, <1>3, <2>1 DEF Patched, Content, Parts
<1> QED  BY <1>2, <1>3

-----------------------------------------------------------------------------
(* The inductive invariant, step by step.                                      *)

\* Nothing is sent, read or stored at the start.
LEMMA EditInit == Init => EditInv
<1> SUFFICES ASSUME Init PROVE EditInv
  OBVIOUS
<1>1. form.content \in Content
  BY DEF Init, Content
<1>2. form \in FormDocs /\ form.version = 0 /\ form.slug = 0 /\ form.lastSave = None
  BY <1>1 DEF Init, FormDocs
<1>3. Idle \in Calls /\ Idle.kind = "idle"
  BY DEF Idle, Calls, Readings, Nothing, Kept
<1>4. copy \in [Clients -> CopyDocs]
  BY <1>1 DEF Init, CopyDocs
<1>5. Typed
  <2>1. /\ sent \in [Saves -> Sendings \cup {None}] /\ waiting \in [Clients -> Saves \cup {None}]
        /\ uses \in [Saves -> Nat] /\ acked \subseteq Saves /\ links = 0
    BY DEF Init
  <2>2. request \in [Slots -> Calls]
    BY <1>3 DEF Init
  <2> QED  BY <1>2, <1>4, <2>1, <2>2 DEF Typed
<1>6. Fits /\ ReadInv
  BY <1>3 DEF Init, Fits, CallFits, ReadInv
<1>7. CopiesInv
  <2>1. \A c \in Clients : copy[c].content = form.content /\ copy[c].version = 0
    BY DEF Init
  <2> QED  BY <1>2, <2>1 DEF CopiesInv, CopiesAgree
<1>8. SentInv /\ OnceInv /\ AckInv
  BY <1>2 DEF Init, SentInv, OnceInv, AckInv
<1> QED  BY <1>5, <1>6, <1>7, <1>8 DEF EditInv

\* A builder loads the form, or stops waiting.
LEMMA LoadKeeps ==
  ASSUME EditInv, NEW c \in Clients, Load(c) \/ GiveUp(c)
  PROVE  EditInv'
<1>1. /\ UNCHANGED <<form, sent, request, acked, uses, links>>
      /\ copy' \in [Clients -> CopyDocs] /\ waiting' \in [Clients -> Saves \cup {None}]
      /\ \A d \in Clients : copy'[d] = copy[d] \/ copy'[d] = CopyOf(form')
  <2>1. CopyOf(form) \in CopyDocs
    BY DEF CopyOf, CopyDocs, EditInv, Typed, FormDocs
  <2>2. CASE Load(c)
    BY <2>1, <2>2 DEF Load, EditInv, Typed, CopyOf
  <2>3. CASE GiveUp(c)
    BY <2>3 DEF GiveUp, EditInv, Typed
  <2> QED  BY <2>2, <2>3
<1>2. Typed' /\ Fits'
  BY <1>1 DEF EditInv, Typed, Fits, CallFits
<1>3. CopiesInv'
  BY <1>1, CopiesKept DEF EditInv, Moved, Typed
<1>4. SentInv' /\ ReadInv' /\ OnceInv' /\ AckInv'
  BY <1>1 DEF EditInv, SentInv, ReadInv, OnceInv, AckInv
<1> QED  BY <1>2, <1>3, <1>4 DEF EditInv

\* A builder sends what he has edited.
LEMMA SendKeeps ==
  ASSUME EditInv, NEW c \in Clients, NEW s \in Saves, NEW piece \in Parts, NEW f \in Fields,
         NEW checked \in BOOLEAN, NEW publish \in BOOLEAN, Send(c, s, piece, f, checked, publish)
  PROVE  EditInv'
<1> DEFINE body == Edited(piece, copy[c].content, s, f)
           x == [client |-> c, part |-> piece, checked |-> checked, publish |-> publish,
                 version |-> IF checked THEN copy[c].version ELSE 0, body |-> body]
<1>1. copy[c].content \in Content /\ copy[c].version \in Nat /\ copy[c].version <= form.version
      /\ form.version \in Nat /\ form.content \in Content
      /\ (copy[c].version = form.version => copy[c].content = form.content)
  BY DEF EditInv, Typed, CopyDocs, FormDocs, CopiesInv, CopiesAgree
<1>2. /\ piece = "fields" => body \in FieldLists
      /\ piece # "fields" => body \in SUBSET Saves /\ copy[c].content[piece] \subseteq body
  BY <1>1 DEF Edited, Content, FieldLists, Parts
<1>3. x \in Sendings /\ BodyFits(x) /\ x.version <= form.version
      /\ (x.checked /\ x.part # "fields" /\ x.version = form.version => form.content[x.part] \subseteq x.body)
  BY <1>1, <1>2 DEF Sendings, BodyFits
<1>4. /\ sent[s] = None /\ sent' = [sent EXCEPT ![s] = x] /\ waiting' = [waiting EXCEPT ![c] = s]
      /\ UNCHANGED <<form, copy, request, acked, uses, links>>
  BY DEF Send
<1> HIDE DEF body, x
<1>5. sent'[s] = x /\ \A u \in Saves : u # s => sent'[u] = sent[u]
  BY <1>4 DEF EditInv, Typed
<1>6. Typed'
  BY <1>3, <1>4 DEF EditInv, Typed
<1>7. \A k \in Slots : request[k].kind = "save" => request[k].save \in Saves /\ request[k].save # s
  BY <1>4 DEF EditInv, Fits, CallFits
<1>8. \A k \in Slots : CallFits(request[k])'
  BY <1>4, <1>5, <1>7 DEF EditInv, Fits, CallFits
<1>9. Fits'
  BY <1>3, <1>5, <1>8 DEF EditInv, Fits
<1>10. CopiesInv'
  BY <1>4 DEF EditInv, CopiesInv, CopiesAgree
<1>11. SentInv'
  BY <1>3, <1>4, <1>5 DEF EditInv, SentInv
<1>12. ReadInv'
  BY <1>4, <1>5, <1>7 DEF EditInv, ReadInv
<1>13. OnceInv'
  <2>1. uses[s] = 0
    BY <1>4 DEF EditInv, OnceInv
  <2> QED  BY <1>4, <1>5, <2>1 DEF EditInv, OnceInv
<1>14. AckInv'
  BY <1>4 DEF EditInv, AckInv
<1> QED  BY <1>6, <1>9, <1>10, <1>11, <1>12, <1>13, <1>14 DEF EditInv

\* The server takes a save in, or answers it at once.
LEMMA DeliverKeeps ==
  ASSUME EditInv, NEW k \in Slots, NEW s \in Saves, Deliver(k, s)
  PROVE  EditInv'
<1> DEFINE q == [kind |-> "save", at |-> "read", save |-> s, read |-> Nothing]
<1>1. sent[s] # None /\ UNCHANGED <<form, sent, uses, links>>
  BY DEF Deliver
<1>2. form \in FormDocs /\ Moved
  BY <1>1 DEF EditInv, Typed, Moved
<1>3. \/ UNCHANGED <<copy, waiting, acked>>
      \/ Refuse(s)
      \/ Replayed(s) /\ Answer(s, form)
  BY DEF Deliver
<1>4. /\ copy' \in [Clients -> CopyDocs] /\ waiting' \in [Clients -> Saves \cup {None}]
      /\ \A c \in Clients : copy'[c] = copy[c] \/ copy'[c] = CopyOf(form')
      /\ acked' = acked \/ (Replayed(s) /\ acked' \subseteq acked \cup {s})
  <2>1. CASE UNCHANGED <<copy, waiting, acked>>
    BY <2>1 DEF EditInv, Typed
  <2>2. CASE Refuse(s)
    BY <1>1, <1>2, <2>2, Told DEF EditInv
  <2>3. CASE Replayed(s) /\ Answer(s, form)
    BY <1>1, <1>2, <2>3, Told DEF EditInv
  <2> QED  BY <1>3, <2>1, <2>2, <2>3
<1>5. q \in Calls /\ CallFits(q)
  BY <1>1 DEF Calls, Readings, Nothing, Kept, CallFits
<1>6. request' = request \/ request' = [request EXCEPT ![k] = q]
  BY DEF Deliver
<1>7. \A l \in Slots : request'[l] = request[l] \/ request'[l] = q
  BY <1>6 DEF EditInv, Typed
<1>8. q.at # "write"
  OBVIOUS
<1>9. request' \in [Slots -> Calls]
  BY <1>5, <1>6 DEF EditInv, Typed
<1> HIDE DEF q
<1>10. Typed'
  BY <1>1, <1>4, <1>9 DEF EditInv, Typed
<1>11. Fits'
  BY <1>1, <1>5, <1>7 DEF EditInv, Fits, CallFits
<1>12. CopiesInv'
  BY <1>1, <1>2, <1>4, CopiesKept DEF EditInv
<1>13. SentInv' /\ OnceInv'
  BY <1>1 DEF EditInv, SentInv, OnceInv
<1>14. ReadInv'
  BY <1>1, <1>7, <1>8 DEF EditInv, ReadInv
<1>15. AckInv'
  BY <1>1, <1>4 DEF EditInv, AckInv, Replayed
<1> QED  BY <1>10, <1>11, <1>12, <1>13, <1>14, <1>15 DEF EditInv

\* The handler reads the form.
LEMMA ReadKeeps ==
  ASSUME EditInv, NEW k \in Slots, Read(k)
  PROVE  EditInv'
<1> DEFINE s == request[k].save
           kept == Kept(IF sent[s].part = "fields" THEN form.content.fields ELSE None, None,
                        IF sent[s].publish THEN form.slug ELSE None)
           q == [request[k] EXCEPT !.at = "write", !.read = kept]
<1>1. request[k].kind = "save" /\ UNCHANGED <<form, sent, uses, links>>
  BY DEF Read
<1>2. s \in Saves /\ sent[s] # None /\ form \in FormDocs /\ Moved /\ form' = form
  BY <1>1 DEF EditInv, Typed, Moved, Fits, CallFits
<1>3. \/ End(k) /\ Refuse(s)
      \/ request' = [request EXCEPT ![k] = q] /\ UNCHANGED <<copy, waiting, acked>>
  BY DEF Read
<1>4. copy' = copy /\ acked' = acked /\ waiting' \in [Clients -> Saves \cup {None}]
  <2>1. CASE UNCHANGED <<copy, waiting, acked>>
    BY <2>1 DEF EditInv, Typed
  <2>2. CASE Refuse(s)
    BY <1>1, <1>2, <2>2, Told DEF EditInv
  <2> QED  BY <1>3, <2>1, <2>2
<1>5. /\ form.content \in Content /\ form.slug \in Nat /\ form.slug <= links
      /\ form.content.fields \in FieldLists
  BY <1>2 DEF EditInv, Typed, FormDocs, Content, FieldLists
<1>6. /\ q \in Calls /\ q.kind = "save" /\ q.save = s
      /\ sent[s].part = "fields" => q.read.fields = form.content.fields
      /\ sent[s].publish => q.read.slug = form.slug
  <2>1. /\ kept \in Readings
        /\ sent[s].part = "fields" => kept.fields = form.content.fields
        /\ sent[s].publish => kept.slug = form.slug
    BY <1>5 DEF Readings, Kept
  <2>2. request[k] \in Calls
    BY DEF EditInv, Typed
  <2> HIDE DEF kept
  <2>3. q \in Calls /\ q.read = kept /\ q.kind = request[k].kind /\ q.save = request[k].save
    BY <2>1, <2>2 DEF Calls
  <2> QED  BY <1>1, <2>1, <2>3
<1>7. CallFits(q)
  BY <1>2, <1>5, <1>6 DEF CallFits
<1>8. \A l \in Slots : request'[l] = request[l] \/ request'[l] = Idle \/ request'[l] = q
  BY <1>3 DEF EditInv, Typed, End
<1>9. Idle \in Calls /\ Idle.kind = "idle" /\ CallFits(Idle)
  BY DEF Idle, Calls, Readings, Nothing, Kept, CallFits
<1>10. request' \in [Slots -> Calls]
  BY <1>3, <1>6, <1>9 DEF EditInv, Typed, End
<1> HIDE DEF q, s
<1>11. Typed'
  BY <1>1, <1>4, <1>10 DEF EditInv, Typed
<1>12. Fits'
  BY <1>1, <1>7, <1>8, <1>9 DEF EditInv, Fits, CallFits
<1>13. CopiesInv' /\ SentInv' /\ OnceInv' /\ AckInv'
  BY <1>1, <1>4 DEF EditInv, CopiesInv, CopiesAgree, SentInv, OnceInv, AckInv
<1>14. ReadInv'
  BY <1>1, <1>6, <1>8, <1>9 DEF EditInv, ReadInv
<1> QED  BY <1>11, <1>12, <1>13, <1>14 DEF EditInv

\* A step that writes the form, ends a handler or answers, and counts right.
LEMMA WrittenKeeps ==
  ASSUME EditInv, form' \in FormDocs, Moved, sent' = sent,
         links' \in Nat, links <= links', form'.slug <= links',
         copy' \in [Clients -> CopyDocs], waiting' \in [Clients -> Saves \cup {None}],
         \A c \in Clients : copy'[c] = copy[c] \/ copy'[c] = CopyOf(form'),
         request' \in [Slots -> Calls],
         \A l \in Slots : request'[l] = request[l] \/ request'[l] = Idle,
         uses' \in [Saves -> Nat], acked' \subseteq Saves, OnceInv', AckInv'
  PROVE  EditInv'
<1>1. Typed'
  BY DEF EditInv, Typed
<1>2. Fits' /\ CopiesInv' /\ SentInv' /\ ReadInv'
  BY FitsKept, CopiesKept, SentKept, ReadKept DEF EditInv
<1> QED  BY <1>1, <1>2 DEF EditInv

\* A handler that ends leaves its slot.
LEMMA EndFrees ==
  ASSUME Typed, NEW k \in Slots, End(k)
  PROVE  /\ request' \in [Slots -> Calls] /\ request'[k] = Idle
         /\ \A l \in Slots : l # k => request'[l] = request[l]
<1>1. Idle \in Calls
  BY DEF Idle, Calls, Readings, Nothing, Kept
<1> QED  BY <1>1 DEF Typed, End

\* The save writes, and is answered.
LEMMA WriteKeeps ==
  ASSUME EditInv, NEW k \in Slots, Write(k)
  PROVE  EditInv'
<1> DEFINE s == request[k].save
           read == request[k].read
<1>1. /\ request[k].kind = "save" /\ request[k].at = "write" /\ ~sent[s].publish
      /\ UNCHANGED <<sent, tries, links, others>> /\ End(k)
  BY DEF Write
<1>2. /\ s \in Saves /\ sent[s] # None /\ sent[s] \in Sendings /\ read \in Readings
      /\ sent[s].part = "fields" => read.fields \in FieldLists
  BY <1>1 DEF EditInv, Typed, Fits, CallFits, Calls
<1>3. /\ request' \in [Slots -> Calls]
      /\ \A l \in Slots : request'[l] = request[l] \/ request'[l] = Idle
  BY <1>1, EndFrees DEF EditInv
<1>4. /\ form \in FormDocs /\ form.version \in Nat /\ form.slug <= links /\ links \in Nat
      /\ uses \in [Saves -> Nat] /\ acked \subseteq Saves
  BY DEF EditInv, Typed, FormDocs
<1>5. CASE Matches(s)
  <2>1. /\ form' = [form EXCEPT !.content = Patched(s, read),
                                !.version = IF Bumps(sent[s].part) THEN @ + 1 ELSE @,
                                !.lastSave = IF sent[s].checked THEN s ELSE @]
        /\ uses' = [uses EXCEPT ![s] = @ + 1] /\ Answer(s, form')
    BY <1>5 DEF Write
  <2>2. Patched(s, read) \in Content
    BY <1>2, PatchedFits DEF EditInv
  <2>3. Bumps(sent[s].part)
    BY <1>2 DEF Bumps, Sendings
  <2>4. /\ form' \in FormDocs /\ form'.version = form.version + 1 /\ form'.slug = form.slug
        /\ form'.lastSave = IF sent[s].checked THEN s ELSE form.lastSave
    <3> DEFINE content == Patched(s, read)
               last == IF sent[s].checked THEN s ELSE form.lastSave
    <3>1. form' = [form EXCEPT !.content = content, !.version = form.version + 1, !.lastSave = last]
      BY <2>1, <2>3
    <3>2. content \in Content /\ last \in Saves \cup {None}
      BY <1>2, <1>4, <2>2 DEF FormDocs
    <3> HIDE DEF content, last
    <3> DEFINE f1 == [form EXCEPT !.content = content]
               f2 == [f1 EXCEPT !.version = form.version + 1]
    <3>3. f1 \in FormDocs /\ f1.slug = form.slug
      BY <1>4, <3>2 DEF FormDocs
    <3>4. form' = [f2 EXCEPT !.lastSave = last]
      BY <3>1
    <3> HIDE DEF f1
    <3>5. f2 \in FormDocs /\ f2.slug = form.slug /\ f2.version = form.version + 1
      BY <1>4, <3>3 DEF FormDocs
    <3> HIDE DEF f2
    <3>6. /\ form' \in FormDocs /\ form'.version = form.version + 1 /\ form'.slug = form.slug
          /\ form'.lastSave = last
      BY <3>2, <3>4, <3>5 DEF FormDocs
    <3> QED  BY <3>6 DEF last
  <2>5. /\ copy' \in [Clients -> CopyDocs] /\ waiting' \in [Clients -> Saves \cup {None}]
        /\ \A c \in Clients : copy'[c] = copy[c] \/ copy'[c] = CopyOf(form')
        /\ acked' \subseteq acked \cup {s}
    BY <1>2, <2>1, <2>4, Told DEF EditInv
  <2>6. uses' \in [Saves -> Nat] /\ uses'[s] = uses[s] + 1 /\ uses[s] \in Nat
        /\ \A u \in Saves : u # s => uses'[u] = uses[u]
    BY <1>2, <1>4, <2>1
  <2>7. OnceInv'
    <3> SUFFICES ASSUME NEW u \in Saves
                 PROVE  /\ sent[u] = None => uses'[u] = 0
                        /\ sent[u] # None /\ sent[u].checked /\ ~sent[u].publish =>
                             uses'[u] <= 1 /\ (uses'[u] = 1 => sent[u].version < form'.version)
      BY <1>1 DEF OnceInv
    <3>1. sent[u] # None => sent[u].version \in Nat
      BY DEF EditInv, Typed, Sendings
    <3>2. CASE u # s
      BY <1>4, <2>4, <2>6, <3>1, <3>2 DEF EditInv, OnceInv
    <3>3. CASE u = s
      <4>1. sent[s].checked => form.version = sent[s].version
        BY <1>5 DEF Matches
      <4>2. sent[s].checked => uses[s] = 0
        BY <1>1, <1>2, <1>4, <2>6, <4>1 DEF EditInv, OnceInv, Sendings
      <4> QED  BY <1>2, <1>4, <2>4, <2>6, <3>3, <4>1, <4>2
    <3> QED  BY <3>2, <3>3
  <2>8. AckInv'
    <3>1. \A u \in Saves : uses[u] >= 1 => uses'[u] >= 1
      BY <1>4, <2>6
    <3>2. uses'[s] >= 1
      BY <2>6
    <3> QED  BY <1>4, <2>4, <2>5, <3>1, <3>2 DEF EditInv, AckInv
  <2>9. acked' \subseteq Saves
    BY <1>2, <1>4, <2>5
  <2> HIDE DEF s, read
  <2> QED  BY <1>1, <1>3, <1>4, <2>4, <2>5, <2>6, <2>7, <2>8, <2>9, WrittenKeeps DEF Moved
<1>6. CASE ~Matches(s)
  <2>1. /\ UNCHANGED <<form, uses>>
        /\ \/ form.lastSave = s /\ Answer(s, form)
           \/ Refuse(s)
    BY <1>6 DEF Write
  <2>2. /\ copy' \in [Clients -> CopyDocs] /\ waiting' \in [Clients -> Saves \cup {None}]
        /\ \A c \in Clients : copy'[c] = copy[c] \/ copy'[c] = CopyOf(form')
        /\ acked' = acked \/ (form.lastSave = s /\ acked' \subseteq acked \cup {s})
    <3>1. CASE Refuse(s)
      BY <1>2, <1>4, <3>1, Told DEF EditInv
    <3>2. CASE form.lastSave = s /\ Answer(s, form)
      BY <1>2, <1>4, <2>1, <3>2, Told DEF EditInv
    <3> QED  BY <2>1, <3>1, <3>2
  <2>3. OnceInv' /\ AckInv' /\ acked' \subseteq Saves
    BY <1>1, <1>2, <1>4, <2>1, <2>2 DEF EditInv, OnceInv, AckInv
  <2> HIDE DEF s, read
  <2> QED  BY <1>1, <1>3, <1>4, <2>1, <2>2, <2>3, WrittenKeeps DEF Moved
<1> QED  BY <1>5, <1>6

\* Going live keeps everything of the form but its status and its link.
LEMMA LiveFits ==
  ASSUME Typed, NEW slug \in Nat, slug <= links, NEW read, read.slug = slug
  PROVE  /\ Live(read) \in FormDocs /\ Live(read).slug <= links + 1
         /\ Live(read).content = form.content /\ Live(read).version = form.version
         /\ Live(read).lastSave = form.lastSave /\ Live(read).slug = Link(slug)
<1>1. Link(slug) \in Nat /\ Link(slug) <= links + 1 /\ links \in Nat /\ form \in FormDocs
  BY DEF Link, Typed
<1> HIDE DEF Link
<1> QED  BY <1>1 DEF Live, FormDocs

\* The count of links keeps up with the links in use.
LEMMA LinksCount ==
  ASSUME Typed, NEW new \in Nat, CountLink(new)
  PROVE  links' \in Nat /\ links <= links' /\ new <= links'
BY DEF Typed, CountLink

\* A form with a new content under the next version.
RewriteOf(f, content, g) == g = [f EXCEPT !.content = content, !.version = @ + 1]

\* A form with another content, under the next version.
LEMMA Rewritten ==
  ASSUME NEW f \in FormDocs, NEW content \in Content,
         NEW g, RewriteOf(f, content, g)
  PROVE  /\ g \in FormDocs /\ g.version = f.version + 1 /\ g.content = content
         /\ g.lastSave = f.lastSave /\ g.slug = f.slug
<1> DEFINE h == [f EXCEPT !.content = content]
<1>1. /\ h \in FormDocs /\ h.content = content /\ h.version = f.version
      /\ h.lastSave = f.lastSave /\ h.slug = f.slug
  BY DEF FormDocs
<1>2. g = [h EXCEPT !.version = f.version + 1] /\ f.version \in Nat
  BY DEF FormDocs, RewriteOf
<1> HIDE DEF h
<1> QED  BY <1>1, <1>2 DEF FormDocs

\* A save that publishes writes, whatever the version.
LEMMA WritePublishKeeps ==
  ASSUME EditInv, NEW k \in Slots, WritePublish(k)
  PROVE  EditInv'
<1> DEFINE s == request[k].save
           read == request[k].read
<1>1. /\ request[k].kind = "save" /\ request[k].at = "write" /\ sent[s].publish
      /\ UNCHANGED sent /\ End(k)
  BY DEF WritePublish
<1>2. /\ s \in Saves /\ sent[s] # None /\ sent[s] \in Sendings /\ read \in Readings
      /\ sent[s].part = "fields" => read.fields \in FieldLists
      /\ read.slug \in Nat /\ read.slug <= links
  BY <1>1 DEF EditInv, Typed, Fits, CallFits, Calls
<1>3. /\ request' \in [Slots -> Calls]
      /\ \A l \in Slots : request'[l] = request[l] \/ request'[l] = Idle
  BY <1>1, EndFrees DEF EditInv
<1>4. /\ form \in FormDocs /\ form.version \in Nat /\ form.slug <= links /\ links \in Nat
      /\ uses \in [Saves -> Nat] /\ acked \subseteq Saves
  BY DEF EditInv, Typed, FormDocs
<1>5. CASE ~form.trashed
  <2>1. /\ form' = IF sent[s].part = "settings" THEN Live(read)
                   ELSE [Live(read) EXCEPT !.content = Patched(s, read), !.version = @ + 1]
        /\ uses' = [uses EXCEPT ![s] = @ + 1] /\ CountLink(form'.slug) /\ Answer(s, form')
    BY <1>5 DEF WritePublish
  <2>2. /\ Live(read) \in FormDocs /\ Live(read).content = form.content
        /\ Live(read).version = form.version /\ Live(read).lastSave = form.lastSave
    BY <1>2, LiveFits DEF EditInv
  <2>3. Patched(s, read) \in Content
    BY <1>2, PatchedFits DEF EditInv
  <2>4. form' \in FormDocs /\ Moved /\ form'.lastSave = form.lastSave
    <3>1. CASE sent[s].part = "settings"
      BY <2>1, <2>2, <3>1 DEF Moved
    <3>2. CASE sent[s].part # "settings"
      <4>1. form' = [Live(read) EXCEPT !.content = Patched(s, read), !.version = @ + 1]
        BY <2>1, <3>2
      <4> DEFINE l == Live(read)
                 content == Patched(s, read)
      <4>2. l \in FormDocs /\ l.version = form.version /\ l.lastSave = form.lastSave
            /\ form' = [l EXCEPT !.content = content, !.version = @ + 1]
        BY <2>2, <4>1
      <4>3. content \in Content
        BY <2>3
      <4> HIDE DEF s, read, l, content
      <4>4. form' \in FormDocs /\ form'.version = l.version + 1 /\ form'.lastSave = l.lastSave
        <5>1. PICK x, c, g : x = l /\ c = content /\ g = form'
          OBVIOUS
        <5>2. x \in FormDocs /\ c \in Content /\ RewriteOf(x, c, g)
          BY <4>2, <4>3, <5>1 DEF RewriteOf
        <5>3. g \in FormDocs /\ g.version = x.version + 1 /\ g.lastSave = x.lastSave
          BY <5>2, Rewritten
        <5> QED BY <5>1, <5>3
      <4> QED  BY <4>2, <4>4 DEF Moved
    <3> QED  BY <3>1, <3>2
  <2>5. links' \in Nat /\ links <= links' /\ form'.slug <= links' /\ form'.version >= form.version
    <3>1. form'.slug \in Nat /\ form'.version \in Nat
      BY <2>4 DEF FormDocs
    <3>2. links' \in Nat /\ links <= links' /\ form'.slug <= links'
      BY <2>1, <3>1, LinksCount DEF EditInv
    <3>3. form'.version >= form.version
      BY <1>4, <2>4 DEF Moved
    <3> QED  BY <3>2, <3>3
  <2>6. /\ copy' \in [Clients -> CopyDocs] /\ waiting' \in [Clients -> Saves \cup {None}]
        /\ \A c \in Clients : copy'[c] = copy[c] \/ copy'[c] = CopyOf(form')
        /\ acked' \subseteq acked \cup {s}
    BY <1>2, <2>1, <2>4, Told DEF EditInv
  <2>7. uses' \in [Saves -> Nat] /\ uses'[s] = uses[s] + 1 /\ uses[s] \in Nat
        /\ \A u \in Saves : u # s => uses'[u] = uses[u]
    BY <1>2, <1>4, <2>1
  <2>8. OnceInv'
    <3> SUFFICES ASSUME NEW u \in Saves
                 PROVE  /\ sent[u] = None => uses'[u] = 0
                        /\ sent[u] # None /\ sent[u].checked /\ ~sent[u].publish =>
                             uses'[u] <= 1 /\ (uses'[u] = 1 => sent[u].version < form'.version)
      BY <1>1 DEF OnceInv
    <3>1. CASE u = s
      BY <1>1, <1>2, <3>1
    <3>2. CASE u # s
      <4>1. sent[u] # None => sent[u].version \in Nat
        BY DEF EditInv, Typed, Sendings
      <4>2. form'.version \in Nat
        BY <2>4 DEF FormDocs
      <4> QED  BY <1>4, <2>5, <2>7, <3>2, <4>1, <4>2 DEF EditInv, OnceInv
    <3> QED  BY <3>1, <3>2
  <2>9. AckInv'
    <3>1. \A u \in Saves : uses[u] >= 1 => uses'[u] >= 1
      BY <1>4, <2>7
    <3>2. uses'[s] >= 1
      BY <2>7
    <3> QED  BY <1>4, <2>4, <2>6, <3>1, <3>2 DEF EditInv, AckInv
  <2>10. acked' \subseteq Saves
    BY <1>2, <1>4, <2>6
  <2> HIDE DEF s, read
  <2> QED  BY <1>1, <1>3, <2>4, <2>5, <2>6, <2>7, <2>8, <2>9, <2>10, WrittenKeeps
<1>6. CASE form.trashed
  <2>1. UNCHANGED <<form, uses, links>> /\ Refuse(s)
    BY <1>6 DEF WritePublish
  <2>2. /\ copy' \in [Clients -> CopyDocs] /\ waiting' \in [Clients -> Saves \cup {None}]
        /\ copy' = copy /\ acked' = acked
    BY <1>2, <1>4, <2>1, Told DEF EditInv
  <2>3. OnceInv' /\ AckInv' /\ acked' \subseteq Saves
    BY <1>1, <1>4, <2>1, <2>2 DEF EditInv, OnceInv, AckInv
  <2> HIDE DEF s, read
  <2> QED  BY <1>1, <1>3, <1>4, <2>1, <2>2, <2>3, WrittenKeeps DEF Moved
<1> QED  BY <1>5, <1>6

\* Publishing and a new link write the form too.
LEMMA EndLinkKeeps ==
  ASSUME EditInv, NEW k \in Slots, EndPublish(k) \/ EndRegenerate(k)
  PROVE  EditInv'
<1> DEFINE read == request[k].read
<1>1. UNCHANGED <<copy, sent, waiting, acked, uses>> /\ End(k)
  BY DEF EndPublish, EndRegenerate
<1>2. /\ request' \in [Slots -> Calls]
      /\ \A l \in Slots : request'[l] = request[l] \/ request'[l] = Idle
  BY <1>1, EndFrees DEF EditInv
<1>3. form \in FormDocs /\ form.slug <= links /\ links \in Nat /\ form.content \in Content
  BY DEF EditInv, Typed, FormDocs
<1>4. form' \in FormDocs /\ Moved /\ form'.lastSave = form.lastSave /\ ((form' = form /\ links' = links) \/ CountLink(form'.slug))
  <2>1. CASE form.trashed
    BY <1>3, <2>1 DEF EndPublish, EndRegenerate, Moved
  <2>2. CASE ~form.trashed /\ EndPublish(k)
    <3>1. /\ request[k].kind = "publish" /\ CountLink(form'.slug)
          /\ form' = IF request[k].at = "plain" THEN Live(read)
                     ELSE [Live(read) EXCEPT !.content.settings = read.settings, !.version = @ + 1]
      BY <2>2 DEF EndPublish
    <3>2. /\ read.slug \in Nat /\ read.slug <= links
          /\ request[k].at # "plain" => read.settings \in SUBSET Saves
      BY <3>1 DEF EditInv, Fits, CallFits
    <3>3. /\ Live(read) \in FormDocs /\ Live(read).content = form.content
          /\ Live(read).version = form.version /\ Live(read).lastSave = form.lastSave
      BY <3>2, LiveFits DEF EditInv
    <3>4. CASE request[k].at = "plain"
      BY <3>1, <3>3, <3>4 DEF Moved
    <3>5. CASE request[k].at # "plain"
      <4> DEFINE content == [form.content EXCEPT !.settings = read.settings]
      <4>1. content \in Content
        BY <1>3, <3>2, <3>5 DEF Content
      <4>2. form' = [Live(read) EXCEPT !.content = content, !.version = @ + 1]
        BY <3>1, <3>3, <3>5
      <4> DEFINE l == Live(read)
      <4>3. l \in FormDocs /\ l.version = form.version /\ l.lastSave = form.lastSave
            /\ form' = [l EXCEPT !.content = content, !.version = @ + 1]
        BY <3>3, <4>2
      <4> HIDE DEF content, read, l
      <4>4. form' \in FormDocs /\ form'.version = l.version + 1 /\ form'.lastSave = l.lastSave
        <5>1. PICK x, c, g : x = l /\ c = content /\ g = form'
          OBVIOUS
        <5>2. x \in FormDocs /\ c \in Content /\ RewriteOf(x, c, g)
          BY <4>1, <4>3, <5>1 DEF RewriteOf
        <5>3. g \in FormDocs /\ g.version = x.version + 1 /\ g.lastSave = x.lastSave
          BY <5>2, Rewritten
        <5> QED BY <5>1, <5>3
      <4> QED  BY <3>1, <4>3, <4>4 DEF Moved
    <3> QED  BY <3>4, <3>5
  <2>3. CASE ~form.trashed /\ EndRegenerate(k)
    <3>1. form' = [form EXCEPT !.slug = links + 1] /\ CountLink(form'.slug)
      BY <2>3 DEF EndRegenerate
    <3> QED  BY <1>3, <3>1 DEF FormDocs, Moved
  <2> QED  BY <2>1, <2>2, <2>3
<1>5. links' \in Nat /\ links <= links' /\ form'.slug <= links'
  <2>1. form'.slug \in Nat
    BY <1>4 DEF FormDocs
  <2> QED  BY <1>3, <1>4, <2>1, LinksCount DEF EditInv
<1>6. OnceInv' /\ AckInv'
  BY <1>1, <1>4, OnceKept DEF EditInv, AckInv
<1>7. /\ copy' \in [Clients -> CopyDocs] /\ waiting' \in [Clients -> Saves \cup {None}]
      /\ uses' \in [Saves -> Nat] /\ acked' \subseteq Saves
  BY <1>1 DEF EditInv, Typed
<1> QED  BY <1>1, <1>2, <1>4, <1>5, <1>6, <1>7, WrittenKeeps

\* A publish, or a request for a new link, is taken in.
LEMMA LinkCallKeeps ==
  ASSUME EditInv, NEW k \in Slots, Regenerate(k) \/ \E commit \in BOOLEAN : Publish(k, commit)
  PROVE  EditInv'
<1>1. UNCHANGED <<form, copy, sent, waiting, acked, uses, links>>
  BY DEF Regenerate, Publish
<1>2. form.slug \in Nat /\ form.slug <= links /\ form.content.settings \in SUBSET Saves
  BY DEF EditInv, Typed, FormDocs, Content
<1>3. PICK q \in Calls : CallFits(q) /\ q.kind # "save" /\ request' = [request EXCEPT ![k] = q]
  <2>1. CASE Regenerate(k)
    <3> DEFINE q == [kind |-> "regenerate", at |-> "write", save |-> None, read |-> Nothing]
    <3>1. q \in Calls /\ CallFits(q) /\ q.kind # "save"
      BY DEF Calls, Readings, Nothing, Kept, CallFits
    <3>2. request' = [request EXCEPT ![k] = q]
      BY <2>1 DEF Regenerate
    <3> HIDE DEF q
    <3> QED  BY <3>1, <3>2
  <2>2. ASSUME NEW commit \in BOOLEAN, Publish(k, commit)
        PROVE  \E q \in Calls : CallFits(q) /\ q.kind # "save" /\ request' = [request EXCEPT ![k] = q]
    <3> DEFINE read == Kept(None, IF commit THEN form.content.settings ELSE None, form.slug)
               q == [kind |-> "publish", at |-> IF commit THEN "commit" ELSE "plain",
                     save |-> None, read |-> read]
    <3>1. read \in Readings /\ read.slug = form.slug /\ (commit => read.settings = form.content.settings)
      BY <1>2 DEF Readings, Kept
    <3>2. request' = [request EXCEPT ![k] = q]
      BY <2>2 DEF Publish
    <3> HIDE DEF read
    <3>3. q \in Calls /\ CallFits(q) /\ q.kind # "save"
      BY <1>2, <3>1 DEF Calls, CallFits
    <3> HIDE DEF q
    <3> QED  BY <3>2, <3>3
  <2> QED  BY <2>1, <2>2
<1>4. request' \in [Slots -> Calls] /\ \A l \in Slots : request'[l] = request[l] \/ request'[l] = q
  BY <1>3 DEF EditInv, Typed
<1>5. Typed'
  BY <1>1, <1>4 DEF EditInv, Typed
<1>6. Fits'
  BY <1>1, <1>3, <1>4 DEF EditInv, Fits, CallFits
<1>7. CopiesInv' /\ SentInv' /\ OnceInv' /\ AckInv'
  BY <1>1 DEF EditInv, CopiesInv, CopiesAgree, SentInv, OnceInv, AckInv
<1>8. ReadInv'
  BY <1>1, <1>3, <1>4 DEF EditInv, ReadInv
<1> QED  BY <1>5, <1>6, <1>7, <1>8 DEF EditInv

Lives == Close \/ Unpublish \/ Archive \/ Unarchive \/ Trash

\* The status, the archive and Trash are none of the content.
LEMMA LifeKeeps ==
  ASSUME EditInv, Lives
  PROVE  EditInv' /\ form'.content = form.content /\ form'.slug = form.slug /\ request' = request
<1>1. form \in FormDocs
  BY DEF EditInv, Typed
<1>2. /\ form' \in FormDocs /\ form'.content = form.content /\ form'.version = form.version
      /\ form'.slug = form.slug /\ form'.lastSave = form.lastSave
      /\ UNCHANGED <<copy, sent, waiting, request, acked, uses, links>>
  <2>1. CASE Close
    BY <1>1, <2>1 DEF Close, Become, FormDocs
  <2>2. CASE Unpublish
    BY <1>1, <2>2 DEF Unpublish, Become, FormDocs
  <2>3. CASE Archive
    BY <1>1, <2>3 DEF Archive, Become, FormDocs
  <2>4. CASE Unarchive
    BY <1>1, <2>4 DEF Unarchive, Become, FormDocs
  <2>5. CASE Trash
    BY <1>1, <2>5 DEF Trash, Become, FormDocs
  <2> QED  BY <2>1, <2>2, <2>3, <2>4, <2>5 DEF Lives
<1>3. OnceInv' /\ AckInv'
  BY <1>2 DEF EditInv, OnceInv, AckInv
<1>4. EditInv'
  BY <1>2, <1>3, WrittenKeeps DEF EditInv, Typed, Moved
<1> QED  BY <1>2, <1>4

\* Every step keeps the invariant.
LEMMA EditStep == EditInv /\ [Next]_vars => EditInv'
<1> SUFFICES ASSUME EditInv, [Next]_vars PROVE EditInv'
  OBVIOUS
<1>1. CASE \E c \in Clients : Load(c) \/ GiveUp(c)
  BY <1>1, LoadKeeps
<1>2. CASE \E c \in Clients, s \in Saves, piece \in Parts, f \in Fields, checked, publish \in BOOLEAN :
             Send(c, s, piece, f, checked, publish)
  BY <1>2, SendKeeps
<1>3. ASSUME NEW k \in Slots,
             \/ \E s \in Saves : Deliver(k, s)
             \/ Read(k) \/ Write(k) \/ WritePublish(k)
             \/ \E commit \in BOOLEAN : Publish(k, commit)
             \/ EndPublish(k) \/ Regenerate(k) \/ EndRegenerate(k)
      PROVE  EditInv'
  BY <1>3, DeliverKeeps, ReadKeeps, WriteKeeps, WritePublishKeeps, LinkCallKeeps, EndLinkKeeps
<1>4. CASE Lives
  BY <1>4, LifeKeeps
<1>5. CASE UNCHANGED vars
  BY <1>5 DEF vars, EditInv, Typed, Fits, CallFits, CopiesInv, CopiesAgree, SentInv, ReadInv, OnceInv, AckInv
<1> QED  BY <1>1, <1>2, <1>3, <1>4, <1>5 DEF Next, Lives

\* The invariant holds throughout.
LEMMA EditKept == Spec => []EditInv
<1> QED  BY EditInit, EditStep, PTL DEF Spec

\* patchForm: builders who were told a version hold what is stored under it, and a save
\* that asks for its version is stored once, whatever replies get lost and whatever is
\* sent again meanwhile.
THEOREM SavesStay == Spec => []SavesHold
<1>1. EditInv => SavesHold
  <2> SUFFICES ASSUME EditInv PROVE TypeOK /\ CopiesAgree /\ SavedOnce
    BY DEF SavesHold
  <2>1. TypeOK
    BY DEF EditInv, Typed, FormDocs, CopyDocs, CopiesInv, TypeOK
  <2>2. SavedOnce
    BY DEF EditInv, OnceInv, AckInv, SavedOnce
  <2> QED  BY <2>1, <2>2 DEF EditInv, CopiesInv
<1> QED  BY <1>1, EditKept, PTL

-----------------------------------------------------------------------------
(* What a step may not do.                                                     *)

\* The bodies of KeptByChecked, FieldsStay and LinkStays.
SomeBlind == \E k \in Slots : Blind(k)
TextsKept ==
  \A s \in Saves : \A p \in {"text", "settings"} :
    s \in form.content[p] /\ s \notin form'.content[p] => SomeBlind
FieldsKept ==
  \A f \in Fields : form.content.fields[f] # "absent" /\ form'.content.fields[f] = "absent" => SomeBlind
LinkKept ==
  form.slug # 0 /\ form'.slug # form.slug =>
    \E k \in Slots : request[k].kind = "regenerate" /\ request'[k] = Idle

\* A write that asks for its version takes nothing away it has not seen.
LEMMA WriteSpares ==
  ASSUME EditInv, NEW k \in Slots, Write(k), ~Blind(k)
  PROVE  TextsKept /\ FieldsKept /\ form'.slug = form.slug
<1> DEFINE s == request[k].save
           read == request[k].read
<1>1. /\ request[k].kind = "save" /\ request[k].at = "write" /\ ~sent[s].publish /\ End(k)
  BY DEF Write
<1>2. request'[k] = Idle /\ request[k] # Idle
  BY <1>1, EndFrees DEF EditInv, Idle
<1>3. sent[s].checked
  BY <1>1, <1>2 DEF Blind
<1>4. /\ s \in Saves /\ sent[s] # None /\ sent[s] \in Sendings /\ read \in Readings
      /\ sent[s].part = "fields" => read.fields \in FieldLists
      /\ form \in FormDocs /\ form.content \in Content /\ BodyFits(sent[s])
  BY <1>1 DEF EditInv, Typed, Fits, CallFits, Calls, FormDocs
<1>5. CASE ~Matches(s)
  BY <1>5 DEF Write, TextsKept, FieldsKept
<1>6. CASE Matches(s)
  <2>1. form.version = sent[s].version
    BY <1>3, <1>6 DEF Matches
  <2>2. /\ form'.content = Patched(s, read) /\ form'.slug = form.slug
    <3>1. form' = [form EXCEPT !.content = Patched(s, read),
                               !.version = IF Bumps(sent[s].part) THEN @ + 1 ELSE @,
                               !.lastSave = IF sent[s].checked THEN s ELSE @]
      BY <1>6 DEF Write
    <3> HIDE DEF s, read
    <3> QED  BY <1>4, <3>1 DEF FormDocs
  <2>3. /\ \A piece \in Parts : piece # sent[s].part => Patched(s, read)[piece] = form.content[piece]
        /\ Patched(s, read)[sent[s].part] = NewPart(s, read.fields)
    BY <1>4, PatchedFits DEF EditInv
  <2>4. CASE sent[s].part = "fields"
    <3>1. read.fields = form.content.fields
      BY <1>1, <1>3, <2>1, <2>4 DEF EditInv, ReadInv
    <3>2. \A f \in Fields : form.content.fields[f] # "absent" =>
            Merged(form.content.fields, sent[s].body)[f] # "absent"
      BY DEF Merged
    <3>3. form'.content.fields = Merged(form.content.fields, sent[s].body)
      BY <2>2, <2>3, <2>4, <3>1 DEF NewPart
    <3>4. FieldsKept
      BY <3>2, <3>3 DEF FieldsKept
    <3>5. TextsKept
      BY <2>2, <2>3, <2>4 DEF TextsKept, Parts
    <3> QED  BY <2>2, <3>4, <3>5
  <2>5. CASE sent[s].part # "fields"
    <3>1. form.content[sent[s].part] \subseteq sent[s].body
      BY <1>3, <1>4, <2>1, <2>5 DEF EditInv, SentInv
    <3>2. form'.content[sent[s].part] = sent[s].body
      BY <2>2, <2>3, <2>5 DEF NewPart
    <3>3. TextsKept
      BY <2>2, <2>3, <3>1, <3>2 DEF TextsKept, Parts
    <3>4. FieldsKept
      BY <2>2, <2>3, <2>5 DEF FieldsKept, Parts
    <3> QED  BY <2>2, <3>3, <3>4
  <2> QED  BY <2>4, <2>5
<1> QED  BY <1>5, <1>6

\* Every step is such a write, asks for no version, or leaves the content alone.
LEMMA StepSpares == EditInv /\ [Next]_vars => TextsKept /\ FieldsKept
<1> SUFFICES ASSUME EditInv, [Next]_vars PROVE TextsKept /\ FieldsKept
  OBVIOUS
<1>1. CASE SomeBlind
  BY <1>1 DEF TextsKept, FieldsKept
<1>2. CASE form'.content = form.content
  BY <1>2 DEF TextsKept, FieldsKept
<1>3. ASSUME NEW k \in Slots, Write(k)
      PROVE  SomeBlind \/ (TextsKept /\ FieldsKept)
  <2>1. CASE Blind(k)
    BY <1>3, <2>1 DEF SomeBlind
  <2>2. CASE ~Blind(k)
    BY <1>3, <2>2, WriteSpares
  <2> QED  BY <2>1, <2>2
<1>4. ASSUME NEW k \in Slots, WritePublish(k) \/ EndPublish(k) \/ EndRegenerate(k)
      PROVE  SomeBlind
  <2>1. End(k) /\ request[k].kind \in {"save", "publish", "regenerate"}
        /\ (request[k].kind = "save" => sent[request[k].save].publish)
    BY <1>4 DEF WritePublish, EndPublish, EndRegenerate
  <2>2. request'[k] = Idle /\ request[k] # Idle
    BY <2>1, EndFrees DEF EditInv, Idle
  <2> QED  BY <2>1, <2>2 DEF SomeBlind, Blind
<1>5. ASSUME NEW k \in Slots,
             \/ \E s \in Saves : Deliver(k, s)
             \/ Read(k) \/ Regenerate(k)
             \/ \E commit \in BOOLEAN : Publish(k, commit)
      PROVE  form' = form
  BY <1>5 DEF Deliver, Read, Regenerate, Publish
<1>6. CASE \E c \in Clients : Load(c) \/ GiveUp(c)
  BY <1>2, <1>6 DEF Load, GiveUp
<1>7. CASE \E c \in Clients, s \in Saves, piece \in Parts, f \in Fields, checked, publish \in BOOLEAN :
             Send(c, s, piece, f, checked, publish)
  BY <1>2, <1>7 DEF Send
<1>8. CASE Lives
  BY <1>2, <1>8, LifeKeeps
<1>9. CASE UNCHANGED vars
  BY <1>2, <1>9 DEF vars
<1> QED  BY <1>1, <1>2, <1>3, <1>4, <1>5, <1>6, <1>7, <1>8, <1>9 DEF Next, Lives

\* staleForm, CONTENT_KEYS: what a save has put into the form, and every field with its
\* answers, goes away only by a write that asks for no version.
THEOREM ContentStays == Spec => KeptByChecked /\ FieldsStay
<1>1. EditInv /\ [Next]_vars => [TextsKept]_vars /\ [FieldsKept]_vars
  BY StepSpares
<1>2. Spec => [][TextsKept]_vars /\ [][FieldsKept]_vars
  BY <1>1, EditKept, PTL DEF Spec
<1> QED  BY <1>2 DEF KeptByChecked, FieldsStay, TextsKept, FieldsKept, SomeBlind

-----------------------------------------------------------------------------
(* The public link, when at most one request about it is under way.            *)

\* The requests about the link are one at most, and it has read the link the form has.
Linking(q) == \/ q.kind \in {"publish", "regenerate"}
              \/ q.kind = "save" /\ sent[q.save].publish
Holds(q) == q.kind = "publish" \/ (q.kind = "save" /\ q.at = "write")
LinkInv ==
  /\ \A k, l \in Slots : Linking(request[k]) /\ Linking(request[l]) => k = l
  /\ \A k \in Slots : Linking(request[k]) /\ Holds(request[k]) => request[k].read.slug = form.slug

\* A step that takes a request in, or takes it further.
LEMMA CallLinks ==
  ASSUME LinkInv, sent' = sent, form'.slug = form.slug, NEW k \in Slots, NEW q,
         \A l \in Slots : l # k => request'[l] = request[l],
         request'[k] = q,
         Linking(q) => Linking(request[k]) \/ \A l \in Slots : ~Linking(request[l]),
         Linking(q) /\ Holds(q) => q.read.slug = form.slug
  PROVE  LinkInv'
BY DEF LinkInv, Linking, Holds

\* A handler that ends: it was the one about the link, or left the link alone.
LEMMA EndLinks ==
  ASSUME LinkInv, sent' = sent, NEW k \in Slots, request'[k] = Idle,
         \A l \in Slots : l # k => request'[l] = request[l],
         Linking(request[k]) \/ form'.slug = form.slug
  PROVE  LinkInv'
<1>1. Idle.kind = "idle"
  BY DEF Idle
<1> QED  BY <1>1 DEF LinkInv, Linking, Holds

\* Every step keeps the link in one hand.
LEMMA LinkStep ==
  ASSUME OnePublisher, EditInv, LinkInv, [Next]_vars
  PROVE  LinkInv' /\ LinkKept
<1>1. \A k \in Slots : request[k].kind = "save" => request[k].save \in Saves /\ sent[request[k].save] # None
  BY DEF EditInv, Fits, CallFits
<1>2. \A k \in Slots : request[k] \in Calls
  BY DEF EditInv, Typed
<1>3. MayLink(TRUE) <=> \A k \in Slots : ~Linking(request[k])
  BY DEF MayLink, LinkCalls, Linking
<1>4. CASE \E c \in Clients : Load(c) \/ GiveUp(c)
  BY <1>4 DEF Load, GiveUp, LinkInv, Linking, Holds, LinkKept
<1>5. ASSUME NEW c \in Clients, NEW s \in Saves, NEW piece \in Parts, NEW f \in Fields,
             NEW checked \in BOOLEAN, NEW publish \in BOOLEAN, Send(c, s, piece, f, checked, publish)
      PROVE  LinkInv' /\ LinkKept
  <2>1. UNCHANGED <<form, request>> /\ sent[s] = None
    BY <1>5 DEF Send
  <2>2. \A u \in Saves : u # s => sent'[u] = sent[u]
    BY <1>5 DEF Send, EditInv, Typed
  <2>3. \A k \in Slots : Linking(request[k])' <=> Linking(request[k])
    BY <1>1, <2>1, <2>2 DEF Linking
  <2> QED  BY <2>1, <2>3 DEF LinkInv, Holds, LinkKept
<1>6. ASSUME NEW k \in Slots, NEW s \in Saves, Deliver(k, s)
      PROVE  LinkInv' /\ LinkKept
  <2> DEFINE q == [kind |-> "save", at |-> "read", save |-> s, read |-> Nothing]
  <2>1. UNCHANGED <<form, sent>> /\ MayLink(sent[s].publish)
    BY <1>6 DEF Deliver
  <2>2. CASE request' = request
    BY <2>1, <2>2 DEF LinkInv, Linking, Holds, LinkKept
  <2>3. CASE request' = [request EXCEPT ![k] = q]
    <3>1. request'[k] = q /\ \A l \in Slots : l # k => request'[l] = request[l]
      BY <2>3 DEF EditInv, Typed
    <3>2. Linking(q) => \A l \in Slots : ~Linking(request[l])
      BY <2>1, <1>3 DEF Linking, MayLink
    <3>3. ~Holds(q)
      BY DEF Holds
    <3> HIDE DEF q
    <3> QED  BY <2>1, <3>1, <3>2, <3>3, CallLinks DEF LinkKept
  <2> QED  BY <1>6, <2>2, <2>3 DEF Deliver
<1>7. ASSUME NEW k \in Slots, Read(k)
      PROVE  LinkInv' /\ LinkKept
  <2> DEFINE s == request[k].save
             kept == Kept(IF sent[s].part = "fields" THEN form.content.fields ELSE None, None,
                          IF sent[s].publish THEN form.slug ELSE None)
             q == [request[k] EXCEPT !.at = "write", !.read = kept]
  <2>1. request[k].kind = "save" /\ UNCHANGED <<form, sent>>
        /\ (End(k) \/ request' = [request EXCEPT ![k] = q])
    BY <1>7 DEF Read
  <2>2. CASE End(k)
    BY <2>1, <2>2, EndFrees, EndLinks DEF EditInv, LinkKept
  <2>3. CASE request' = [request EXCEPT ![k] = q]
    <3>1. request'[k] = q /\ \A l \in Slots : l # k => request'[l] = request[l]
      BY <2>3 DEF EditInv, Typed
    <3>2. q.kind = request[k].kind /\ q.save = s /\ q.read = kept
      BY <1>2 DEF Calls
    <3>3. sent[s].publish => kept.slug = form.slug
      BY DEF Kept
    <3> HIDE DEF q, kept
    <3>4. Linking(q) => Linking(request[k]) /\ q.read.slug = form.slug
      BY <2>1, <3>2, <3>3 DEF Linking
    <3> QED  BY <2>1, <3>1, <3>4, CallLinks DEF LinkKept
  <2> QED  BY <2>1, <2>2, <2>3
<1>8. ASSUME NEW k \in Slots, Write(k)
      PROVE  LinkInv' /\ LinkKept
  <2>1. request[k].kind = "save" /\ ~sent[request[k].save].publish /\ End(k) /\ sent' = sent
    BY <1>8 DEF Write
  <2>2. form'.slug = form.slug
    <3>1. CASE Matches(request[k].save)
      <4> DEFINE s == request[k].save
                 content == Patched(s, request[k].read)
                 version == IF Bumps(sent[s].part) THEN form.version + 1 ELSE form.version
                 last == IF sent[s].checked THEN s ELSE form.lastSave
      <4>1. form \in FormDocs
        BY DEF EditInv, Typed
      <4>2. form' = [form EXCEPT !.content = content, !.version = version, !.lastSave = last]
        BY <1>8, <3>1 DEF Write
      <4> HIDE DEF content, version, last
      <4> QED  BY <4>1, <4>2 DEF FormDocs
    <3>2. CASE ~Matches(request[k].save)
      BY <1>8, <3>2 DEF Write
    <3> QED  BY <3>1, <3>2
  <2> QED  BY <2>1, <2>2, EndFrees, EndLinks DEF EditInv, LinkKept
<1>9. ASSUME NEW k \in Slots, WritePublish(k) \/ EndPublish(k)
      PROVE  LinkInv' /\ LinkKept
  <2>1. Linking(request[k]) /\ Holds(request[k]) /\ End(k) /\ sent' = sent
    <3>1. CASE WritePublish(k)
      BY <3>1 DEF WritePublish, Linking, Holds
    <3>2. CASE EndPublish(k)
      <4>1. request[k].kind = "publish" /\ End(k) /\ UNCHANGED sent
        BY <3>2 DEF EndPublish
      <4> QED  BY <4>1 DEF Linking, Holds
    <3> QED  BY <1>9, <3>1, <3>2
  <2>2. request[k].read.slug = form.slug /\ form \in FormDocs
    BY <2>1 DEF LinkInv, EditInv, Typed
  <2>3. form.slug # 0 => form'.slug = form.slug
    <3> DEFINE l == Live(request[k].read)
    <3>1. form.slug # 0 => l.slug = form.slug
      BY <2>2 DEF Live, Link, FormDocs
    <3>2. l \in FormDocs
      <4>1. form.slug \in Nat /\ form.slug <= links
        BY <2>2 DEF EditInv, Typed, FormDocs
      <4> QED  BY <2>2, <4>1, LiveFits DEF EditInv
    <3>3. \/ form' = form
          \/ form' = l
          \/ \E content, version : form' = [l EXCEPT !.content = content, !.version = version]
      <4>1. CASE WritePublish(k)
        BY <4>1 DEF WritePublish
      <4>2. CASE EndPublish(k)
        BY <4>2 DEF EndPublish
      <4> QED  BY <1>9, <4>1, <4>2
    <3> HIDE DEF l
    <3> QED  BY <3>1, <3>2, <3>3 DEF FormDocs
  <2> QED  BY <2>1, <2>3, EndFrees, EndLinks DEF EditInv, LinkKept
<1>10. ASSUME NEW k \in Slots, EndRegenerate(k)
       PROVE  LinkInv' /\ LinkKept
  <2>1. Linking(request[k]) /\ request[k].kind = "regenerate" /\ End(k) /\ sent' = sent
    BY <1>10 DEF EndRegenerate, Linking
  <2> QED  BY <2>1, EndFrees, EndLinks DEF EditInv, LinkKept
<1>11. ASSUME NEW k \in Slots, Regenerate(k) \/ \E commit \in BOOLEAN : Publish(k, commit)
       PROVE  LinkInv' /\ LinkKept
  <2>1. UNCHANGED <<form, sent>> /\ \A l \in Slots : ~Linking(request[l])
    BY <1>3, <1>11 DEF Regenerate, Publish
  <2>2. \E q : request' = [request EXCEPT ![k] = q] /\ (Holds(q) => q.read.slug = form.slug)
    <3>1. CASE Regenerate(k)
      <4> DEFINE q == [kind |-> "regenerate", at |-> "write", save |-> None, read |-> Nothing]
      <4>1. request' = [request EXCEPT ![k] = q] /\ ~Holds(q)
        BY <3>1 DEF Regenerate, Holds
      <4> HIDE DEF q
      <4> QED  BY <4>1
    <3>2. ASSUME NEW commit \in BOOLEAN, Publish(k, commit)
          PROVE  \E q : request' = [request EXCEPT ![k] = q] /\ (Holds(q) => q.read.slug = form.slug)
      <4> DEFINE read == Kept(None, IF commit THEN form.content.settings ELSE None, form.slug)
                 q == [kind |-> "publish", at |-> IF commit THEN "commit" ELSE "plain",
                       save |-> None, read |-> read]
      <4>1. request' = [request EXCEPT ![k] = q] /\ q.read.slug = form.slug
        BY <3>2 DEF Publish, Kept
      <4> HIDE DEF q
      <4> QED  BY <4>1
    <3> QED  BY <1>11, <3>1, <3>2
  <2>3. PICK q : request' = [request EXCEPT ![k] = q] /\ (Holds(q) => q.read.slug = form.slug)
    BY <2>2
  <2>4. request'[k] = q /\ \A l \in Slots : l # k => request'[l] = request[l]
    BY <2>3 DEF EditInv, Typed
  <2> QED  BY <2>1, <2>3, <2>4, CallLinks DEF LinkKept
<1>12. CASE Lives
  <2>1. sent' = sent /\ request' = request /\ form'.slug = form.slug
    BY <1>12, LifeKeeps DEF Lives, Close, Unpublish, Archive, Unarchive, Trash, Become
  <2> QED  BY <2>1 DEF LinkInv, Linking, Holds, LinkKept
<1>13. CASE UNCHANGED vars
  BY <1>13 DEF vars, LinkInv, Linking, Holds, LinkKept
<1> QED  BY <1>4, <1>5, <1>6, <1>7, <1>8, <1>9, <1>10, <1>11, <1>12, <1>13 DEF Next, Lives

\* The invariant of the link, as long as requests about it come one at a time.
LEMMA LinkHeld == ASSUME OnePublisher PROVE Spec => [](EditInv /\ LinkInv)
<1>1. Init => LinkInv
  BY DEF Init, Idle, LinkInv, Linking
<1>2. EditInv /\ LinkInv /\ [Next]_vars => LinkInv'
  BY LinkStep
<1> QED  BY <1>1, <1>2, EditInit, EditStep, PTL DEF Spec

\* regenerateLink: where requests about the link come one at a time, it is replaced by
\* none but regenerate-link, and what was saved stays with it.
THEOREM EditsKept == ASSUME OnePublisher PROVE Spec => EditsStay
<1>1. EditInv /\ LinkInv /\ [Next]_vars => [LinkKept]_vars
  BY LinkStep
<1>2. Spec => [][LinkKept]_vars
  BY <1>1, LinkHeld, PTL DEF Spec
<1>3. Spec => LinkStays
  BY <1>2 DEF LinkStays, LinkKept
<1> QED  BY <1>3, ContentStays DEF EditsStay

-----------------------------------------------------------------------------
(* Keeping: a form that moves, its shares and pins.                             *)

Asking == [op : {"none", "move", "share", "pin"},
           at : {"idle", "shares", "save", "members", "drop", "follow", "look", "write", "tell"},
           by : Users \cup {Nil}, whom : Users \cup {Nil}, role : Roles \cup {Nil},
           home : Homes \cup {Nil}, to : Homes \cup Roles \cup {Nil}, keep : SUBSET Users]

\* What a request carries, by what it asks.
Carries(r) ==
  /\ r.op = "move" => /\ r.by \in Users /\ r.home \in Homes /\ r.to \in Homes
                      /\ r.at \in {"shares", "save", "members", "drop", "follow"}
  /\ r.op = "share" => /\ r.whom \in Users /\ r.role \in Roles /\ r.home \in Homes /\ r.to \in Roles \cup {Nil}
                       /\ r.at \in {"look", "write", "tell"}
  /\ r.op = "pin" => r.by \in Users /\ r.home \in Homes /\ r.at = "idle"
  /\ r.op = "none" => r.at = "idle"

MovingTypes ==
  /\ home \in Homes /\ creator \in Users
  /\ role \in [Workspaces -> [Users -> Roles \cup {Nil}]]
  /\ grant \in [Users -> {Nil} \cup [role : Roles, home : Homes, late : BOOLEAN]]
  /\ pin \in [Users -> {Nil} \cup [home : Homes, late : BOOLEAN]]
  /\ req \in [Hands -> Asking] /\ torn \in BOOLEAN
  /\ \A h \in Hands : Carries(req[h])

\* While a form is about to be saved, only shares written meanwhile are left.
SharesInv ==
  /\ SharesStayBehind
  /\ (\E h \in Hands : Moving(h) /\ req[h].at = "save") => \A u \in Users : grant[u] # Nil => grant[u].late

\* He was told, or is about to be.
ToldOrAbout(u) ==
  \/ u \in told \cup untold
  \/ \E h \in Hands : req[h].at = "tell" /\ req[h].whom = u

\* Whoever held a share when another request looked was told.
ToldInv ==
  /\ HoldersTold
  /\ \A h \in Hands : req[h].op = "share" /\ req[h].at = "write" /\ req[h].to # Nil => ToldOrAbout(req[h].whom)

\* With one move at a time: pins are with the form until it is saved, and it is where
\* the move takes it from then on.
PinsSettled == \A u \in Users : pin[u] # Nil /\ ~pin[u].late => pin[u].home = home
PinsInv ==
  /\ \A h, j \in Hands : Moving(h) /\ Moving(j) => h = j
  /\ torn \/ /\ \A h \in Hands : Moving(h) => IF req[h].at \in {"shares", "save"} THEN PinsSettled ELSE home = req[h].to
             /\ (\A h \in Hands : ~Moving(h)) => PinsSettled

-----------------------------------------------------------------------------
(* Keeping: how a form looks, and what is kept up to a number.                  *)

Sayings == [version : Nat, says : People \cup {Nil}]
Pending(op) == {h \in Hands : want[h].op = op}

\* What somebody has of the default view is an earlier one, or the one there is.
Earlier(x) == x.version <= default.version /\ (x.version = default.version => x = default)

LooksTypes ==
  /\ default \in Sayings /\ (default.says = Nil <=> default.version = 0)
  /\ seen \in [People -> Sayings] /\ want = [h \in Hands |-> want[h]]
  /\ rows \in [Look!Kinds -> Nat] /\ stale \in Nat /\ stale <= rows["pin"]
  /\ \A h \in Hands : want[h].op \in {"idle", "default", "show", "hide", "remove"} \cup Look!Kinds
  /\ \A h \in Hands : want[h].op = "default" => want[h].by \in People /\ want[h].was \in Sayings
DefaultInv ==
  /\ ~over /\ \A p \in People : Earlier(seen[p])
  /\ \A h \in Hands : want[h].op = "default" => Earlier(want[h].was)

\* Every request that is to write is counted with what is written.
RoomInv ==
  /\ \A k \in Look!Kinds : rows[k] + Cardinality(Pending(k)) < Limit + Cardinality(Hands)
  /\ default.version + Cardinality(Pending("default")) <= IF part = "looks" THEN started ELSE 0
  /\ started \in Nat /\ (part = "looks" => started <= MaxLooks)

-----------------------------------------------------------------------------
(* Keeping: copies of forms.                                                    *)

FieldSet(F) ==
  /\ F = [i \in DOMAIN F |-> F[i]] /\ DOMAIN F \subseteq 1..made
  /\ \A i \in DOMAIN F : F[i] \in [gone : BOOLEAN, shows : Nat]
FormCopiesInv ==
  /\ made \in 1..MaxField
  /\ fields = [f \in Forms |-> fields[f]] /\ template = [t \in Templates |-> template[t]]
  /\ \A f \in Forms : fields[f] # Nil => FieldSet(fields[f]) /\ Copy!Whole(fields[f])
  /\ \A t \in Templates : template[t] # Nil =>
       FieldSet(template[t]) /\ \A i \in DOMAIN template[t] : ~template[t][i].gone /\ template[t][i].shows # i


-----------------------------------------------------------------------------
(* A form that moves, its shares and pins.                                      *)

\* No request, and the three kinds of requests as they begin.
LEMMA NoRequestFits == NoRequest \in Asking /\ Carries(NoRequest) /\ NoRequest.op = "none" /\ NoRequest.at = "idle"
BY DEF NoRequest, Asking, Carries

\* The request a move starts with.
LEMMA MoveBegins ==
  ASSUME NEW u \in Users, NEW g \in Homes, NEW w \in Homes, NEW r,
         r = [NoRequest EXCEPT !.op = "move", !.at = "shares", !.by = u, !.home = g, !.to = w]
  PROVE  r \in Asking /\ Carries(r) /\ r.op = "move" /\ r.at = "shares" /\ r.to = w
<1>1. r = [op |-> "move", at |-> "shares", by |-> u, whom |-> Nil, role |-> Nil, home |-> g, to |-> w, keep |-> {}]
  BY DEF NoRequest
<1> QED  BY <1>1 DEF Asking, Carries

\* The request a share starts with.
LEMMA ShareBegins ==
  ASSUME NEW u \in Users, NEW v \in Users, NEW g \in Homes, NEW k \in Roles, NEW r,
         r = [NoRequest EXCEPT !.op = "share", !.at = "look", !.by = u, !.whom = v, !.role = k, !.home = g]
  PROVE  r \in Asking /\ Carries(r) /\ r.op = "share" /\ r.at = "look"
<1>1. r = [op |-> "share", at |-> "look", by |-> u, whom |-> v, role |-> k, home |-> g, to |-> Nil, keep |-> {}]
  BY DEF NoRequest
<1>2. Nil \in Users \cup {Nil} /\ Nil \in Roles \cup {Nil} /\ Nil \in Homes \cup Roles \cup {Nil}
  OBVIOUS
<1>3. r \in Asking
  BY <1>1, <1>2 DEF Asking
<1>4. r.op = "share" /\ r.at = "look" /\ r.whom = v /\ r.role = k /\ r.home = g /\ r.to = Nil
  BY DEF NoRequest
<1> QED  BY <1>2, <1>3, <1>4 DEF Carries

\* The request a pin starts with.
LEMMA PinBegins ==
  ASSUME NEW u \in Users, NEW g \in Homes, NEW r, r = [NoRequest EXCEPT !.op = "pin", !.by = u, !.home = g]
  PROVE  r \in Asking /\ Carries(r) /\ r.op = "pin" /\ r.at = "idle"
<1>1. r = [op |-> "pin", at |-> "idle", by |-> u, whom |-> Nil, role |-> Nil, home |-> g, to |-> Nil, keep |-> {}]
  BY DEF NoRequest
<1>2. Nil \in Users \cup {Nil} /\ Nil \in Roles \cup {Nil} /\ Nil \in Homes \cup Roles \cup {Nil}
  OBVIOUS
<1>3. r \in Asking
  BY <1>1, <1>2 DEF Asking
<1>4. r.op = "pin" /\ r.at = "idle" /\ r.by = u /\ r.home = g
  BY DEF NoRequest
<1> QED  BY <1>3, <1>4 DEF Carries

\* A request that goes on at another place.
LEMMA GoesOn ==
  ASSUME NEW r \in Asking, NEW at \in {"save", "members", "drop", "follow", "write", "tell"}
  PROVE  LET n == [r EXCEPT !.at = at]
         IN /\ n \in Asking /\ n.at = at /\ n.op = r.op /\ n.by = r.by /\ n.whom = r.whom /\ n.role = r.role
            /\ n.home = r.home /\ n.to = r.to /\ n.keep = r.keep
BY DEF Asking

\* What Put does to the requests.
LEMMA PutTypes ==
  ASSUME MovingTypes, NEW h \in Hands, NEW r \in Asking, Carries(r), Put(h, r)
  PROVE  /\ req' \in [Hands -> Asking] /\ \A j \in Hands : Carries(req'[j])
         /\ req'[h] = r /\ \A j \in Hands : j # h => req'[j] = req[j]
BY DEF MovingTypes, Put

MovingRests == UNCHANGED <<home, creator, role, grant, told, pin, req, untold, torn>>

\* Everything but the invariants of shares, pins and notices; shared by them all.
LEMMA MovingTyped ==
  ASSUME MovingTypes, MovingNext \/ MovingRests
  PROVE  MovingTypes'
<1>1. CASE MovingRests
  BY <1>1 DEF MovingRests, MovingTypes
<1>2. ASSUME NEW h \in Hands, EndShares(h)
      PROVE  MovingTypes'
  <2>1. PICK r : r = req[h]
    OBVIOUS
  <2>2. r \in Asking /\ Carries(r) /\ r.op = "move"
    BY <1>2, <2>1 DEF MovingTypes, EndShares, Moving
  <2>3. PICK n : n = [r EXCEPT !.at = "save"]
    OBVIOUS
  <2>4. n \in Asking /\ Carries(n)
    BY <2>2, <2>3, GoesOn DEF Carries
  <2>5. Put(h, n)
    BY <1>2, <2>1, <2>3 DEF EndShares
  <2>6. grant' \in [Users -> {Nil} \cup [role : Roles, home : Homes, late : BOOLEAN]]
    BY <1>2 DEF EndShares
  <2> QED  BY <1>2, <2>4, <2>5, <2>6, PutTypes DEF EndShares, MovingTypes
<1>3. ASSUME NEW h \in Hands, SaveMove(h)
      PROVE  MovingTypes'
  <2>1. PICK r : r = req[h]
    OBVIOUS
  <2>2. r \in Asking /\ Carries(r) /\ r.op = "move"
    BY <1>3, <2>1 DEF MovingTypes, SaveMove, Moving
  <2>3. PICK n : n = [r EXCEPT !.at = "members"]
    OBVIOUS
  <2>4. n \in Asking /\ Carries(n)
    BY <2>2, <2>3, GoesOn DEF Carries
  <2>5. Put(h, n) /\ home' = r.to /\ creator' = IF r.to = Personal THEN r.by ELSE creator
    BY <1>3, <2>1, <2>3 DEF SaveMove
  <2>6. home' \in Homes /\ creator' \in Users
    BY <2>2, <2>5 DEF Carries, MovingTypes
  <2> QED  BY <1>3, <2>4, <2>5, <2>6, PutTypes DEF SaveMove, MovingTypes
<1>4. ASSUME NEW h \in Hands, SaveMoveRefused(h)
      PROVE  MovingTypes'
  BY <1>4, PutTypes, NoRequestFits DEF SaveMoveRefused, Done, MovingTypes
<1>5. ASSUME NEW h \in Hands, ReadMembers(h)
      PROVE  MovingTypes'
  <2>1. PICK r : r = req[h]
    OBVIOUS
  <2>2. r \in Asking /\ Carries(r) /\ r.op = "move"
    BY <1>5, <2>1 DEF MovingTypes, ReadMembers, Moving
  <2>3. PICK k : k = IF r.to = Personal THEN {r.by} ELSE {u \in Users : role[r.to][u] # Nil}
    OBVIOUS
  <2>4. k \subseteq Users
    BY <2>2, <2>3 DEF Carries
  <2>5. PICK n : n = [r EXCEPT !.at = "drop", !.keep = k]
    OBVIOUS
  <2>6. n \in Asking /\ Carries(n)
    BY <2>2, <2>4, <2>5 DEF Carries, Asking
  <2>7. Put(h, n)
    BY <1>5, <2>1, <2>3, <2>5 DEF ReadMembers
  <2> QED  BY <1>5, <2>6, <2>7, PutTypes DEF ReadMembers, MovingTypes
<1>6. ASSUME NEW h \in Hands, DropPins(h)
      PROVE  MovingTypes'
  <2>1. PICK r : r = req[h]
    OBVIOUS
  <2>2. r \in Asking /\ Carries(r) /\ r.op = "move"
    BY <1>6, <2>1 DEF MovingTypes, DropPins, Moving
  <2>3. PICK n : n = [r EXCEPT !.at = "follow"]
    OBVIOUS
  <2>4. n \in Asking /\ Carries(n)
    BY <2>2, <2>3, GoesOn DEF Carries
  <2>5. Put(h, n)
    BY <1>6, <2>1, <2>3 DEF DropPins
  <2>6. pin' \in [Users -> {Nil} \cup [home : Homes, late : BOOLEAN]]
    BY <1>6 DEF DropPins, MovingTypes
  <2> QED  BY <1>6, <2>4, <2>5, <2>6, PutTypes DEF DropPins, MovingTypes
<1>7. ASSUME NEW h \in Hands, FollowPins(h)
      PROVE  MovingTypes'
  <2>1. req[h].to \in Homes
    BY <1>7 DEF FollowPins, Moving, MovingTypes, Carries
  <2>2. pin' \in [Users -> {Nil} \cup [home : Homes, late : BOOLEAN]]
    BY <1>7, <2>1 DEF FollowPins, MovingTypes
  <2> QED  BY <1>7, <2>2, PutTypes, NoRequestFits DEF FollowPins, Done, MovingTypes
<1>8. ASSUME NEW h \in Hands, LookAtShare(h)
      PROVE  MovingTypes'
  <2>1. PICK r : r = req[h]
    OBVIOUS
  <2>2. r \in Asking /\ Carries(r) /\ r.op = "share"
    BY <1>8, <2>1 DEF MovingTypes, LookAtShare
  <2>3. PICK t : t = IF grant[r.whom] = Nil THEN Nil ELSE grant[r.whom].role
    OBVIOUS
  <2>4. t \in Roles \cup {Nil}
    BY <2>2, <2>3 DEF Carries, MovingTypes
  <2>5. PICK n : n = [r EXCEPT !.at = "write", !.to = t]
    OBVIOUS
  <2>6. n \in Asking /\ Carries(n)
    BY <2>2, <2>4, <2>5 DEF Carries, Asking
  <2>7. Done(h) \/ Put(h, n)
    BY <1>8, <2>1, <2>3, <2>5 DEF LookAtShare
  <2> QED  BY <1>8, <2>6, <2>7, PutTypes, NoRequestFits DEF LookAtShare, MovingTypes, Done
<1>9. ASSUME NEW h \in Hands, WriteShare(h)
      PROVE  MovingTypes'
  <2>1. PICK r : r = req[h]
    OBVIOUS
  <2>2. r \in Asking /\ Carries(r) /\ r.op = "share" /\ r.at = "write"
    BY <1>9, <2>1 DEF MovingTypes, WriteShare
  <2>3. PICK n : n = [r EXCEPT !.at = "tell"]
    OBVIOUS
  <2>4. n \in Asking /\ Carries(n)
    BY <2>2, <2>3, GoesOn DEF Carries
  <2>5. Done(h) \/ Put(h, n)
    BY <1>9, <2>1, <2>3 DEF WriteShare
  <2>6. PICK l \in BOOLEAN : l = Crossed(r)
    BY DEF Crossed
  <2>7. grant' = [grant EXCEPT ![r.whom] = [role |-> r.role, home |-> r.home, late |-> l]]
    BY <1>9, <2>1, <2>6 DEF WriteShare
  <2>8. grant' \in [Users -> {Nil} \cup [role : Roles, home : Homes, late : BOOLEAN]]
    BY <2>2, <2>7 DEF MovingTypes, Carries
  <2> QED  BY <1>9, <2>4, <2>5, <2>8, PutTypes, NoRequestFits DEF WriteShare, MovingTypes, Done
<1>10. ASSUME NEW h \in Hands, TellShare(h)
       PROVE  MovingTypes'
  BY <1>10, PutTypes, NoRequestFits DEF TellShare, Done, MovingTypes
<1>11. ASSUME NEW h \in Hands, WritePin(h)
       PROVE  MovingTypes'
  <2>1. req[h].by \in Users /\ req[h].home \in Homes
    BY <1>11 DEF WritePin, MovingTypes, Carries
  <2>2. PICK l \in BOOLEAN : l = (home # req[h].home)
    OBVIOUS
  <2>3. pin' \in [Users -> {Nil} \cup [home : Homes, late : BOOLEAN]]
    BY <1>11, <2>1, <2>2 DEF WritePin, MovingTypes
  <2> QED  BY <1>11, <2>3, PutTypes, NoRequestFits DEF WritePin, Done, MovingTypes
<1>12. ASSUME NEW h \in Hands, CutShort(h)
       PROVE  MovingTypes'
  <2>1. torn' \in BOOLEAN
    BY <1>12 DEF CutShort, Moving, MovingTypes
  <2> QED  BY <1>12, <2>1, PutTypes, NoRequestFits DEF CutShort, Done, MovingTypes
<1>13. ASSUME NEW h \in Hands, NEW u \in Users, Pin(h, u)
       PROVE  MovingTypes'
  <2>1. PICK r : r = [NoRequest EXCEPT !.op = "pin", !.by = u, !.home = home]
    OBVIOUS
  <2>2. r \in Asking /\ Carries(r)
    BY <2>1, PinBegins DEF MovingTypes
  <2>3. Put(h, r)
    BY <1>13, <2>1 DEF Pin, Start
  <2> QED  BY <1>13, <2>2, <2>3, PutTypes DEF Pin, MovingTypes
<1>14. ASSUME NEW h \in Hands, NEW u \in Users, NEW w \in Homes, Move(h, u, w)
       PROVE  MovingTypes'
  <2>1. PICK r : r = [NoRequest EXCEPT !.op = "move", !.at = "shares", !.by = u, !.home = home, !.to = w]
    OBVIOUS
  <2>2. r \in Asking /\ Carries(r)
    BY <2>1, MoveBegins DEF MovingTypes
  <2>3. Put(h, r)
    BY <1>14, <2>1 DEF Move, Start
  <2> QED  BY <1>14, <2>2, <2>3, PutTypes DEF Move, MovingTypes
<1>15. ASSUME NEW h \in Hands, NEW u \in Users, NEW v \in Users, NEW r \in Roles, Share(h, u, v, r)
       PROVE  MovingTypes'
  <2>1. PICK n : n = [NoRequest EXCEPT !.op = "share", !.at = "look", !.by = u, !.whom = v, !.role = r, !.home = home]
    OBVIOUS
  <2>2. n \in Asking /\ Carries(n)
    BY <2>1, ShareBegins DEF MovingTypes
  <2>3. Put(h, n)
    BY <1>15, <2>1 DEF Share, Start
  <2> QED  BY <1>15, <2>2, <2>3, PutTypes DEF Share, MovingTypes
<1>16. ASSUME NEW u \in Users, NEW v \in Users, Revoke(u, v)
       PROVE  MovingTypes'
  BY <1>16 DEF Revoke, MovingTypes
<1>17. ASSUME NEW u \in Users, Unpin(u)
       PROVE  MovingTypes'
  BY <1>17 DEF Unpin, MovingTypes
<1>18. ASSUME NEW w \in Workspaces, NEW u \in Users, NEW r \in Roles \cup {Nil}, ChangeRole(w, u, r)
       PROVE  MovingTypes'
  BY <1>18 DEF ChangeRole, MovingTypes
<1> QED  BY <1>1, <1>2, <1>3, <1>4, <1>5, <1>6, <1>7, <1>8, <1>9, <1>10, <1>11, <1>12, <1>13, <1>14, <1>15, <1>16, <1>17, <1>18 DEF MovingNext


\* What a step of a request puts in its hand.
LEMMA PutsNext ==
  ASSUME MovingTypes, NEW h \in Hands
  PROVE  /\ EndShares(h) => \E n : Put(h, n) /\ n.op = "move" /\ n.at = "save" /\ n.to = req[h].to
         /\ SaveMove(h) => \E n : Put(h, n) /\ n.op = "move" /\ n.at = "members" /\ n.to = req[h].to
         /\ ReadMembers(h) => \E n : Put(h, n) /\ n.op = "move" /\ n.at = "drop" /\ n.to = req[h].to
         /\ DropPins(h) => \E n : Put(h, n) /\ n.op = "move" /\ n.at = "follow" /\ n.to = req[h].to
         /\ WriteShare(h) => \/ Put(h, NoRequest) /\ req[h].to = req[h].role
                             \/ \E n : Put(h, n) /\ n.op = "share" /\ n.at = "tell" /\ n.whom = req[h].whom
         /\ LookAtShare(h) => \/ Put(h, NoRequest)
                              \/ \E n : /\ Put(h, n) /\ n.op = "share" /\ n.at = "write" /\ n.whom = req[h].whom
                                        /\ n.to # Nil => grant[n.whom] # Nil
         /\ SaveMoveRefused(h) \/ FollowPins(h) \/ TellShare(h) \/ WritePin(h) \/ CutShort(h) => Put(h, NoRequest)
         /\ \A u, v \in Users, r \in Roles :
              Share(h, u, v, r) => req[h] = NoRequest /\ \E n : Put(h, n) /\ n.op = "share" /\ n.at = "look"
         /\ \A u \in Users : Pin(h, u) => req[h] = NoRequest /\ \E n : Put(h, n) /\ n.op = "pin" /\ n.at = "idle"
         /\ \A u \in Users, w \in Homes :
              Move(h, u, w) => req[h] = NoRequest /\ \E n : Put(h, n) /\ n.op = "move" /\ n.at = "shares"
<1>1. PICK r : r = req[h]
  OBVIOUS
<1>2. r \in Asking
  BY <1>1 DEF MovingTypes
<1>3. EndShares(h) => \E n : Put(h, n) /\ n.op = "move" /\ n.at = "save" /\ n.to = req[h].to
  <2>1. PICK n : n = [r EXCEPT !.at = "save"]
    OBVIOUS
  <2>2. n.op = r.op /\ n.at = "save" /\ n.to = r.to
    BY <1>2, <2>1, GoesOn
  <2>3. EndShares(h) => Put(h, n) /\ r.op = "move"
    BY <1>1, <2>1 DEF EndShares, Moving
  <2> QED  BY <1>1, <2>2, <2>3
<1>4. SaveMove(h) => \E n : Put(h, n) /\ n.op = "move" /\ n.at = "members" /\ n.to = req[h].to
  <2>1. PICK n : n = [r EXCEPT !.at = "members"]
    OBVIOUS
  <2>2. n.op = r.op /\ n.at = "members" /\ n.to = r.to
    BY <1>2, <2>1, GoesOn
  <2>3. SaveMove(h) => Put(h, n) /\ r.op = "move"
    BY <1>1, <2>1 DEF SaveMove, Moving
  <2> QED  BY <1>1, <2>2, <2>3
<1>5. ReadMembers(h) => \E n : Put(h, n) /\ n.op = "move" /\ n.at = "drop" /\ n.to = req[h].to
  <2>1. PICK k : k = IF r.to = Personal THEN {r.by} ELSE {u \in Users : role[r.to][u] # Nil}
    OBVIOUS
  <2>2. PICK n : n = [r EXCEPT !.at = "drop", !.keep = k]
    OBVIOUS
  <2>3. n.op = r.op /\ n.at = "drop" /\ n.to = r.to
    BY <1>2, <2>2 DEF Asking
  <2>4. ReadMembers(h) => Put(h, n) /\ r.op = "move"
    BY <1>1, <2>1, <2>2 DEF ReadMembers, Moving
  <2> QED  BY <1>1, <2>3, <2>4
<1>6. DropPins(h) => \E n : Put(h, n) /\ n.op = "move" /\ n.at = "follow" /\ n.to = req[h].to
  <2>1. PICK n : n = [r EXCEPT !.at = "follow"]
    OBVIOUS
  <2>2. n.op = r.op /\ n.at = "follow" /\ n.to = r.to
    BY <1>2, <2>1, GoesOn
  <2>3. DropPins(h) => Put(h, n) /\ r.op = "move"
    BY <1>1, <2>1 DEF DropPins, Moving
  <2> QED  BY <1>1, <2>2, <2>3
<1>7. WriteShare(h) => \/ Put(h, NoRequest) /\ req[h].to = req[h].role
                       \/ \E n : Put(h, n) /\ n.op = "share" /\ n.at = "tell" /\ n.whom = req[h].whom
  <2>1. PICK n : n = [r EXCEPT !.at = "tell"]
    OBVIOUS
  <2>2. n.op = r.op /\ n.at = "tell" /\ n.whom = r.whom
    BY <1>2, <2>1, GoesOn
  <2>3. WriteShare(h) => r.op = "share" /\ (IF r.to = r.role THEN Put(h, NoRequest) ELSE Put(h, n))
    BY <1>1, <2>1 DEF WriteShare, Done
  <2> QED  BY <1>1, <2>2, <2>3
<1>8. LookAtShare(h) => \/ Put(h, NoRequest)
                        \/ \E n : /\ Put(h, n) /\ n.op = "share" /\ n.at = "write" /\ n.whom = req[h].whom
                                  /\ n.to # Nil => grant[n.whom] # Nil
  <2>1. PICK t : t = IF grant[r.whom] = Nil THEN Nil ELSE grant[r.whom].role
    OBVIOUS
  <2>2. PICK n : n = [r EXCEPT !.at = "write", !.to = t]
    OBVIOUS
  <2>3. n.op = r.op /\ n.at = "write" /\ n.whom = r.whom /\ n.to = t
    BY <1>2, <2>2 DEF Asking
  <2>4. LookAtShare(h) => r.op = "share" /\ (Put(h, NoRequest) \/ Put(h, n))
    BY <1>1, <2>1, <2>2 DEF LookAtShare, Done
  <2>5. n.to # Nil => grant[n.whom] # Nil
    BY <2>1, <2>3
  <2> QED  BY <1>1, <2>3, <2>4, <2>5
<1>9. SaveMoveRefused(h) \/ FollowPins(h) \/ TellShare(h) \/ WritePin(h) \/ CutShort(h) => Put(h, NoRequest)
  BY DEF SaveMoveRefused, FollowPins, TellShare, WritePin, CutShort, Done
<1>10. ASSUME NEW u \in Users, NEW v \in Users, NEW k \in Roles, Share(h, u, v, k)
       PROVE  req[h] = NoRequest /\ \E n : Put(h, n) /\ n.op = "share" /\ n.at = "look"
  <2>1. PICK n : n = [NoRequest EXCEPT !.op = "share", !.at = "look", !.by = u, !.whom = v, !.role = k, !.home = home]
    OBVIOUS
  <2>2. n.op = "share" /\ n.at = "look"
    BY <2>1 DEF NoRequest
  <2> QED  BY <1>10, <2>1, <2>2 DEF Share, Start
<1>11. ASSUME NEW u \in Users, Pin(h, u)
       PROVE  req[h] = NoRequest /\ \E n : Put(h, n) /\ n.op = "pin" /\ n.at = "idle"
  <2>1. PICK n : n = [NoRequest EXCEPT !.op = "pin", !.by = u, !.home = home]
    OBVIOUS
  <2>2. n.op = "pin" /\ n.at = "idle"
    BY <2>1 DEF NoRequest
  <2> QED  BY <1>11, <2>1, <2>2 DEF Pin, Start
<1>12. ASSUME NEW u \in Users, NEW w \in Homes, Move(h, u, w)
       PROVE  req[h] = NoRequest /\ \E n : Put(h, n) /\ n.op = "move" /\ n.at = "shares"
  <2>1. PICK n : n = [NoRequest EXCEPT !.op = "move", !.at = "shares", !.by = u, !.home = home, !.to = w]
    OBVIOUS
  <2>2. n.op = "move" /\ n.at = "shares"
    BY <2>1 DEF NoRequest
  <2> QED  BY <1>12, <2>1, <2>2 DEF Move, Start
<1> QED  BY <1>3, <1>4, <1>5, <1>6, <1>7, <1>8, <1>9, <1>10, <1>11, <1>12


\* A request that is put in a hand.
LEMMA PutOne ==
  ASSUME MovingTypes, NEW h \in Hands, NEW r, Put(h, r)
  PROVE  req'[h] = r /\ \A j \in Hands : j # h => req'[j] = req[j]
BY DEF MovingTypes, Put

Saving(h) == Moving(h) /\ req[h].at = "save"

\* Where no form is saved and no share is written, shares stay as they were.
LEMMA SharesRest ==
  ASSUME SharesInv, home' = home, \A u \in Users : grant'[u] \in {grant[u], Nil},
         \A j \in Hands : Saving(j)' => Saving(j)
  PROVE  SharesInv'
<1>1. SharesStayBehind'
  BY DEF SharesInv, SharesStayBehind
<1>2. ASSUME \E j \in Hands : Saving(j)'
      PROVE  \A u \in Users : grant'[u] # Nil => grant'[u].late
  BY <1>2 DEF SharesInv, Saving
<1> QED  BY <1>1, <1>2 DEF SharesInv, Saving

\* No step of moving or sharing leaves a share of the old place in force.
LEMMA SharesKept ==
  ASSUME MovingTypes, SharesInv, MovingNext \/ MovingRests
  PROVE  SharesInv'
<1>1. CASE MovingRests
  <2>1. \A j \in Hands : Saving(j)' => Saving(j)
    BY <1>1 DEF MovingRests, Saving, Moving
  <2> QED  BY <1>1, <2>1, SharesRest DEF MovingRests
<1>2. ASSUME NEW h \in Hands, EndShares(h)
      PROVE  SharesInv'
  <2>1. \A u \in Users : grant'[u] = Nil
    BY <1>2 DEF EndShares
  <2> QED  BY <2>1 DEF SharesInv, SharesStayBehind
<1>3. ASSUME NEW h \in Hands, SaveMove(h)
      PROVE  SharesInv'
  <2>1. \A u \in Users : grant[u] # Nil => grant[u].late
    BY <1>3 DEF SaveMove, SharesInv
  <2>2. grant' = grant
    BY <1>3 DEF SaveMove
  <2> QED  BY <2>1, <2>2 DEF SharesInv, SharesStayBehind
<1>4. ASSUME NEW h \in Hands, WriteShare(h)
      PROVE  SharesInv'
  <2>1. PICK r : r = req[h]
    OBVIOUS
  <2>2. r \in Asking /\ Carries(r) /\ r.op = "share" /\ r.whom \in Users
    BY <1>4, <2>1 DEF MovingTypes, WriteShare, Carries
  <2>3. PICK n : n = [r EXCEPT !.at = "tell"]
    OBVIOUS
  <2>4. Done(h) \/ Put(h, n)
    BY <1>4, <2>1, <2>3 DEF WriteShare
  <2>5. ~Saving(h)'
    <3>1. n.op = "share"
      BY <2>2, <2>3, GoesOn
    <3>2. req'[h] = n \/ req'[h] = NoRequest
      BY <2>4, PutOne DEF Done
    <3> QED  BY <3>1, <3>2, NoRequestFits DEF Saving, Moving
  <2>6. \A j \in Hands : Saving(j)' => Saving(j)
    BY <2>4, <2>5, PutOne DEF Done, Saving, Moving
  <2>7. PICK l \in BOOLEAN : l = Crossed(r)
    BY DEF Crossed
  <2>8. PICK g : g = [role |-> r.role, home |-> r.home, late |-> l]
    OBVIOUS
  <2>9. g.home = r.home /\ g.late = l
    BY <2>8
  <2>10. grant' = [grant EXCEPT ![r.whom] = g] /\ home' = home
    BY <1>4, <2>1, <2>7, <2>8 DEF WriteShare
  <2>11. \A u \in Users : grant'[u] = IF u = r.whom THEN g ELSE grant[u]
    BY <2>10 DEF MovingTypes
  <2>12. ~l => home = r.home /\ ~\E j \in Hands : Saving(j)
    BY <2>7 DEF Crossed, Saving
  <2>13. SharesStayBehind'
    BY <2>9, <2>10, <2>11, <2>12 DEF SharesInv, SharesStayBehind
  <2>14. (\E j \in Hands : Saving(j)') => \A u \in Users : grant'[u] # Nil => grant'[u].late
    BY <2>6, <2>9, <2>11, <2>12 DEF SharesInv, Saving
  <2> QED  BY <2>13, <2>14 DEF SharesInv, Saving
<1>5. ASSUME NEW h \in Hands, NEW n, Put(h, n), n.at # "save" \/ n.op # "move",
             home' = home, grant' = grant
      PROVE  SharesInv'
  <2>1. \A j \in Hands : Saving(j)' => Saving(j)
    BY <1>5, PutOne DEF Saving, Moving
  <2> QED  BY <1>5, <2>1, SharesRest
<1>6. ASSUME NEW h \in Hands,
             \/ SaveMoveRefused(h) \/ FollowPins(h) \/ TellShare(h) \/ WritePin(h) \/ CutShort(h)
             \/ ReadMembers(h) \/ DropPins(h) \/ LookAtShare(h)
             \/ \E u \in Users : Pin(h, u) \/ \E w \in Homes : Move(h, u, w)
             \/ \E u, v \in Users, r \in Roles : Share(h, u, v, r)
      PROVE  SharesInv'
  <2>1. home' = home /\ grant' = grant
    BY <1>6 DEF SaveMoveRefused, FollowPins, TellShare, WritePin, CutShort, ReadMembers, DropPins, LookAtShare,
                Pin, Move, Share
  <2>2. \E n : Put(h, n) /\ (n.at # "save" \/ n.op # "move")
    BY <1>6, PutsNext, NoRequestFits
  <2> QED  BY <1>5, <2>1, <2>2
<1>7. ASSUME NEW u \in Users, NEW v \in Users, Revoke(u, v)
      PROVE  SharesInv'
  <2>1. \A z \in Users : grant'[z] \in {grant[z], Nil}
    BY <1>7 DEF Revoke, MovingTypes
  <2>2. \A j \in Hands : Saving(j)' => Saving(j)
    BY <1>7 DEF Revoke, Saving, Moving
  <2> QED  BY <1>7, <2>1, <2>2, SharesRest DEF Revoke
<1>8. ASSUME UNCHANGED <<home, grant, req>>
      PROVE  SharesInv'
  BY <1>8 DEF SharesInv, SharesStayBehind, Moving
<1> QED  BY <1>1, <1>2, <1>3, <1>4, <1>6, <1>7, <1>8 DEF MovingNext, Unpin, ChangeRole


\* Whoever was told, or is about to be, stays so: the request that was to tell him has, or was cut off.
LEMMA ToldStays ==
  ASSUME MovingTypes, NEW h \in Hands, NEW n, Put(h, n),
         told \subseteq told', untold \subseteq untold', req[h].at = "tell" => req[h].whom \in told' \cup untold'
  PROVE  \A u : ToldOrAbout(u) => ToldOrAbout(u)'
<1>1. \A j \in Hands : j # h => req'[j] = req[j]
  BY PutOne
<1> QED  BY <1>1 DEF ToldOrAbout

\* No share is given that nobody told of.
LEMMA ToldRest ==
  ASSUME MovingTypes, ToldInv, NEW h \in Hands, NEW n, Put(h, n), \A u : ToldOrAbout(u) => ToldOrAbout(u)',
         \A u \in Users : grant'[u] # Nil => grant[u] # Nil \/ ToldOrAbout(u)',
         n.op = "share" /\ n.at = "write" /\ n.to # Nil => ToldOrAbout(n.whom)
  PROVE  ToldInv'
<1>1. req'[h] = n /\ \A j \in Hands : j # h => req'[j] = req[j]
  BY PutOne
<1>2. HoldersTold'
  BY DEF ToldInv, HoldersTold, ToldOrAbout
<1>3. ASSUME NEW j \in Hands, NEW u, u = req'[j].whom,
             req'[j].op = "share", req'[j].at = "write", req'[j].to # Nil
      PROVE  ToldOrAbout(u)'
  <2>1. CASE j = h
    BY <1>1, <1>3, <2>1
  <2>2. CASE j # h
    <3>1. req[j].op = "share" /\ req[j].at = "write" /\ req[j].to # Nil /\ u = req[j].whom
      BY <1>1, <1>3, <2>2
    <3> QED  BY <3>1 DEF ToldInv
  <2> QED  BY <2>1, <2>2
<1> QED  BY <1>2, <1>3 DEF ToldInv, ToldOrAbout

\* No step gives a share to somebody who was not told of one and will not be.
LEMMA ToldKept ==
  ASSUME MovingTypes, ToldInv, MovingNext \/ MovingRests
  PROVE  ToldInv'
<1>1. ASSUME UNCHANGED <<told, untold, req>>, \A u \in Users : grant'[u] # Nil => grant[u] # Nil
      PROVE  ToldInv'
  <2>1. \A u : ToldOrAbout(u) => ToldOrAbout(u)'
    BY <1>1 DEF ToldOrAbout
  <2> QED  BY <1>1, <2>1 DEF ToldInv, HoldersTold, ToldOrAbout
<1>2. CASE MovingRests
  BY <1>1, <1>2 DEF MovingRests
<1>3. ASSUME NEW u \in Users, NEW v \in Users, Revoke(u, v)
      PROVE  ToldInv'
  <2>1. \A z \in Users : grant'[z] # Nil => grant[z] # Nil
    BY <1>3 DEF Revoke, MovingTypes
  <2> QED  BY <1>1, <1>3, <2>1 DEF Revoke
<1>4. ASSUME NEW h \in Hands, TellShare(h)
      PROVE  ToldInv'
  <2>1. told' = told \cup {req[h].whom} /\ untold' = untold /\ grant' = grant /\ Put(h, NoRequest)
    BY <1>4 DEF TellShare, Done
  <2>2. \A u : ToldOrAbout(u) => ToldOrAbout(u)'
    BY <2>1, ToldStays
  <2> QED  BY <2>1, <2>2, ToldRest, NoRequestFits
<1>5. ASSUME NEW h \in Hands, CutShort(h)
      PROVE  ToldInv'
  <2>1. /\ told' = told /\ grant' = grant /\ Put(h, NoRequest)
        /\ untold' = IF req[h].at = "tell" THEN untold \cup {req[h].whom} ELSE untold
    BY <1>5 DEF CutShort, Done
  <2>2. \A u : ToldOrAbout(u) => ToldOrAbout(u)'
    BY <2>1, ToldStays
  <2> QED  BY <2>1, <2>2, ToldRest, NoRequestFits
<1>6. ASSUME NEW h \in Hands, WriteShare(h)
      PROVE  ToldInv'
  <2>1. PICK r : r = req[h]
    OBVIOUS
  <2>2. r.op = "share" /\ r.at = "write" /\ r.whom \in Users /\ r.role # Nil
    BY <1>6, <2>1, MovingAssumption DEF WriteShare, MovingTypes, Carries
  <2>3. UNCHANGED <<told, untold>> /\ \A u \in Users : u # r.whom => grant'[u] = grant[u]
    BY <1>6, <2>1 DEF WriteShare, MovingTypes
  <2>4. CASE Put(h, NoRequest) /\ r.to = r.role
    <3>1. ToldOrAbout(r.whom)
      BY <2>1, <2>2, <2>4 DEF ToldInv
    <3>2. \A u : ToldOrAbout(u) => ToldOrAbout(u)'
      BY <2>1, <2>2, <2>3, <2>4, ToldStays
    <3> QED  BY <2>3, <2>4, <3>1, <3>2, ToldRest, NoRequestFits
  <2>5. ASSUME NEW n, Put(h, n), n.op = "share", n.at = "tell", n.whom = r.whom
        PROVE  ToldInv'
    <3>1. ToldOrAbout(r.whom)'
      BY <2>5, PutOne DEF ToldOrAbout
    <3>2. \A u : ToldOrAbout(u) => ToldOrAbout(u)'
      BY <2>1, <2>2, <2>3, <2>5, ToldStays
    <3> QED  BY <2>3, <2>5, <3>1, <3>2, ToldRest
  <2> QED  BY <1>6, <2>1, <2>4, <2>5, PutsNext
<1>7. ASSUME NEW h \in Hands, UNCHANGED <<told, untold>>, req[h].at # "tell",
             \A u \in Users : grant'[u] # Nil => grant[u] # Nil,
             NEW n, Put(h, n), n.op = "share" /\ n.at = "write" /\ n.to # Nil => grant[n.whom] # Nil /\ n.whom \in Users
      PROVE  ToldInv'
  <2>1. \A u : ToldOrAbout(u) => ToldOrAbout(u)'
    BY <1>7, ToldStays
  <2>2. n.op = "share" /\ n.at = "write" /\ n.to # Nil => ToldOrAbout(n.whom)
    BY <1>7 DEF ToldInv, HoldersTold, ToldOrAbout
  <2> QED  BY <1>7, <2>1, <2>2, ToldRest
<1>8. ASSUME NEW h \in Hands, EndShares(h) \/ SaveMove(h) \/ SaveMoveRefused(h) \/ ReadMembers(h) \/ DropPins(h) \/ FollowPins(h)
      PROVE  ToldInv'
  <2>1. req[h].at # "tell"
    BY <1>8 DEF EndShares, SaveMove, SaveMoveRefused, ReadMembers, DropPins, FollowPins
  <2>2. UNCHANGED <<told, untold>> /\ \A u \in Users : grant'[u] # Nil => grant[u] # Nil
    BY <1>8 DEF EndShares, SaveMove, SaveMoveRefused, ReadMembers, DropPins, FollowPins
  <2>3. \E n : Put(h, n) /\ n.op # "share"
    BY <1>8, PutsNext, NoRequestFits
  <2> QED  BY <1>7, <2>1, <2>2, <2>3
<1>9. ASSUME NEW h \in Hands, LookAtShare(h)
      PROVE  ToldInv'
  <2>1. req[h].at # "tell" /\ req[h].whom \in Users /\ UNCHANGED <<told, untold, grant>>
    BY <1>9 DEF LookAtShare, MovingTypes, Carries
  <2>2. \E n : Put(h, n) /\ (n.op = "share" /\ n.at = "write" /\ n.to # Nil => grant[n.whom] # Nil /\ n.whom \in Users)
    BY <1>9, <2>1, PutsNext, NoRequestFits
  <2> QED  BY <1>7, <2>1, <2>2
<1>10. ASSUME NEW h \in Hands,
              \/ WritePin(h) \/ \E u \in Users : Pin(h, u) \/ \E w \in Homes : Move(h, u, w)
              \/ \E u, v \in Users, r \in Roles : Share(h, u, v, r)
       PROVE  ToldInv'
  <2>1. UNCHANGED <<told, untold, grant>>
    BY <1>10 DEF WritePin, Pin, Move, Share
  <2>2. req[h].at # "tell"
    BY <1>10, PutsNext, NoRequestFits DEF WritePin, MovingTypes, Carries
  <2>3. \E n : Put(h, n) /\ n.at # "write"
    BY <1>10, PutsNext, NoRequestFits
  <2> QED  BY <1>7, <2>1, <2>2, <2>3
<1>11. ASSUME UNCHANGED <<told, untold, grant, req>>
       PROVE  ToldInv'
  BY <1>1, <1>11
<1> QED  BY <1>2, <1>3, <1>4, <1>5, <1>6, <1>8, <1>9, <1>10, <1>11 DEF MovingNext, Unpin, ChangeRole


\* A request that neither begins nor ends a move, nor saves the form.
LEMMA PinsRest ==
  ASSUME MovingTypes, PinsInv, home' = home, torn' = torn, PinsSettled => PinsSettled', NEW h \in Hands, NEW n, Put(h, n),
         n.op = "move" <=> Moving(h),
         Moving(h) => n.to = req[h].to /\ (n.at \in {"shares", "save"} <=> req[h].at \in {"shares", "save"})
  PROVE  PinsInv'
<1>1. req'[h] = n /\ \A j \in Hands : j # h => req'[j] = req[j]
  BY PutOne
<1>2. \A j \in Hands : Moving(j)' <=> Moving(j)
  BY <1>1 DEF Moving
<1>3. \A j \in Hands : Moving(j) => req'[j].to = req[j].to /\ (req'[j].at \in {"shares", "save"} <=> req[j].at \in {"shares", "save"})
  BY <1>1
<1>4. \A j, k \in Hands : Moving(j)' /\ Moving(k)' => j = k
  BY <1>2 DEF PinsInv
<1>5. CASE torn
  BY <1>4, <1>5 DEF PinsInv
<1>6. CASE ~torn
  <2>1. \A j \in Hands : Moving(j)' => IF req'[j].at \in {"shares", "save"} THEN PinsSettled' ELSE home' = req'[j].to
    BY <1>2, <1>3, <1>6 DEF PinsInv
  <2>2. (\A j \in Hands : ~Moving(j)') => PinsSettled'
    BY <1>2, <1>6 DEF PinsInv
  <2> QED  BY <1>4, <2>1, <2>2 DEF PinsInv
<1> QED  BY <1>5, <1>6

\* With one move at a time, pins are with the form before it and after it.
LEMMA PinsKept ==
  ASSUME OneMover, MovingTypes, PinsInv, MovingNext \/ MovingRests
  PROVE  PinsInv'
<1>1. ASSUME UNCHANGED <<home, torn, req>>, PinsSettled => PinsSettled'
      PROVE  PinsInv'
  BY <1>1 DEF PinsInv, Moving
<1>2. CASE MovingRests
  BY <1>1, <1>2 DEF MovingRests, PinsSettled
<1>3. ASSUME NEW u \in Users, Unpin(u)
      PROVE  PinsInv'
  <2>1. PinsSettled => PinsSettled'
    BY <1>3 DEF Unpin, PinsSettled, MovingTypes
  <2> QED  BY <1>1, <1>3, <2>1 DEF Unpin
<1>4. ASSUME NEW h \in Hands, EndShares(h) \/ ReadMembers(h) \/ DropPins(h)
      PROVE  PinsInv'
  <2>1. home' = home /\ torn' = torn /\ Moving(h)
    BY <1>4 DEF EndShares, ReadMembers, DropPins
  <2>2. PinsSettled => PinsSettled'
    BY <1>4 DEF EndShares, ReadMembers, DropPins, PinsSettled, MovingTypes
  <2>3. \E n : Put(h, n) /\ n.op = "move" /\ n.to = req[h].to /\ (n.at \in {"shares", "save"} <=> req[h].at \in {"shares", "save"})
    <3>1. CASE EndShares(h)
      <4>1. req[h].at = "shares"
        BY <3>1 DEF EndShares
      <4> QED  BY <3>1, <4>1, PutsNext
    <3>2. CASE ReadMembers(h)
      <4>1. req[h].at = "members"
        BY <3>2 DEF ReadMembers
      <4> QED  BY <3>2, <4>1, PutsNext
    <3>3. CASE DropPins(h)
      <4>1. req[h].at = "drop"
        BY <3>3 DEF DropPins
      <4> QED  BY <3>3, <4>1, PutsNext
    <3> QED  BY <1>4, <3>1, <3>2, <3>3
  <2> QED  BY <2>1, <2>2, <2>3, PinsRest
<1>5. ASSUME NEW h \in Hands, ~Moving(h), home' = home, torn' = torn, PinsSettled => PinsSettled',
             \E n : Put(h, n) /\ n.op # "move"
      PROVE  PinsInv'
  BY <1>5, PinsRest
<1>6. ASSUME NEW h \in Hands, WritePin(h)
      PROVE  PinsInv'
  <2>1. ~Moving(h) /\ req[h].by \in Users /\ req[h].home \in Homes
    BY <1>6 DEF WritePin, Moving, MovingTypes, Carries
  <2>2. home' = home /\ torn' = torn
    BY <1>6 DEF WritePin
  <2>3. PICK l \in BOOLEAN : l = (home # req[h].home)
    OBVIOUS
  <2>4. pin' = pin \/ pin' = [pin EXCEPT ![req[h].by] = [home |-> req[h].home, late |-> l]]
    BY <1>6, <2>3 DEF WritePin
  <2>5. PinsSettled => PinsSettled'
    <3>1. PICK x : x = [home |-> req[h].home, late |-> l]
      OBVIOUS
    <3>2. x.home = req[h].home /\ x.late = l
      BY <3>1
    <3>3. \A u \in Users : pin'[u] = pin[u] \/ pin'[u] = x
      BY <2>4, <3>1 DEF MovingTypes
    <3> QED  BY <2>2, <2>3, <3>2, <3>3 DEF PinsSettled
  <2>6. Put(h, NoRequest)
    BY <1>6, PutsNext
  <2> QED  BY <1>5, <2>1, <2>2, <2>5, <2>6, NoRequestFits
<1>7. ASSUME NEW h \in Hands,
             \/ LookAtShare(h) \/ WriteShare(h) \/ TellShare(h)
             \/ (\E u \in Users : Pin(h, u)) \/ \E u, v \in Users, r \in Roles : Share(h, u, v, r)
      PROVE  PinsInv'
  <2>1. UNCHANGED <<home, torn, pin>>
    BY <1>7 DEF LookAtShare, WriteShare, TellShare, Pin, Share
  <2>2. ~Moving(h)
    BY <1>7, PutsNext, NoRequestFits DEF LookAtShare, WriteShare, TellShare, Moving
  <2>3. \E n : Put(h, n) /\ n.op # "move"
    BY <1>7, PutsNext, NoRequestFits
  <2>4. PinsSettled => PinsSettled'
    BY <2>1 DEF PinsSettled
  <2> QED  BY <1>5, <2>1, <2>2, <2>3, <2>4
<1>8. ASSUME NEW h \in Hands, SaveMove(h)
      PROVE  PinsInv'
  <2>1. Moving(h) /\ home' = req[h].to /\ torn' = torn
    BY <1>8 DEF SaveMove
  <2>2. PICK n : Put(h, n) /\ n.op = "move" /\ n.at = "members" /\ n.to = req[h].to
    BY <1>8, PutsNext
  <2>3. req'[h] = n /\ \A j \in Hands : j # h => req'[j] = req[j]
    BY <2>2, PutOne
  <2>4. \A j \in Hands : Moving(j)' => j = h
    BY <2>1, <2>3 DEF PinsInv, Moving
  <2> QED  BY <2>1, <2>2, <2>3, <2>4 DEF PinsInv, Moving
<1>9. ASSUME NEW h \in Hands, SaveMoveRefused(h) \/ FollowPins(h) \/ CutShort(h), Moving(h)
      PROVE  PinsInv'
  <2>1. Put(h, NoRequest) /\ home' = home
    BY <1>9, PutsNext DEF SaveMoveRefused, FollowPins, CutShort
  <2>2. req'[h] = NoRequest /\ \A j \in Hands : j # h => req'[j] = req[j]
    BY <2>1, PutOne
  <2>3. \A j \in Hands : ~Moving(j)'
    BY <1>9, <2>2, NoRequestFits DEF PinsInv, Moving
  <2>4. CASE torn'
    BY <2>3, <2>4 DEF PinsInv
  <2>5. CASE ~torn'
    <3>1. ~torn
      BY <1>9, <2>5 DEF SaveMoveRefused, FollowPins, CutShort
    <3>2. CASE req[h].at \in {"shares", "save"}
      <4>1. pin' = pin
        BY <1>9, <3>2 DEF SaveMoveRefused, FollowPins, CutShort
      <4>2. PinsSettled
        BY <1>9, <3>1, <3>2 DEF PinsInv
      <4> QED  BY <2>1, <2>3, <4>1, <4>2 DEF PinsInv, PinsSettled
    <3>3. CASE req[h].at \notin {"shares", "save"}
      <4>1. FollowPins(h)
        BY <1>9, <2>5, <3>3 DEF SaveMoveRefused, CutShort, Moving, MovingTypes, Carries
      <4>2. home = req[h].to
        BY <1>9, <3>1, <3>3 DEF PinsInv
      <4>3. \A u \in Users : pin'[u] # Nil => pin'[u].home = home'
        BY <2>1, <4>1, <4>2 DEF FollowPins
      <4> QED  BY <2>3, <4>3 DEF PinsInv, PinsSettled
    <3> QED  BY <3>2, <3>3
  <2> QED  BY <2>4, <2>5
<1>10. ASSUME NEW h \in Hands, CutShort(h), ~Moving(h)
       PROVE  PinsInv'
  <2>1. Put(h, NoRequest) /\ home' = home /\ torn' = torn /\ pin' = pin
    BY <1>10, PutsNext DEF CutShort, MovingTypes
  <2> QED  BY <1>5, <1>10, <2>1, NoRequestFits DEF PinsSettled
<1>11. ASSUME NEW h \in Hands, NEW u \in Users, NEW w \in Homes, Move(h, u, w)
       PROVE  PinsInv'
  <2>1. UNCHANGED <<home, torn, pin>> /\ \A j \in Hands : ~Moving(j)
    BY <1>11 DEF Move
  <2>2. PICK n : Put(h, n) /\ n.op = "move" /\ n.at = "shares"
    BY <1>11, PutsNext
  <2>3. req'[h] = n /\ \A j \in Hands : j # h => req'[j] = req[j]
    BY <2>2, PutOne
  <2>4. \A j \in Hands : Moving(j)' => j = h
    BY <2>1, <2>3 DEF Moving
  <2>5. torn' \/ PinsSettled'
    BY <2>1 DEF PinsInv, PinsSettled
  <2> QED  BY <2>2, <2>3, <2>4, <2>5 DEF PinsInv, Moving
<1>12. ASSUME UNCHANGED <<home, torn, req, pin>>
       PROVE  PinsInv'
  BY <1>1, <1>12 DEF PinsSettled
<1>13. \A h \in Hands : SaveMoveRefused(h) \/ FollowPins(h) => Moving(h)
  BY DEF SaveMoveRefused, FollowPins
<1> QED  BY <1>2, <1>3, <1>4, <1>6, <1>7, <1>8, <1>9, <1>10, <1>11, <1>12, <1>13 DEF MovingNext, Revoke, ChangeRole


-----------------------------------------------------------------------------
(* How a form looks, and what is kept up to a number.                           *)

\* What is assumed of the constants, in the words the proofs use.
LEMMA LooksParameters ==
  /\ Owner \in People /\ Nil \notin People /\ Limit \in Nat /\ Limit > 0 /\ MaxLooks \in Nat
  /\ IsFiniteSet(Hands) /\ Cardinality(Hands) \in Nat /\ Look!Cardinality(Hands) = Cardinality(Hands)
<1>1. \A S : (Look!IsFiniteSet(S) <=> IsFiniteSet(S)) /\ Look!Cardinality(S) = Cardinality(S)
  BY DEF Look!IsFiniteSet, IsFiniteSet, Look!Cardinality, Cardinality
<1>2. /\ Owner \in People /\ Nil \notin People /\ Limit \in Nat \ {0} /\ MaxLooks \in Nat
      /\ Look!IsFiniteSet(Hands)
  BY KeepingAssumption DEF Look!LooksAssumption
<1> QED  BY <1>1, <1>2, FS_CardinalityType

\* How many are about to do the same changes by the request put in a hand.
LEMMA PendingChanges ==
  ASSUME LooksTypes, NEW h \in Hands, NEW r, want' = [want EXCEPT ![h] = r], NEW op
  PROVE  /\ want' = [j \in Hands |-> want'[j]] /\ want'[h] = r /\ \A j \in Hands : j # h => want'[j] = want[j]
         /\ Cardinality(Pending(op)) \in Nat /\ Cardinality(Pending(op)') \in Nat
         /\ Cardinality(Pending(op)') <= Cardinality(Hands)
         /\ r.op = op /\ want[h].op # op => Cardinality(Pending(op)') = Cardinality(Pending(op)) + 1
         /\ r.op # op /\ want[h].op = op => Cardinality(Pending(op)') = Cardinality(Pending(op)) - 1
         /\ (r.op = op <=> want[h].op = op) => Cardinality(Pending(op)') = Cardinality(Pending(op))
<1>1. /\ want' = [j \in Hands |-> want'[j]] /\ want'[h] = r /\ \A j \in Hands : j # h => want'[j] = want[j]
  BY DEF LooksTypes
<1>2. IsFiniteSet(Hands) /\ Pending(op) \subseteq Hands /\ Pending(op)' \subseteq Hands
  BY LooksParameters DEF Pending
<1>3. /\ IsFiniteSet(Pending(op)) /\ IsFiniteSet(Pending(op)') /\ Cardinality(Pending(op)') <= Cardinality(Hands)
  BY <1>2, FS_Subset
<1>4. Cardinality(Pending(op)) \in Nat /\ Cardinality(Pending(op)') \in Nat
  BY <1>3, FS_CardinalityType
<1>5. /\ r.op = op => Pending(op)' = Pending(op) \cup {h}
      /\ r.op # op => Pending(op)' = Pending(op) \ {h}
  BY <1>1 DEF Pending
<1>6. h \in Pending(op) <=> want[h].op = op
  BY DEF Pending
<1>7. /\ Cardinality(Pending(op) \cup {h}) = IF h \in Pending(op) THEN Cardinality(Pending(op)) ELSE Cardinality(Pending(op)) + 1
      /\ Cardinality(Pending(op) \ {h}) = IF h \in Pending(op) THEN Cardinality(Pending(op)) - 1 ELSE Cardinality(Pending(op))
  BY <1>3, FS_AddElement, FS_RemoveElement
<1> QED  BY <1>1, <1>3, <1>4, <1>5, <1>6, <1>7

LooksInv == LooksTypes /\ DefaultInv /\ RoomInv

\* Where the requests stay, so does how many are about to do what.
LEMMA PendingRests ==
  ASSUME want' = want, NEW op
  PROVE  Pending(op)' = Pending(op) /\ Cardinality(Pending(op)) \in Nat
<1>1. Pending(op)' = Pending(op)
  BY DEF Pending
<1>2. IsFiniteSet(Pending(op))
  BY LooksParameters, FS_Subset DEF Pending
<1> QED  BY <1>1, <1>2, FS_CardinalityType

\* The default view is loaded, saved with what was loaded, and stored.
LEMMA LoadViewKeeps ==
  ASSUME LooksInv, NEW p \in People, Look!Load(p), UNCHANGED part
  PROVE  LooksInv'
<1>1. UNCHANGED <<default, rows, stale, want, over, started>> /\ seen' = [seen EXCEPT ![p] = default]
  BY DEF Look!Load
<1>2. LooksTypes'
  BY <1>1 DEF LooksInv, LooksTypes
<1>3. \A x \in People : seen'[x] = seen[x] \/ seen'[x] = default
  BY <1>1 DEF LooksInv, LooksTypes
<1>4. \A x : Earlier(x) => Earlier(x)'
  BY <1>1 DEF Earlier
<1>5. Earlier(default)
  BY DEF Earlier, LooksInv, LooksTypes, Sayings
<1>6. DefaultInv'
  BY <1>1, <1>3, <1>4, <1>5 DEF LooksInv, DefaultInv, Earlier
<1>7. RoomInv'
  BY <1>1, PendingRests DEF LooksInv, RoomInv
<1> QED  BY <1>2, <1>6, <1>7 DEF LooksInv

\* saveFormDefault, asked for: the request carries what its author had loaded.
LEMMA SaveKeeps ==
  ASSUME LooksInv, NEW h \in Hands, NEW p \in People, Look!Save(h, p), part = "looks", UNCHANGED part
  PROVE  LooksInv'
<1>1. PICK r : r = [Look!Idle EXCEPT !.op = "default", !.by = p, !.was = seen[p]]
  OBVIOUS
<1>2. r.op = "default" /\ r.by = p /\ r.was = seen[p]
  BY <1>1 DEF Look!Idle
<1>3. /\ UNCHANGED <<default, seen, rows, stale, over>>
      /\ want[h] = Look!Idle /\ want' = [want EXCEPT ![h] = r] /\ started < MaxLooks /\ started' = started + 1
  BY <1>1 DEF Look!Save, Look!Start, Look!Count
<1>4. want[h].op = "idle"
  BY <1>3 DEF Look!Idle
<1>5. /\ want' = [j \in Hands |-> want'[j]] /\ want'[h] = r /\ \A j \in Hands : j # h => want'[j] = want[j]
  BY <1>3, PendingChanges DEF LooksInv
<1>6. LooksTypes'
  BY <1>2, <1>3, <1>5 DEF LooksInv, LooksTypes
<1>7. DefaultInv'
  BY <1>2, <1>3, <1>5 DEF LooksInv, DefaultInv, Earlier
<1>8. /\ Cardinality(Pending("default")') = Cardinality(Pending("default")) + 1 /\ Cardinality(Pending("default")) \in Nat
      /\ \A k \in Look!Kinds : Cardinality(Pending(k)') = Cardinality(Pending(k))
  BY <1>2, <1>3, <1>4, PendingChanges DEF LooksInv, Look!Kinds
<1>9. RoomInv'
  BY <1>3, <1>8, LooksParameters DEF LooksInv, RoomInv, LooksTypes, Sayings
<1> QED  BY <1>6, <1>7, <1>9 DEF LooksInv

\* saveFormDefault, stored: only over the version its author had.
LEMMA SaveDefaultKeeps ==
  ASSUME LooksInv, NEW h \in Hands, Look!SaveDefault(h), UNCHANGED part
  PROVE  LooksInv'
<1>1. PICK r : r = want[h]
  OBVIOUS
<1>2. r.op = "default" /\ r.by \in People /\ r.was \in Sayings /\ r.by # Nil
  BY <1>1, LooksParameters DEF Look!SaveDefault, LooksInv, LooksTypes
<1>3. UNCHANGED <<rows, stale, started>> /\ want' = [want EXCEPT ![h] = Look!Idle]
  BY DEF Look!SaveDefault, Look!Done
<1>4. Look!Idle.op = "idle"
  BY DEF Look!Idle
<1>5. /\ want' = [j \in Hands |-> want'[j]] /\ want'[h] = Look!Idle /\ \A j \in Hands : j # h => want'[j] = want[j]
  BY <1>3, PendingChanges DEF LooksInv
<1>6. /\ Cardinality(Pending("default")') = Cardinality(Pending("default")) - 1
      /\ Cardinality(Pending("default")) \in Nat /\ Cardinality(Pending("default")') \in Nat
      /\ \A k \in Look!Kinds : Cardinality(Pending(k)') = Cardinality(Pending(k))
  BY <1>1, <1>2, <1>3, <1>4, PendingChanges DEF LooksInv, Look!Kinds
<1>7. CASE UNCHANGED <<default, seen, over>>
  <2>1. LooksTypes'
    BY <1>3, <1>4, <1>5, <1>7 DEF LooksInv, LooksTypes
  <2>2. DefaultInv'
    BY <1>4, <1>5, <1>7 DEF LooksInv, DefaultInv, Earlier
  <2>3. RoomInv'
    BY <1>3, <1>6, <1>7 DEF LooksInv, RoomInv, LooksTypes, Sayings
  <2> QED  BY <2>1, <2>2, <2>3 DEF LooksInv
<1>8. CASE ~UNCHANGED <<default, seen, over>>
  <2>1. /\ r.was.version = default.version
        /\ default' = [version |-> default.version + 1, says |-> r.by]
        /\ seen' = [seen EXCEPT ![r.by] = default']
        /\ over' = (over \/ r.was # default)
    BY <1>1, <1>8 DEF Look!SaveDefault, Look!Accepts, Look!Bumped
  <2>2. PICK n : n = default'
    OBVIOUS
  <2>3. n \in Sayings /\ n.version = default.version + 1 /\ n.says # Nil
    BY <1>2, <2>1, <2>2 DEF LooksInv, LooksTypes, Sayings
  <2>4. seen' \in [People -> Sayings] /\ \A p \in People : seen'[p] = seen[p] \/ seen'[p] = n
    BY <1>2, <2>1, <2>2, <2>3 DEF LooksInv, LooksTypes
  <2>5. LooksTypes'
    BY <1>3, <1>4, <1>5, <2>2, <2>3, <2>4 DEF LooksInv, LooksTypes, Sayings
  <2>6. over' = FALSE
    BY <1>1, <1>2, <2>1 DEF LooksInv, DefaultInv, Earlier
  <2>7. \A x \in Sayings : Earlier(x) => Earlier(x)'
    BY <2>2, <2>3 DEF LooksInv, LooksTypes, Earlier, Sayings
  <2>8. n.version <= default'.version /\ n = default'
    BY <2>2, <2>3 DEF Sayings
  <2>9. \A p \in People : Earlier(seen[p])'
    BY <2>4, <2>7, <2>8 DEF LooksInv, LooksTypes, DefaultInv, Earlier
  <2>10. DefaultInv'
    BY <1>4, <1>5, <2>6, <2>7, <2>9 DEF LooksInv, LooksTypes, DefaultInv, Earlier
  <2>11. RoomInv'
    BY <1>3, <1>6, <2>2, <2>3 DEF LooksInv, RoomInv, LooksTypes, Sayings
  <2> QED  BY <2>5, <2>10, <2>11 DEF LooksInv
<1> QED  BY <1>7, <1>8


\* A saved view is of no matter to what is counted or to the default view.
LEMMA TouchKeeps ==
  ASSUME LooksInv, NEW h \in Hands, NEW p \in People, Look!Touch(h, p), part = "looks", UNCHANGED part
  PROVE  LooksInv'
<1>1. PICK op \in {"show", "hide", "remove"} : Look!Start(h, [Look!Idle EXCEPT !.op = op, !.by = p, !.was = view])
  BY DEF Look!Touch
<1>2. PICK r : r = [Look!Idle EXCEPT !.op = op, !.by = p, !.was = view]
  OBVIOUS
<1>3. r.op = op
  BY <1>2 DEF Look!Idle
<1>4. /\ UNCHANGED <<default, seen, rows, stale, over>>
      /\ want[h] = Look!Idle /\ want' = [want EXCEPT ![h] = r] /\ started < MaxLooks /\ started' = started + 1
  BY <1>1, <1>2 DEF Look!Touch, Look!Start, Look!Count
<1>5. want[h].op = "idle"
  BY <1>4 DEF Look!Idle
<1>6. /\ want' = [j \in Hands |-> want'[j]] /\ want'[h] = r /\ \A j \in Hands : j # h => want'[j] = want[j]
  BY <1>4, PendingChanges DEF LooksInv
<1>7. LooksTypes'
  BY <1>3, <1>4, <1>6 DEF LooksInv, LooksTypes
<1>8. DefaultInv'
  BY <1>3, <1>4, <1>6 DEF LooksInv, DefaultInv, Earlier
<1>9. /\ Cardinality(Pending("default")') = Cardinality(Pending("default")) /\ Cardinality(Pending("default")) \in Nat
      /\ \A k \in Look!Kinds : Cardinality(Pending(k)') = Cardinality(Pending(k))
  BY <1>3, <1>4, <1>5, PendingChanges DEF LooksInv, Look!Kinds
<1>10. RoomInv'
  BY <1>4, <1>9, LooksParameters DEF LooksInv, RoomInv, LooksTypes, Sayings
<1> QED  BY <1>7, <1>8, <1>10 DEF LooksInv

\* updateView, removeView: the requests kept up to a number are not touched.
LEMMA TouchViewKeeps ==
  ASSUME LooksInv, NEW h \in Hands, Look!TouchView(h), UNCHANGED part
  PROVE  LooksInv'
<1>1. /\ UNCHANGED <<default, seen, rows, stale, over, started>>
      /\ want[h].op \in {"show", "hide", "remove"} /\ want' = [want EXCEPT ![h] = Look!Idle]
  BY DEF Look!TouchView, Look!Done
<1>2. Look!Idle.op = "idle"
  BY DEF Look!Idle
<1>3. /\ want' = [j \in Hands |-> want'[j]] /\ want'[h] = Look!Idle /\ \A j \in Hands : j # h => want'[j] = want[j]
  BY <1>1, PendingChanges DEF LooksInv
<1>4. LooksTypes'
  BY <1>1, <1>2, <1>3 DEF LooksInv, LooksTypes
<1>5. DefaultInv'
  BY <1>1, <1>2, <1>3 DEF LooksInv, DefaultInv, Earlier
<1>6. /\ Cardinality(Pending("default")') = Cardinality(Pending("default"))
      /\ \A k \in Look!Kinds : Cardinality(Pending(k)') = Cardinality(Pending(k))
  BY <1>1, <1>2, PendingChanges DEF LooksInv, Look!Kinds
<1>7. RoomInv'
  BY <1>1, <1>6 DEF LooksInv, RoomInv
<1> QED  BY <1>4, <1>5, <1>7 DEF LooksInv

\* One that is to be kept: what is kept is under the limit, or nobody begins.
LEMMA KeepKeeps ==
  ASSUME LooksInv, NEW h \in Hands, NEW k \in Look!Kinds, Look!Keep(h, k), part = "looks", UNCHANGED part
  PROVE  LooksInv'
<1>1. PICK left : left = IF k = "pin" /\ Look!Full(rows[k]) THEN rows[k] - stale ELSE rows[k]
  OBVIOUS
<1>2. left \in Nat /\ left <= rows[k] /\ rows \in [Look!Kinds -> Nat] /\ stale \in Nat /\ stale <= rows["pin"]
  BY <1>1 DEF LooksInv, LooksTypes
<1>3. /\ rows' = [rows EXCEPT ![k] = left] /\ UNCHANGED <<default, seen, over>>
      /\ started < MaxLooks /\ started' = started + 1
      /\ stale' = (IF k = "pin" /\ Look!Full(rows[k]) THEN 0 ELSE stale)
  BY <1>1 DEF Look!Keep, Look!Start, Look!Count
<1>4. rows' \in [Look!Kinds -> Nat] /\ rows'[k] = left /\ \A z \in Look!Kinds : z # k => rows'[z] = rows[z]
  BY <1>2, <1>3
<1>5. stale' \in Nat /\ stale' <= rows'["pin"]
  BY <1>1, <1>2, <1>3, <1>4 DEF Look!Kinds
<1>6. CASE Look!Full(left)
  <2>1. want' = want
    BY <1>1, <1>6 DEF Look!Keep
  <2>2. LooksTypes'
    BY <1>3, <1>4, <1>5, <2>1 DEF LooksInv, LooksTypes
  <2>3. DefaultInv'
    BY <1>3, <2>1 DEF LooksInv, DefaultInv, Earlier
  <2>4. \A op : Pending(op)' = Pending(op) /\ Cardinality(Pending(op)) \in Nat
    BY <2>1, PendingRests
  <2>5. RoomInv'
    BY <1>2, <1>3, <1>4, <2>4, LooksParameters DEF LooksInv, RoomInv, LooksTypes, Sayings
  <2> QED  BY <2>2, <2>3, <2>5 DEF LooksInv
<1>7. CASE ~Look!Full(left)
  <2>1. PICK r : r = [Look!Idle EXCEPT !.op = k]
    OBVIOUS
  <2>2. r.op = k
    BY <2>1 DEF Look!Idle
  <2>3. want[h] = Look!Idle /\ want' = [want EXCEPT ![h] = r]
    BY <1>1, <1>7, <2>1 DEF Look!Keep, Look!Start
  <2>4. want[h].op = "idle"
    BY <2>3 DEF Look!Idle
  <2>5. /\ want' = [j \in Hands |-> want'[j]] /\ want'[h] = r /\ \A j \in Hands : j # h => want'[j] = want[j]
    BY <2>3, PendingChanges DEF LooksInv
  <2>6. LooksTypes'
    BY <1>3, <1>4, <1>5, <2>2, <2>5 DEF LooksInv, LooksTypes, Look!Kinds
  <2>7. DefaultInv'
    BY <1>3, <2>2, <2>5 DEF LooksInv, DefaultInv, Earlier, Look!Kinds
  <2>8. /\ Cardinality(Pending("default")') = Cardinality(Pending("default")) /\ Cardinality(Pending("default")) \in Nat
        /\ Cardinality(Pending(k)') <= Cardinality(Hands) /\ Cardinality(Pending(k)') \in Nat
        /\ \A z \in Look!Kinds : z # k => Cardinality(Pending(z)') = Cardinality(Pending(z))
    BY <2>2, <2>3, <2>4, PendingChanges DEF LooksInv, Look!Kinds
  <2>9. left < Limit
    BY <1>2, <1>7, LooksParameters DEF Look!Full
  <2>10. rows'[k] + Cardinality(Pending(k)') < Limit + Cardinality(Hands)
    BY <1>2, <1>4, <2>8, <2>9, LooksParameters
  <2>11. \A z \in Look!Kinds : z # k => rows'[z] + Cardinality(Pending(z)') < Limit + Cardinality(Hands)
    BY <1>4, <2>8 DEF LooksInv, RoomInv
  <2>12. RoomInv'
    BY <1>3, <2>8, <2>10, <2>11, LooksParameters DEF LooksInv, RoomInv, LooksTypes, Sayings
  <2> QED  BY <2>6, <2>7, <2>12 DEF LooksInv
<1> QED  BY <1>6, <1>7

\* The row is inserted: a request less, a row more.
LEMMA KeepWriteKeeps ==
  ASSUME LooksInv, NEW h \in Hands, Look!KeepWrite(h), UNCHANGED part
  PROVE  LooksInv'
<1>1. PICK k \in Look!Kinds : k = want[h].op
  BY DEF Look!KeepWrite
<1>2. /\ rows' = [rows EXCEPT ![k] = rows[k] + 1] /\ want' = [want EXCEPT ![h] = Look!Idle]
      /\ UNCHANGED <<default, seen, stale, over, started>>
  BY <1>1 DEF Look!KeepWrite, Look!Done
<1>3. Look!Idle.op = "idle"
  BY DEF Look!Idle
<1>4. /\ want' = [j \in Hands |-> want'[j]] /\ want'[h] = Look!Idle /\ \A j \in Hands : j # h => want'[j] = want[j]
  BY <1>2, PendingChanges DEF LooksInv
<1>5. /\ rows' \in [Look!Kinds -> Nat] /\ rows'[k] = rows[k] + 1 /\ \A z \in Look!Kinds : z # k => rows'[z] = rows[z]
      /\ stale <= rows'["pin"]
  BY <1>2 DEF LooksInv, LooksTypes, Look!Kinds
<1>6. LooksTypes'
  BY <1>2, <1>3, <1>4, <1>5 DEF LooksInv, LooksTypes
<1>7. DefaultInv'
  BY <1>2, <1>3, <1>4 DEF LooksInv, DefaultInv, Earlier
<1>8. /\ Cardinality(Pending("default")') = Cardinality(Pending("default"))
      /\ Cardinality(Pending(k)') = Cardinality(Pending(k)) - 1 /\ Cardinality(Pending(k)) \in Nat
      /\ \A z \in Look!Kinds : z # k => Cardinality(Pending(z)') = Cardinality(Pending(z))
  BY <1>1, <1>2, <1>3, PendingChanges DEF LooksInv, Look!Kinds
<1>9. RoomInv'
  BY <1>2, <1>5, <1>8 DEF LooksInv, RoomInv, LooksTypes
<1> QED  BY <1>6, <1>7, <1>9 DEF LooksInv

\* removeFormStyle, unpinForm: one row less.
LEMMA UnkeepKeeps ==
  ASSUME LooksInv, NEW k \in Look!Kinds, Look!Unkeep(k), part = "looks", UNCHANGED part
  PROVE  LooksInv'
<1>1. /\ rows' = [rows EXCEPT ![k] = rows[k] - 1] /\ UNCHANGED <<default, seen, stale, want, over>>
      /\ rows[k] > (IF k = "pin" THEN stale ELSE 0) /\ started < MaxLooks /\ started' = started + 1
  BY DEF Look!Unkeep, Look!Count
<1>2. /\ rows' \in [Look!Kinds -> Nat] /\ \A z \in Look!Kinds : rows'[z] <= rows[z]
      /\ stale <= rows'["pin"]
  BY <1>1 DEF LooksInv, LooksTypes, Look!Kinds
<1>3. LooksTypes'
  BY <1>1, <1>2 DEF LooksInv, LooksTypes
<1>4. DefaultInv'
  BY <1>1 DEF LooksInv, DefaultInv, Earlier
<1>5. \A op : Pending(op)' = Pending(op) /\ Cardinality(Pending(op)) \in Nat
  BY <1>1, PendingRests
<1>6. RoomInv'
  BY <1>1, <1>2, <1>5, LooksParameters DEF LooksInv, RoomInv, LooksTypes, Sayings
<1> QED  BY <1>3, <1>4, <1>6 DEF LooksInv

\* A pinned form goes: one more pin that cannot be read.
LEMMA LosePinnedKeeps ==
  ASSUME LooksInv, Look!LosePinned, part = "looks", UNCHANGED part
  PROVE  LooksInv'
<1>1. /\ stale < rows["pin"] /\ stale' = stale + 1 /\ UNCHANGED <<default, seen, rows, want, over>>
      /\ started < MaxLooks /\ started' = started + 1
  BY DEF Look!LosePinned, Look!Count
<1>2. LooksTypes'
  BY <1>1 DEF LooksInv, LooksTypes, Look!Kinds
<1>3. DefaultInv'
  BY <1>1 DEF LooksInv, DefaultInv, Earlier
<1>4. \A op : Pending(op)' = Pending(op) /\ Cardinality(Pending(op)) \in Nat
  BY <1>1, PendingRests
<1>5. RoomInv'
  BY <1>1, <1>4, LooksParameters DEF LooksInv, RoomInv, LooksTypes, Sayings
<1> QED  BY <1>2, <1>3, <1>5 DEF LooksInv

\* A step of looks.
LEMMA LooksStep ==
  ASSUME LooksInv, part = "looks", Look!Next, UNCHANGED part
  PROVE  LooksInv'
BY LoadViewKeeps, SaveKeeps, SaveDefaultKeeps, TouchKeeps, TouchViewKeeps, KeepKeeps, KeepWriteKeeps, UnkeepKeeps,
   LosePinnedKeeps DEF Look!Next

\* Where nothing of the looks is followed.
LEMMA LooksRest ==
  ASSUME LooksInv, UNCHANGED <<part, looksOnly>>, started' \in Nat,
         part # "looks" \/ started' = started
  PROVE  LooksInv'
<1>1. UNCHANGED <<default, seen, rows, stale, want, over>>
  BY DEF looksOnly
<1>2. LooksTypes' /\ DefaultInv'
  BY <1>1 DEF LooksInv, LooksTypes, DefaultInv, Earlier
<1>3. \A op : Pending(op)' = Pending(op)
  BY <1>1, PendingRests
<1>4. RoomInv'
  BY <1>1, <1>3 DEF LooksInv, RoomInv
<1> QED  BY <1>2, <1>4 DEF LooksInv

\* Where looks start.
LEMMA LooksStart == ASSUME KeepingInit PROVE LooksInv
<1>1. /\ default = Look!NoDefault /\ seen = [p \in People |-> Look!NoDefault]
      /\ rows = [k \in Look!Kinds |-> 0] /\ stale = 0 /\ want = [h \in Hands |-> Look!Idle]
      /\ over = FALSE /\ started = 0
  BY DEF KeepingInit, Look!Init
<1>2. Look!NoDefault \in Sayings /\ Look!NoDefault.version = 0 /\ Look!NoDefault.says = Nil
  BY DEF Look!NoDefault, Sayings
<1>3. Look!Idle.op = "idle"
  BY DEF Look!Idle
<1>4. LooksTypes
  BY <1>1, <1>2, <1>3 DEF LooksTypes, Look!Kinds
<1>5. DefaultInv
  BY <1>1, <1>2, <1>3 DEF DefaultInv, Earlier
<1>6. \A op \in {"default"} \cup Look!Kinds : Pending(op) = {}
  BY <1>1, <1>3 DEF Pending, Look!Kinds
<1>7. \A op \in {"default"} \cup Look!Kinds : Cardinality(Pending(op)) = 0
  BY <1>6, FS_EmptySet
<1>8. \A k \in Look!Kinds : rows[k] = 0
  BY <1>1
<1>9. Cardinality(Pending("default")) = 0 /\ default.version = 0 /\ started = 0
  BY <1>1, <1>2, <1>7
<1>10. ASSUME NEW k \in Look!Kinds PROVE rows[k] + Cardinality(Pending(k)) < Limit + Cardinality(Hands)
  <2>1. rows[k] = 0 /\ Cardinality(Pending(k)) = 0
    BY <1>7, <1>8
  <2> QED  BY <2>1, LooksParameters
<1>11. RoomInv
  BY <1>9, <1>10, LooksParameters DEF RoomInv
<1> QED  BY <1>4, <1>5, <1>11 DEF LooksInv

\* What the runs check of the looks.
LEMMA LooksPromise ==
  ASSUME LooksInv
  PROVE  /\ LooksHold /\ default.version \in 0..MaxLooks /\ (default.says = Nil <=> default.version = 0)
         /\ \A p \in People : seen[p].version <= default.version
<1>1. Look!NothingSavedOver
  BY DEF LooksInv, DefaultInv, Look!NothingSavedOver
<1>2. \A op : Cardinality(Pending(op)) \in Nat
  <2>1. ASSUME NEW op PROVE Cardinality(Pending(op)) \in Nat
    <3>1. IsFiniteSet(Pending(op))
      BY LooksParameters, FS_Subset DEF Pending
    <3> QED  BY <3>1, FS_CardinalityType
  <2> QED  BY <2>1
<1>3. Look!LimitsHold
  BY <1>2, LooksParameters DEF LooksInv, LooksTypes, RoomInv, Look!LimitsHold
<1>4. default.version \in 0..MaxLooks
  BY <1>2, LooksParameters DEF LooksInv, LooksTypes, RoomInv, Sayings
<1> QED  BY <1>1, <1>3, <1>4 DEF LooksHold, LooksInv, LooksTypes, DefaultInv, Earlier


-----------------------------------------------------------------------------
(* Copies of forms.                                                             *)

\* What is assumed of the constants, in the words the proofs use.
LEMMA CopiesParameters ==
  /\ First \in Forms /\ Nil \notin Forms /\ MaxField \in Nat /\ MaxField >= 1 /\ MaxSteps \in Nat
  /\ \A S : (Copy!IsFiniteSet(S) <=> IsFiniteSet(S)) /\ Copy!Cardinality(S) = Cardinality(S)
BY KeepingAssumption DEF Copy!CopiesAssumption, Copy!IsFiniteSet, IsFiniteSet, Copy!Cardinality, Cardinality

\* Fresh numbers: one each, none that was made before, and no more than there are fields.
LEMMA FreshNumbers ==
  ASSUME NEW T, DOMAIN T \subseteq 1..MaxField, made \in Nat
  PROVE  /\ IsFiniteSet(DOMAIN T) /\ Cardinality(DOMAIN T) \in Nat
         /\ Copy!Fresh(T) \in [DOMAIN T -> (made + 1)..(made + Cardinality(DOMAIN T))]
         /\ \A i, j \in DOMAIN T : Copy!Fresh(T)[i] = Copy!Fresh(T)[j] => i = j
<1> DEFINE Upto(i) == {j \in DOMAIN T : j <= i}
<1>1. IsFiniteSet(DOMAIN T) /\ Cardinality(DOMAIN T) \in Nat
  <2>1. IsFiniteSet(1..MaxField)
    BY CopiesParameters, FS_Interval
  <2> QED  BY <2>1, FS_Subset, FS_CardinalityType
<1>2. Copy!Fresh(T) = [i \in DOMAIN T |-> made + Cardinality(Upto(i))]
  BY CopiesParameters DEF Copy!Fresh
<1>3. ASSUME NEW i \in DOMAIN T
      PROVE  /\ IsFiniteSet(Upto(i)) /\ Cardinality(Upto(i)) \in Nat
             /\ Cardinality(Upto(i)) >= 1 /\ Cardinality(Upto(i)) <= Cardinality(DOMAIN T)
  <2>1. IsFiniteSet(Upto(i)) /\ Cardinality(Upto(i)) <= Cardinality(DOMAIN T)
    BY <1>1, FS_Subset
  <2>2. i \in Upto(i)
    BY <1>3
  <2>3. Cardinality(Upto(i)) # 0
    BY <2>1, <2>2, FS_EmptySet
  <2>4. Cardinality(Upto(i)) \in Nat
    BY <2>1, FS_CardinalityType
  <2> QED  BY <2>1, <2>3, <2>4
<1>4. ASSUME NEW i \in DOMAIN T, NEW j \in DOMAIN T, i < j
      PROVE  Cardinality(Upto(i)) < Cardinality(Upto(j))
  <2>1. Upto(i) \subseteq Upto(j)
    BY <1>4
  <2>2. j \in Upto(j) /\ j \notin Upto(i)
    BY <1>4
  <2>3. /\ Cardinality(Upto(i)) <= Cardinality(Upto(j))
        /\ Cardinality(Upto(j)) = Cardinality(Upto(i)) => Upto(j) = Upto(i)
    BY <1>3, <2>1, FS_Subset
  <2> QED  BY <1>3, <2>2, <2>3
<1> HIDE DEF Upto
<1>5. \A i \in DOMAIN T : Copy!Fresh(T)[i] \in (made + 1)..(made + Cardinality(DOMAIN T))
  BY <1>1, <1>2, <1>3
<1>6. ASSUME NEW i \in DOMAIN T, NEW j \in DOMAIN T, Copy!Fresh(T)[i] = Copy!Fresh(T)[j]
      PROVE  i = j
  <2>1. Cardinality(Upto(i)) = Cardinality(Upto(j))
    BY <1>2, <1>3, <1>6
  <2>2. ~(i < j) /\ ~(j < i)
    BY <1>3, <1>4, <2>1
  <2> QED  BY <2>2
<1> QED  BY <1>1, <1>2, <1>5, <1>6

\* A form made of a template's fields: as many fields, under their fresh numbers.
LEMMA RenamedFields ==
  ASSUME NEW T, DOMAIN T \subseteq 1..MaxField, made \in Nat, NEW F, F = Copy!Renamed(T, Copy!Fresh(T)),
         \A i \in DOMAIN T : T[i] \in [gone : BOOLEAN, shows : Nat]
  PROVE  /\ Cardinality(DOMAIN F) = Cardinality(DOMAIN T)
         /\ DOMAIN F \subseteq (made + 1)..(made + Cardinality(DOMAIN T)) /\ F = [i \in DOMAIN F |-> F[i]]
         /\ \A j \in DOMAIN T :
              /\ Copy!Fresh(T)[j] \in DOMAIN F
              /\ F[Copy!Fresh(T)[j]] = [gone |-> T[j].gone,
                                        shows |-> IF T[j].shows \in DOMAIN T THEN Copy!Fresh(T)[T[j].shows] ELSE T[j].shows]
         /\ \A i \in DOMAIN F : \E j \in DOMAIN T : i = Copy!Fresh(T)[j]
<1>1. PICK new : new = Copy!Fresh(T)
  OBVIOUS
<1>2. /\ IsFiniteSet(DOMAIN T) /\ Cardinality(DOMAIN T) \in Nat
      /\ new \in [DOMAIN T -> (made + 1)..(made + Cardinality(DOMAIN T))]
      /\ \A i, j \in DOMAIN T : new[i] = new[j] => i = j
  BY <1>1, FreshNumbers
<1>3. DOMAIN F = {new[j] : j \in DOMAIN T} /\ F = [i \in DOMAIN F |-> F[i]]
  BY <1>1 DEF Copy!Renamed
<1>4. \A i \in DOMAIN F : F[i] = LET old == T[CHOOSE j \in DOMAIN T : new[j] = i]
                                 IN [old EXCEPT !.shows = IF old.shows \in DOMAIN T THEN new[old.shows] ELSE old.shows]
  BY <1>1 DEF Copy!Renamed
<1>5. ASSUME NEW j \in DOMAIN T
      PROVE  /\ new[j] \in DOMAIN F
             /\ F[new[j]] = [gone |-> T[j].gone, shows |-> IF T[j].shows \in DOMAIN T THEN new[T[j].shows] ELSE T[j].shows]
  <2>1. new[j] \in DOMAIN F
    BY <1>3
  <2>2. (CHOOSE z \in DOMAIN T : new[z] = new[j]) = j
    BY <1>2
  <2>3. PICK s : s = IF T[j].shows \in DOMAIN T THEN new[T[j].shows] ELSE T[j].shows
    OBVIOUS
  <2>4. F[new[j]] = [T[j] EXCEPT !.shows = s]
    BY <1>4, <2>1, <2>2, <2>3
  <2> QED  BY <2>1, <2>3, <2>4
<1>6. new \in Bijection(DOMAIN T, DOMAIN F)
  BY <1>2, <1>3 DEF Bijection, Injection, IsInjective, Surjection
<1>7. Cardinality(DOMAIN F) = Cardinality(DOMAIN T)
  BY <1>2, <1>6, FS_Bijection DEF ExistsBijection
<1> QED  BY <1>1, <1>2, <1>3, <1>5, <1>7

\* A template whose rules stay within it can be used.
LEMMA ClosedIsUsable ==
  ASSUME NEW T, DOMAIN T \subseteq 1..MaxField, made \in Nat,
         \A i \in DOMAIN T : T[i] \in [gone : BOOLEAN, shows : Nat] /\ T[i].shows # i /\ T[i].shows \in {0} \cup DOMAIN T
  PROVE  Copy!Usable(T)
<1>1. PICK F : F = Copy!Renamed(T, Copy!Fresh(T))
  OBVIOUS
<1>2. \A i \in DOMAIN T : T[i] \in [gone : BOOLEAN, shows : Nat]
  OBVIOUS
<1>3. /\ \A j \in DOMAIN T :
           /\ Copy!Fresh(T)[j] \in DOMAIN F
           /\ F[Copy!Fresh(T)[j]] = [gone |-> T[j].gone,
                                     shows |-> IF T[j].shows \in DOMAIN T THEN Copy!Fresh(T)[T[j].shows] ELSE T[j].shows]
      /\ \A i \in DOMAIN F : \E j \in DOMAIN T : i = Copy!Fresh(T)[j]
  BY <1>1, <1>2, RenamedFields
<1>4. \A i, j \in DOMAIN T : Copy!Fresh(T)[i] = Copy!Fresh(T)[j] => i = j
  BY FreshNumbers
<1>5. ASSUME NEW i \in DOMAIN F, F[i].shows # 0
      PROVE  F[i].shows \in DOMAIN F \ {i}
  <2>1. PICK j \in DOMAIN T : i = Copy!Fresh(T)[j]
    BY <1>3
  <2>2. PICK s : s = IF T[j].shows \in DOMAIN T THEN Copy!Fresh(T)[T[j].shows] ELSE T[j].shows
    OBVIOUS
  <2>3. F[i] = [gone |-> T[j].gone, shows |-> s]
    BY <1>3, <2>1, <2>2
  <2>4. F[i].shows = s
    BY <2>3
  <2>5. T[j].shows \in DOMAIN T /\ T[j].shows # j
    BY <1>5, <2>2, <2>4
  <2>6. s = Copy!Fresh(T)[T[j].shows]
    BY <2>2, <2>5
  <2>7. s \in DOMAIN F
    BY <1>3, <2>5, <2>6
  <2>8. s # i
    BY <1>4, <2>1, <2>5, <2>6
  <2> QED  BY <2>4, <2>7, <2>8
<1> QED  BY <1>1, <1>5 DEF Copy!Usable, Copy!Whole, Copy!Live


\* What an editor sends are fields, of the form or one new.
LEMMA SentShape ==
  ASSUME made \in Nat, NEW F, FieldSet(F), NEW posted \in Copy!Sent(F)
  PROVE  /\ DOMAIN posted \subseteq DOMAIN F \cup {made + 1}
         /\ \A i \in DOMAIN posted : posted[i] \in [gone : BOOLEAN, shows : Nat]
<1>1. Copy!Live(F) \subseteq DOMAIN F /\ DOMAIN F \subseteq Nat
  BY DEF Copy!Live, FieldSet
<1>2. PICK shown : shown = Copy!Restrict(F, Copy!Live(F))
  OBVIOUS
<1>3. CASE \E i \in Copy!Live(F) : posted = Copy!Restrict(shown, Copy!Live(F) \ {i})
  <2>1. PICK i \in Copy!Live(F) : posted = [j \in Copy!Live(F) \ {i} |-> shown[j]]
    BY <1>3 DEF Copy!Restrict
  <2>2. DOMAIN posted = Copy!Live(F) \ {i} /\ \A j \in DOMAIN posted : posted[j] = F[j]
    BY <1>2, <2>1 DEF Copy!Restrict
  <2> QED  BY <1>1, <2>2 DEF FieldSet
<1>4. CASE \E i \in DOMAIN F \cup {made + 1}, r \in {0} \cup DOMAIN F :
             posted = [j \in Copy!Live(F) \cup {i} |-> IF j = i THEN [gone |-> FALSE, shows |-> r] ELSE F[j]]
  <2>1. PICK i \in DOMAIN F \cup {made + 1}, r \in {0} \cup DOMAIN F :
          posted = [j \in Copy!Live(F) \cup {i} |-> IF j = i THEN [gone |-> FALSE, shows |-> r] ELSE F[j]]
    BY <1>4
  <2>2. DOMAIN posted = Copy!Live(F) \cup {i} /\ r \in Nat
    BY <1>1, <2>1
  <2>3. \A j \in DOMAIN posted : j = i \/ j \in DOMAIN F
    BY <1>1, <2>2
  <2>4. \A j \in DOMAIN posted : posted[j] \in [gone : BOOLEAN, shows : Nat]
    BY <2>1, <2>2, <2>3 DEF FieldSet
  <2> QED  BY <1>1, <2>2, <2>4
<1>5. \/ \E i \in Copy!Live(F) : posted = Copy!Restrict(Copy!Restrict(F, Copy!Live(F)), Copy!Live(F) \ {i})
      \/ \E i \in DOMAIN F \cup {made + 1}, r \in {0} \cup DOMAIN F :
           posted = [j \in Copy!Live(F) \cup {i} |-> IF j = i THEN [gone |-> FALSE, shows |-> r] ELSE F[j]]
  <2> DEFINE with(i, r) == [j \in Copy!Live(F) \cup {i} |-> IF j = i THEN [gone |-> FALSE, shows |-> r] ELSE F[j]]
             less == {Copy!Restrict(Copy!Restrict(F, Copy!Live(F)), Copy!Live(F) \ {i}) : i \in Copy!Live(F)}
             of(i) == {with(i, r) : r \in {0} \cup DOMAIN F}
             more == {of(i) : i \in DOMAIN F \cup {made + 1}}
  <2>1. posted \in less \cup UNION more
    BY DEF Copy!Sent
  <2>2. CASE posted \in less
    BY <2>2
  <2>3. CASE posted \in UNION more
    <3>1. PICK S \in more : posted \in S
      BY <2>3
    <3>2. PICK i \in DOMAIN F \cup {made + 1} : posted \in of(i)
      BY <3>1
    <3>3. PICK r \in {0} \cup DOMAIN F : posted = with(i, r)
      BY <3>2
    <3> QED  BY <3>3
  <2> QED  BY <2>1, <2>2, <2>3
<1> QED  BY <1>2, <1>3, <1>4, <1>5

\* processFieldsUpdate: no field is lost, and at most one is new.
LEMMA MergedShape ==
  ASSUME made \in Nat, NEW F, FieldSet(F), NEW posted \in Copy!Sent(F), NEW G, G = Copy!Merged(F, posted)
  PROVE  /\ DOMAIN F \subseteq DOMAIN G /\ DOMAIN G \subseteq DOMAIN F \cup {made + 1} /\ G = [i \in DOMAIN G |-> G[i]]
         /\ \A i \in DOMAIN G : G[i] \in [gone : BOOLEAN, shows : Nat]
<1>1. /\ DOMAIN posted \subseteq DOMAIN F \cup {made + 1}
      /\ \A i \in DOMAIN posted : posted[i] \in [gone : BOOLEAN, shows : Nat]
  BY SentShape
<1>2. /\ DOMAIN G = DOMAIN F \cup DOMAIN posted /\ G = [i \in DOMAIN G |-> G[i]]
      /\ \A i \in DOMAIN G : G[i] = IF i \in DOMAIN posted THEN posted[i] ELSE [F[i] EXCEPT !.gone = TRUE]
  BY DEF Copy!Merged
<1>3. ASSUME NEW i \in DOMAIN F, NEW g, g = [F[i] EXCEPT !.gone = TRUE]
      PROVE  g \in [gone : BOOLEAN, shows : Nat]
  <2>1. F[i] \in [gone : BOOLEAN, shows : Nat]
    BY DEF FieldSet
  <2> QED  BY <1>3, <2>1
<1>4. ASSUME NEW i \in DOMAIN G PROVE G[i] \in [gone : BOOLEAN, shows : Nat]
  <2>1. CASE i \in DOMAIN posted
    BY <1>1, <1>2, <2>1
  <2>2. CASE i \notin DOMAIN posted
    <3>1. i \in DOMAIN F /\ G[i] = [F[i] EXCEPT !.gone = TRUE]
      BY <1>2, <1>4, <2>2
    <3> QED  BY <1>3, <3>1
  <2> QED  BY <2>1, <2>2
<1> QED  BY <1>1, <1>2, <1>4

\* More fieldIds made are no matter to the fields there are.
LEMMA MadeGrows ==
  ASSUME made \in Nat, made' \in Nat, made <= made'
  PROVE  \A F : FieldSet(F) => FieldSet(F)'
<1>1. 1..made \subseteq 1..made'
  OBVIOUS
<1> QED  BY <1>1 DEF FieldSet

\* Where nothing of the copies is followed.
LEMMA CopiesRest ==
  ASSUME FormCopiesInv, UNCHANGED copiesOnly
  PROVE  FormCopiesInv'
BY DEF FormCopiesInv, copiesOnly, FieldSet, Copy!Whole, Copy!Live

\* A save of fields: what is stored is whole, and its fields were made.
LEMMA SaveFieldsKeeps ==
  ASSUME FormCopiesInv, NEW f \in Forms, Copy!SaveFields(f)
  PROVE  FormCopiesInv'
<1>1. PICK posted \in Copy!Sent(fields[f]) :
         LET F == Copy!Merged(fields[f], posted)
         IN /\ DOMAIN F \subseteq Copy!Ids /\ Copy!Whole(F)
            /\ fields' = [fields EXCEPT ![f] = F]
            /\ made' = IF made + 1 \in DOMAIN F THEN made + 1 ELSE made
  BY DEF Copy!SaveFields
<1>2. PICK G : G = Copy!Merged(fields[f], posted)
  OBVIOUS
<1>3. made \in Nat /\ FieldSet(fields[f]) /\ template' = template
  BY CopiesParameters DEF FormCopiesInv, Copy!SaveFields
<1>4. /\ DOMAIN G \subseteq DOMAIN fields[f] \cup {made + 1} /\ G = [i \in DOMAIN G |-> G[i]]
      /\ \A i \in DOMAIN G : G[i] \in [gone : BOOLEAN, shows : Nat]
  BY <1>2, <1>3, MergedShape
<1>5. /\ DOMAIN G \subseteq 1..MaxField /\ Copy!Whole(G) /\ fields' = [fields EXCEPT ![f] = G]
      /\ made' = IF made + 1 \in DOMAIN G THEN made + 1 ELSE made
  BY <1>1, <1>2 DEF Copy!Ids
<1>6. made' \in 1..MaxField /\ made <= made' /\ made' \in Nat
  BY <1>3, <1>5, CopiesParameters DEF FormCopiesInv
<1>7. DOMAIN G \subseteq 1..made'
  BY <1>3, <1>4, <1>5 DEF FieldSet
<1>8. FieldSet(G)'
  BY <1>4, <1>7 DEF FieldSet
<1>9. \A F : FieldSet(F) => FieldSet(F)'
  BY <1>3, <1>6, MadeGrows
<1>10. fields' = [g \in Forms |-> fields'[g]] /\ \A g \in Forms : fields'[g] = IF g = f THEN G ELSE fields[g]
  BY <1>5 DEF FormCopiesInv
<1>11. \A g \in Forms : fields'[g] # Nil => FieldSet(fields[g])' /\ Copy!Whole(fields'[g])
  <2>1. ASSUME NEW g \in Forms, fields'[g] # Nil PROVE FieldSet(fields[g])' /\ Copy!Whole(fields'[g])
    <3>1. PICK F : F = fields'[g]
      OBVIOUS
    <3>2. FieldSet(F)' /\ Copy!Whole(F)
      BY <1>5, <1>8, <1>9, <1>10, <2>1, <3>1 DEF FormCopiesInv
    <3> QED  BY <3>1, <3>2 DEF FieldSet
  <2> QED  BY <2>1
<1>12. \A t \in Templates : template[t] # Nil => FieldSet(template[t])'
  BY <1>3, <1>9 DEF FormCopiesInv, FieldSet
<1> QED  BY <1>3, <1>6, <1>10, <1>11, <1>12 DEF FormCopiesInv, FieldSet, Copy!Whole, Copy!Live


\* duplicateForm: the copy is as whole as the form.
LEMMA DuplicateKeeps ==
  ASSUME FormCopiesInv, NEW f \in Forms, NEW g \in Forms, Copy!Duplicate(f, g)
  PROVE  FormCopiesInv'
<1>1. fields[f] # Nil /\ fields' = [fields EXCEPT ![g] = fields[f]] /\ UNCHANGED <<template, made>>
  BY DEF Copy!Duplicate
<1>2. fields' = [z \in Forms |-> fields'[z]] /\ \A z \in Forms : fields'[z] = IF z = g THEN fields[f] ELSE fields[z]
  BY <1>1 DEF FormCopiesInv
<1>3. made \in Nat /\ made' = made
  BY <1>1, CopiesParameters DEF FormCopiesInv
<1>4. \A F : FieldSet(F) => FieldSet(F)'
  BY <1>3, MadeGrows
<1>5. ASSUME NEW z \in Forms, fields'[z] # Nil PROVE FieldSet(fields[z])' /\ Copy!Whole(fields'[z])
  <2>1. PICK F : F = fields'[z]
    OBVIOUS
  <2>2. FieldSet(F)' /\ Copy!Whole(F)
    BY <1>1, <1>2, <1>4, <1>5, <2>1 DEF FormCopiesInv
  <2> QED  BY <2>1, <2>2 DEF FieldSet
<1>6. \A t \in Templates : template'[t] # Nil =>
        FieldSet(template[t])' /\ \A i \in DOMAIN template'[t] : ~template'[t][i].gone /\ template'[t][i].shows # i
  <2>1. ASSUME NEW t \in Templates, template'[t] # Nil, NEW T, T = template'[t]
        PROVE  FieldSet(T)' /\ \A i \in DOMAIN T : ~T[i].gone /\ T[i].shows # i
    BY <1>1, <1>4, <2>1 DEF FormCopiesInv
  <2> QED  BY <2>1 DEF FieldSet
<1>7. made' \in 1..MaxField /\ template' = [t \in Templates |-> template'[t]]
  BY <1>1 DEF FormCopiesInv
<1> QED  BY <1>2, <1>5, <1>6, <1>7 DEF FormCopiesInv

\* publishTemplate: a snapshot of live fields, none leading to itself.
LEMMA PublishKeeps ==
  ASSUME FormCopiesInv, NEW f \in Forms, NEW t \in Templates, Copy!Publish(f, t)
  PROVE  FormCopiesInv'
<1>1. PICK T : T = Copy!Restrict(fields[f], Copy!Live(fields[f]))
  OBVIOUS
<1>2. fields[f] # Nil /\ template' = [template EXCEPT ![t] = T] /\ UNCHANGED <<fields, made>>
  BY <1>1 DEF Copy!Publish
<1>3. template' = [z \in Templates |-> template'[z]] /\ \A z \in Templates : template'[z] = IF z = t THEN T ELSE template[z]
  BY <1>2 DEF FormCopiesInv
<1>4. /\ DOMAIN T = Copy!Live(fields[f]) /\ T = [i \in DOMAIN T |-> T[i]]
      /\ \A i \in DOMAIN T : T[i] = fields[f][i]
  BY <1>1 DEF Copy!Restrict
<1>5. FieldSet(fields[f]) /\ Copy!Whole(fields[f])
  BY <1>2 DEF FormCopiesInv
<1>6. Copy!Live(fields[f]) \subseteq DOMAIN fields[f]
  BY DEF Copy!Live
<1>7. FieldSet(T)
  BY <1>4, <1>5, <1>6 DEF FieldSet
<1>8. \A i \in DOMAIN T : ~T[i].gone /\ T[i].shows # i
  <2>1. ASSUME NEW i \in DOMAIN T PROVE ~T[i].gone /\ T[i].shows # i
    <3>1. i \in 1..made /\ made \in Nat /\ ~fields[f][i].gone
      BY <1>4, <1>5, <1>6, CopiesParameters DEF FieldSet, FormCopiesInv, Copy!Live
    <3>2. fields[f][i].shows # 0 => fields[f][i].shows # i
      BY <1>4, <1>5 DEF Copy!Whole
    <3> QED  BY <1>4, <3>1, <3>2
  <2> QED  BY <2>1
<1>9. made \in Nat /\ made' = made
  BY <1>2, CopiesParameters DEF FormCopiesInv
<1>10. \A F : FieldSet(F) => FieldSet(F)'
  BY <1>9, MadeGrows
<1>11. ASSUME NEW z \in Templates, template'[z] # Nil
       PROVE  FieldSet(template[z])' /\ \A i \in DOMAIN template'[z] : ~template'[z][i].gone /\ template'[z][i].shows # i
  <2>1. PICK F : F = template'[z]
    OBVIOUS
  <2>2. FieldSet(F)' /\ \A i \in DOMAIN F : ~F[i].gone /\ F[i].shows # i
    BY <1>3, <1>7, <1>8, <1>10, <1>11, <2>1 DEF FormCopiesInv
  <2> QED  BY <2>1, <2>2 DEF FieldSet
<1>12. \A z \in Forms : fields[z] # Nil => FieldSet(fields[z])' /\ Copy!Whole(fields[z])
  BY <1>2, <1>10 DEF FormCopiesInv, FieldSet
<1> QED  BY <1>2, <1>3, <1>11, <1>12 DEF FormCopiesInv, FieldSet, Copy!Whole, Copy!Live

\* removeTemplate: the other templates stay as they are.
LEMMA RemoveKeeps ==
  ASSUME FormCopiesInv, NEW t \in Templates, Copy!Remove(t)
  PROVE  FormCopiesInv'
<1>1. template' = [template EXCEPT ![t] = Nil] /\ UNCHANGED <<fields, made>>
  BY DEF Copy!Remove
<1>2. template' = [z \in Templates |-> template'[z]] /\ \A z \in Templates : template'[z] = IF z = t THEN Nil ELSE template[z]
  BY <1>1 DEF FormCopiesInv
<1> QED  BY <1>1, <1>2 DEF FormCopiesInv, FieldSet, Copy!Whole, Copy!Live

\* useTemplate: the form made is whole, or none is made.
LEMMA UseKeeps ==
  ASSUME FormCopiesInv, NEW t \in Templates, NEW g \in Forms, Copy!Use(t, g)
  PROVE  FormCopiesInv'
<1>1. PICK T : T = template[t]
  OBVIOUS
<1>2. PICK F : F = Copy!Renamed(T, Copy!Fresh(T))
  OBVIOUS
<1>3. /\ FieldSet(T) /\ made \in Nat /\ made <= MaxField /\ made >= 1 /\ DOMAIN T \subseteq 1..MaxField
      /\ template' = template
  BY <1>1, CopiesParameters DEF Copy!Use, FormCopiesInv, FieldSet
<1>4. /\ made + Cardinality(DOMAIN T) <= MaxField
      /\ IF Copy!Whole(F) THEN fields' = [fields EXCEPT ![g] = F] /\ made' = made + Cardinality(DOMAIN F)
                          ELSE UNCHANGED <<fields, made>>
  BY <1>1, <1>2, CopiesParameters DEF Copy!Use
<1>5. CASE ~Copy!Whole(F)
  BY <1>3, <1>4, <1>5, CopiesRest DEF copiesOnly, Copy!Use, FormCopiesInv, FieldSet, Copy!Whole, Copy!Live
<1>6. CASE Copy!Whole(F)
  <2>1. \A i \in DOMAIN T : T[i] \in [gone : BOOLEAN, shows : Nat]
    BY <1>3 DEF FieldSet
  <2>2. /\ Cardinality(DOMAIN F) = Cardinality(DOMAIN T)
        /\ DOMAIN F \subseteq (made + 1)..(made + Cardinality(DOMAIN T)) /\ F = [i \in DOMAIN F |-> F[i]]
        /\ \A j \in DOMAIN T :
             F[Copy!Fresh(T)[j]] = [gone |-> T[j].gone,
                                    shows |-> IF T[j].shows \in DOMAIN T THEN Copy!Fresh(T)[T[j].shows] ELSE T[j].shows]
        /\ \A i \in DOMAIN F : \E j \in DOMAIN T : i = Copy!Fresh(T)[j]
    BY <1>2, <1>3, <2>1, RenamedFields
  <2>3. /\ Cardinality(DOMAIN T) \in Nat
        /\ Copy!Fresh(T) \in [DOMAIN T -> (made + 1)..(made + Cardinality(DOMAIN T))]
    BY <1>3, FreshNumbers
  <2>4. made' = made + Cardinality(DOMAIN T) /\ made' \in 1..MaxField /\ made <= made' /\ made' \in Nat
    BY <1>3, <1>4, <1>6, <2>2, <2>3, CopiesParameters
  <2>5. ASSUME NEW i \in DOMAIN F PROVE F[i] \in [gone : BOOLEAN, shows : Nat]
    <3>1. PICK j \in DOMAIN T : i = Copy!Fresh(T)[j]
      BY <2>2
    <3>2. PICK s : s = IF T[j].shows \in DOMAIN T THEN Copy!Fresh(T)[T[j].shows] ELSE T[j].shows
      OBVIOUS
    <3>3. F[i] = [gone |-> T[j].gone, shows |-> s]
      BY <2>2, <3>1, <3>2
    <3>4. T[j] \in [gone : BOOLEAN, shows : Nat]
      BY <2>1
    <3>5. \A k \in DOMAIN T : Copy!Fresh(T)[k] \in Nat
      BY <1>3, <2>3
    <3>6. s \in Nat
      BY <3>2, <3>4, <3>5
    <3> QED  BY <3>3, <3>4, <3>6
  <2>6. FieldSet(F)'
    BY <1>3, <2>2, <2>3, <2>4, <2>5 DEF FieldSet
  <2>7. \A G : FieldSet(G) => FieldSet(G)'
    BY <1>3, <2>4, MadeGrows
  <2>8. fields' = [z \in Forms |-> fields'[z]] /\ \A z \in Forms : fields'[z] = IF z = g THEN F ELSE fields[z]
    BY <1>4, <1>6 DEF FormCopiesInv
  <2>9. ASSUME NEW z \in Forms, fields'[z] # Nil PROVE FieldSet(fields[z])' /\ Copy!Whole(fields'[z])
    <3>1. PICK G : G = fields'[z]
      OBVIOUS
    <3>2. FieldSet(G)' /\ Copy!Whole(G)
      BY <1>6, <2>6, <2>7, <2>8, <2>9, <3>1 DEF FormCopiesInv
    <3> QED  BY <3>1, <3>2 DEF FieldSet
  <2>10. \A z \in Templates : template[z] # Nil => FieldSet(template[z])'
    BY <1>3, <2>7 DEF FormCopiesInv, FieldSet
  <2> QED  BY <1>3, <2>4, <2>8, <2>9, <2>10 DEF FormCopiesInv, FieldSet, Copy!Whole, Copy!Live
<1> QED  BY <1>5, <1>6

\* Where copies start.
LEMMA CopiesStart == ASSUME KeepingInit PROVE FormCopiesInv
<1>1. PICK F : F = [i \in {1} |-> [gone |-> FALSE, shows |-> 0]]
  OBVIOUS
<1>2. /\ fields = [f \in Forms |-> IF f = First THEN F ELSE Nil] /\ template = [t \in Templates |-> Nil] /\ made = 1
  BY <1>1 DEF KeepingInit, Copy!Init
<1>3. DOMAIN F = {1} /\ F = [i \in DOMAIN F |-> F[i]] /\ \A i \in DOMAIN F : F[i] = [gone |-> FALSE, shows |-> 0]
  BY <1>1
<1>4. \A i \in DOMAIN F : F[i].shows = 0 /\ F[i] \in [gone : BOOLEAN, shows : Nat]
  <2>1. ASSUME NEW r, r = [gone |-> FALSE, shows |-> 0] PROVE r.shows = 0 /\ r \in [gone : BOOLEAN, shows : Nat]
    BY <2>1
  <2> QED  BY <1>3, <2>1
<1>5. DOMAIN F \subseteq 1..made
  BY <1>2, <1>3
<1>6. FieldSet(F) /\ Copy!Whole(F)
  BY <1>3, <1>4, <1>5 DEF FieldSet, Copy!Whole, Copy!Live
<1> QED  BY <1>2, <1>6, CopiesParameters DEF FormCopiesInv

\* What the runs check of copies.
LEMMA CopiesPromise ==
  ASSUME FormCopiesInv
  PROVE  CopiesHold /\ made \in 1..MaxField /\ \A f \in Forms : fields[f] # Nil => DOMAIN fields[f] \subseteq 1..made
<1>1. made \in Nat /\ made >= 1 /\ made <= MaxField
  BY CopiesParameters DEF FormCopiesInv
<1>2. Copy!FormsWhole
  <2>1. ASSUME NEW f \in Forms, fields[f] # Nil, NEW i \in Copy!Live(fields[f])
        PROVE  fields[f][i].shows \in ({0} \cup DOMAIN fields[f]) \ {i}
    <3>1. fields[f][i].shows # 0 => fields[f][i].shows \in DOMAIN fields[f] \ {i}
      BY <2>1 DEF FormCopiesInv, Copy!Whole
    <3>2. i \in 1..made
      BY <2>1 DEF FormCopiesInv, FieldSet, Copy!Live
    <3> QED  BY <1>1, <3>1, <3>2
  <2> QED  BY <2>1 DEF Copy!FormsWhole
<1>3. Copy!ClosedTemplatesUsable
  <2>1. ASSUME NEW t \in Templates, template[t] # Nil,
               \A i \in DOMAIN template[t] : template[t][i].shows \in {0} \cup DOMAIN template[t]
        PROVE  Copy!Usable(template[t])
    <3>1. DOMAIN template[t] \subseteq 1..MaxField
      BY <1>1, <2>1, CopiesParameters DEF FormCopiesInv, FieldSet
    <3>2. \A i \in DOMAIN template[t] : template[t][i] \in [gone : BOOLEAN, shows : Nat] /\ template[t][i].shows # i
      BY <2>1 DEF FormCopiesInv, FieldSet
    <3> QED  BY <1>1, <2>1, <3>1, <3>2, ClosedIsUsable
  <2> QED  BY <2>1 DEF Copy!ClosedTemplatesUsable
<1> QED  BY <1>1, <1>2, <1>3 DEF CopiesHold, FormCopiesInv, FieldSet

-----------------------------------------------------------------------------
(* Keeping: the parts together.                                                 *)

KeepingInv == MovingTypes /\ SharesInv /\ ToldInv /\ LooksInv /\ FormCopiesInv

\* Where moving starts, followed or not.
LEMMA MovingStart ==
  ASSUME KeepingInit
  PROVE  MovingTypes /\ SharesInv /\ ToldInv /\ PinsInv
<1>1. /\ grant = [u \in Users |-> Nil] /\ pin = [u \in Users |-> Nil] /\ torn = FALSE
      /\ req = [h \in Hands |-> NoRequest] /\ home \in Homes /\ creator \in Users
      /\ role \in [Workspaces -> [Users -> Roles \cup {Nil}]]
  BY DEF KeepingInit, MovingInit
<1>2. \A h \in Hands : req[h] = NoRequest /\ ~Moving(h)
  BY <1>1, NoRequestFits DEF Moving
<1>3. \A u \in Users : grant[u] = Nil /\ pin[u] = Nil
  BY <1>1
<1>4. MovingTypes
  BY <1>1, NoRequestFits DEF MovingTypes
<1>5. SharesInv
  BY <1>3 DEF SharesInv, SharesStayBehind
<1>6. ToldInv
  BY <1>2, <1>3, NoRequestFits DEF ToldInv, HoldersTold
<1>7. PinsInv
  BY <1>2, <1>3 DEF PinsInv, PinsSettled
<1> QED  BY <1>4, <1>5, <1>6, <1>7

\* A step of copies.
LEMMA CopiesStep ==
  ASSUME FormCopiesInv, Copy!Next
  PROVE  FormCopiesInv'
BY SaveFieldsKeeps, DuplicateKeeps, PublishKeeps, RemoveKeeps, UseKeeps DEF Copy!Next

\* Moving's requests are counted with those about looks, one part at a time.
LEMMA MovingCounts ==
  ASSUME MovingNext, started \in Nat
  PROVE  started' \in Nat
<1>1. started' = started \/ started' = started + 1
  BY DEF MovingNext, EndShares, SaveMove, SaveMoveRefused, ReadMembers, DropPins, FollowPins, LookAtShare, WriteShare,
         TellShare, WritePin, CutShort, Pin, Move, Share, Start, Revoke, Unpin, ChangeRole
<1> QED  BY <1>1

\* A step of one part, and what the other parts have of it.
LEMMA KeepingParts ==
  ASSUME LooksInv, [KeepingNext]_keepingVars
  PROVE  /\ MovingNext \/ MovingRests
         /\ \/ part = "looks" /\ Look!Next /\ UNCHANGED part
            \/ UNCHANGED <<part, looksOnly>> /\ started' \in Nat /\ (part # "looks" \/ started' = started)
         /\ Copy!Next \/ UNCHANGED copiesOnly
<1>1. started \in Nat
  BY DEF LooksInv, RoomInv
<1>2. CASE part = "moving" /\ MovingNext /\ UNCHANGED <<part, looksOnly, copiesOnly, answersOnly>>
  BY <1>1, <1>2, MovingCounts
<1>3. CASE part = "looks" /\ Look!Next /\ UNCHANGED <<part, movingOnly, copiesOnly, answersOnly>>
  <2>1. UNCHANGED movingOnly /\ UNCHANGED copiesOnly /\ UNCHANGED part /\ part = "looks" /\ Look!Next
    BY <1>3
  <2>2. MovingRests
    BY <2>1 DEF movingOnly, MovingRests
  <2> QED  BY <2>1, <2>2
<1>4. CASE part = "copies" /\ Copy!Next /\ UNCHANGED <<part, movingOnly, looksOnly, answersOnly, started>>
  BY <1>1, <1>4 DEF movingOnly, MovingRests
<1>5. CASE part = "answers" /\ Reply!Next /\ UNCHANGED <<part, movingOnly, looksOnly, copiesOnly, started>>
  BY <1>1, <1>5 DEF movingOnly, MovingRests
<1>6. CASE UNCHANGED keepingVars
  BY <1>1, <1>6 DEF keepingVars, movingOnly, MovingRests
<1> QED  BY <1>2, <1>3, <1>4, <1>5, <1>6 DEF KeepingNext

\* The invariant at the start, ...
LEMMA KeepingStart == KeepingInit => KeepingInv
BY MovingStart, LooksStart, CopiesStart DEF KeepingInv

\* ... in every step of any part, ...
LEMMA KeepingStep == KeepingInv /\ [KeepingNext]_keepingVars => KeepingInv'
BY KeepingParts, MovingTyped, SharesKept, ToldKept, LooksStep, LooksRest, CopiesStep, CopiesRest DEF KeepingInv

\* ... and so always.
LEMMA KeepingHeld == KeepingSpec => []KeepingInv
BY KeepingStart, KeepingStep, PTL DEF KeepingSpec

\* The types of what is kept, and what follows from them.
LEMMA KeepingTyped == KeepingInv => KeepingTypes
BY LooksPromise, CopiesPromise DEF KeepingInv, MovingTypes, KeepingTypes

\* Formats, views and pins: a default view is never saved over one its editor did not see,
\* and what is kept up to a number never exceeds it by more than the requests side by side.
THEOREM LooksKept == KeepingSpec => []LooksHold
<1>1. KeepingInv => LooksHold
  BY LooksPromise DEF KeepingInv
<1> QED  BY <1>1, KeepingHeld, PTL

\* validateFieldsIntegrity, useTemplate: along any chain of saves, copies and templates a
\* form's rules name its own fields, and a template whose rules stay within it can be used.
THEOREM CopiesWhole == KeepingSpec => []CopiesHold
<1>1. KeepingInv => CopiesHold
  BY CopiesPromise DEF KeepingInv
<1> QED  BY <1>1, KeepingHeld, PTL

\* moveForm, createFormGrant: however many moves there are at once, a share in force was
\* given where the form is now, and whoever holds one was told or is about to be.
THEOREM SharesMoveOn == KeepingSpec => [](KeepingTypes /\ SharesStayBehind /\ HoldersTold)
<1>1. KeepingInv => KeepingTypes /\ SharesStayBehind /\ HoldersTold
  BY KeepingTyped DEF KeepingInv, SharesInv, ToldInv
<1> QED  BY <1>1, KeepingHeld, PTL

\* reconcilePinsAfterMove: with one move of the form at a time nothing of the old place is
\* left after it, the pins included.
THEOREM MovesClean == ASSUME OneMover PROVE KeepingSpec => []MoveIsClean
<1>1. KeepingInit => PinsInv
  BY MovingStart
<1>2. KeepingInv /\ PinsInv /\ [KeepingNext]_keepingVars => PinsInv'
  BY KeepingParts, PinsKept DEF KeepingInv
<1>3. KeepingInv /\ PinsInv => MoveIsClean
  <2>1. PinsInv => PinsFollow
    BY DEF PinsInv, PinsFollow, PinsSettled
  <2> QED  BY <2>1, KeepingTyped DEF KeepingInv, SharesInv, ToldInv, MoveIsClean
<1> QED  BY <1>1, <1>2, <1>3, KeepingHeld, PTL DEF KeepingSpec

\* updateView, removeView: an edit that is still under way does not bring a view back that
\* was deleted meanwhile.
THEOREM ViewsGone == KeepingSpec => ViewsStay
<1>1. ASSUME Look!Next, view = Nil PROVE view' = Nil
  BY <1>1 DEF Look!Next, Look!SaveDefault, Look!TouchView, Look!KeepWrite, Look!Save, Look!Touch, Look!Keep, Look!Load,
              Look!Unkeep, Look!LosePinned
<1>2. ASSUME [KeepingNext]_keepingVars, view = Nil PROVE view' = Nil
  BY <1>1, <1>2 DEF KeepingNext, keepingVars, looksOnly
<1> QED  BY <1>2, PTL DEF KeepingSpec, ViewsStay
-----------------------------------------------------------------------------
(* Answers are found again.                                                    *)

HIDE EditingAssumption

\* Of finite sets, one that none of the others is a part of (by the order of finite sets).
LEMMA SmallestSet ==
  ASSUME NEW T, T # {}, \A x \in T : IsFiniteSet(x)
  PROVE  \E x \in T : \A y \in T : y \subseteq x => y = x
<1>1. PICK S : S = UNION T
  OBVIOUS
<1>2. PICK R : R = StrictSubsetOrdering(S)
  OBVIOUS
<1>3. PICK F : F = FiniteSubsetsOf(S)
  OBVIOUS
<1>4. IsWellFoundedOn(R, F)
  BY <1>2, <1>3, FS_StrictSubsetOrderingWellFounded
<1>5. T \subseteq F
  BY <1>1, <1>3 DEF FiniteSubsetsOf
<1>6. \E x \in T : \A y \in T : <<y, x>> \notin R
  BY <1>4, <1>5, WFMin
<1>7. \A x, y \in T : y \subseteq x /\ y # x => <<y, x>> \in R
  BY <1>1, <1>2 DEF StrictSubsetOrdering
<1>8. PICK x \in T : \A y \in T : <<y, x>> \notin R
  BY <1>6
<1>9. \A y \in T : y \subseteq x => y = x
  BY <1>7, <1>8
<1> QED  BY <1>9

\* Some natural numbers have a least one.
LEMMA Least == ASSUME NEW T \in SUBSET Nat, T # {} PROVE \E x \in T : \A y \in T : x <= y
<1> DEFINE U == {0..t : t \in T}
<1>1. \A x \in U : IsFiniteSet(x)
  BY FS_Interval
<1>2. PICK x \in U : \A y \in U : y \subseteq x => y = x
  <2> HIDE DEF U
  <2>1. U # {}
    BY DEF U
  <2> QED BY <1>1, <2>1, SmallestSet
<1>3. PICK m \in T : x = 0..m
  OBVIOUS
<1>4. ASSUME NEW y \in T PROVE m <= y
  <2>1. 0..y \subseteq 0..m => 0..y = 0..m
    BY <1>2, <1>3
  <2>2. y < m => 0..y \subseteq 0..m
    OBVIOUS
  <2>3. y < m => m \in 0..m /\ m \notin 0..y
    OBVIOUS
  <2> QED BY <2>1, <2>2, <2>3
<1> QED BY <1>4

\* The keys of a form are made one after the other, and each of those before it.
LEMMA KeysMade ==
  ASSUME NEW F, NEW n \in Nat, DOMAIN F = 1..n
  PROVE  Reply!Keys(F) = [i \in 1..n |-> Reply!KeyAfter(F, Reply!Keys(F), i)]
<1> DEFINE Some(m) == \E keys : keys = [i \in 1..m |-> Reply!KeyAfter(F, keys, i)]
           Bad == {m \in Nat : ~Some(m)}
<1>1. n \notin Bad
  <2> SUFFICES ASSUME Bad # {} PROVE FALSE
    OBVIOUS
  <2>1. PICK m \in Bad : \A l \in Bad : m <= l
    <3> HIDE DEF Some
    <3> QED BY Least
  <2>2. m # 0
    <3>1. PICK keys : keys = [i \in {} |-> 0]
      OBVIOUS
    <3>2. keys = [i \in 1..0 |-> Reply!KeyAfter(F, keys, i)]
      BY <3>1
    <3> QED BY <2>1, <3>2
  <2>3. Some(m - 1)
    <3> HIDE DEF Some
    <3>1. m - 1 \in Nat /\ ~(m <= m - 1)
      BY <2>1, <2>2
    <3> QED BY <2>1, <3>1
  <2>4. PICK keys : keys = [i \in 1..m - 1 |-> Reply!KeyAfter(F, keys, i)]
    BY <2>3
  <2>5. PICK more : more = [i \in 1..m |-> IF i = m THEN Reply!KeyAfter(F, keys, m) ELSE keys[i]]
    OBVIOUS
  <2>6. ASSUME NEW i \in 1..m PROVE Reply!KeyAfter(F, more, i) = Reply!KeyAfter(F, keys, i)
    <3>1. \A j \in 1..i - 1 : more[j] = keys[j]
      BY <2>1, <2>5
    <3>2. {more[j] : j \in {k \in 1..i - 1 : ~F[k].gone}} = {keys[j] : j \in {k \in 1..i - 1 : ~F[k].gone}}
      BY <3>1
    <3> QED BY <3>2 DEF Reply!KeyAfter
  <2>7. more = [i \in 1..m |-> Reply!KeyAfter(F, more, i)]
    <3>1. ASSUME NEW i \in 1..m - 1 PROVE keys[i] = Reply!KeyAfter(F, keys, i)
      BY <2>4
    <3>2. ASSUME NEW i \in 1..m PROVE more[i] = Reply!KeyAfter(F, more, i)
      <4>1. CASE i = m
        BY <2>5, <2>6, <4>1
      <4>2. CASE i # m
        <5>1. i \in 1..m - 1
          BY <2>1, <4>2
        <5> QED BY <2>5, <2>6, <3>1, <4>2, <5>1
      <4> QED BY <4>1, <4>2
    <3> QED BY <2>5, <3>2
  <2> QED BY <2>1, <2>7
<1>2. PICK keys : keys = [i \in 1..n |-> Reply!KeyAfter(F, keys, i)]
  BY <1>1
<1>3. Reply!Keys(F) = CHOOSE k : k = [i \in 1..n |-> Reply!KeyAfter(F, k, i)]
  BY DEF Reply!Keys
<1> QED BY <1>2, <1>3

\* The form's questions.
Rows == [id : Questions, label : Labels, gone : BOOLEAN, must : BOOLEAN,
         rule : {Nil} \cup [act : {"show", "hide"}, to : Questions]]

\* A set that is read off finitely many places is no larger than they are.
LEMMA ReadOff ==
  ASSUME NEW K, IsFiniteSet(K), NEW f
  PROVE  LET T == {f[j] : j \in K} IN IsFiniteSet(T) /\ Cardinality(T) <= Cardinality(K)
<1> DEFINE T == {f[j] : j \in K}
           g == [j \in K |-> f[j]]
<1>1. g \in Surjection(K, T)
  BY DEF Surjection
<1> QED BY <1>1, FS_Surjection

\* There is a number that makes a label neither a key nor a label, among as many as the code
\* can have to try.
LEMMA NumberFree ==
  ASSUME NEW F, NEW n \in Nat, DOMAIN F = 1..n, Len(F) = n, NEW label \in Seq(Nat),
         NEW used, IsFiniteSet(used), Cardinality(used) <= n
  PROVE  /\ Reply!Numbered(F, label, used) \notin used
         /\ \A i \in DOMAIN F : Reply!Numbered(F, label, used) # F[i].label
<1> DEFINE L == {F[i].label : i \in DOMAIN F}
           T == used \cup L
           I == 2..2 * n + 2
           Free == {m \in I : Append(label, m) \notin T}
<1>1. IsFiniteSet(L) /\ Cardinality(L) <= n
  <2>1. PICK f : f = [i \in 1..n |-> F[i].label]
    OBVIOUS
  <2>2. L = {f[i] : i \in 1..n}
    BY <2>1
  <2>3. IsFiniteSet(1..n) /\ Cardinality(1..n) = n
    BY FS_Interval
  <2> HIDE DEF L
  <2> QED BY <2>2, <2>3, ReadOff
<1>2. IsFiniteSet(T) /\ Cardinality(T) <= 2 * n
  <2> HIDE DEF L
  <2>1. /\ IsFiniteSet(used \cup L)
        /\ Cardinality(used \cup L) = Cardinality(used) + Cardinality(L) - Cardinality(used \cap L)
    BY <1>1, FS_Union
  <2>2. IsFiniteSet(used \cap L)
    BY FS_Subset
  <2>3. Cardinality(used) \in Nat /\ Cardinality(L) \in Nat /\ Cardinality(used \cap L) \in Nat
    BY <1>1, <2>2, FS_CardinalityType
  <2> QED BY <1>1, <2>1, <2>3
<1>3. \A l, m \in Nat : Append(label, l) = Append(label, m) => l = m
  OBVIOUS
<1>4. Free # {}
  <2> SUFFICES ASSUME Free = {} PROVE FALSE
    OBVIOUS
  <2>1. PICK f : f = [m \in I |-> Append(label, m)]
    OBVIOUS
  <2>2. f \in [I -> T]
    BY <2>1
  <2>3. IsFiniteSet(I) /\ Cardinality(I) = 2 * n + 1
    BY FS_Interval
  <2>4. Cardinality(T) < Cardinality(I)
    <3>1. Cardinality(T) \in Nat
      BY <1>2, FS_CardinalityType
    <3> HIDE DEF T, I
    <3> QED BY <1>2, <2>3, <3>1
  <2>5. \E l, m \in I : l # m /\ f[l] = f[m]
    <3> HIDE DEF T, I
    <3> QED BY <1>2, <2>2, <2>3, <2>4, FS_PigeonHole
  <2> QED BY <1>3, <2>1, <2>5
<1>5. PICK m \in Free : \A l \in Free : m <= l
  <2>1. Free \subseteq Nat
    OBVIOUS
  <2> HIDE DEF Free
  <2> QED BY <1>4, <2>1, Least
<1>6. Reply!Min(Free) = m
  <2>1. \A l \in Free : l \in Nat
    OBVIOUS
  <2>2. \A k \in Free : (\A l \in Free : k <= l) => k = m
    <3> HIDE DEF Free
    <3> QED BY <1>5, <2>1
  <2> HIDE DEF Free
  <2> QED BY <1>5, <2>2 DEF Reply!Min
<1>7. Reply!Numbered(F, label, used) = Append(label, Reply!Min(Free))
  BY DEF Reply!Numbered
<1>8. m \in Nat /\ Append(label, m) \notin T
  BY <1>5
<1>9. Reply!Numbered(F, label, used) = Append(label, m)
  <2> HIDE DEF Free
  <2> QED BY <1>6, <1>7
<1> QED BY <1>8, <1>9

\* The keys of a form: a question has its label for a key unless an earlier live one has it,
\* and otherwise a key that is no question's label and no earlier live one's key.
LEMMA KeyFacts ==
  ASSUME NEW F \in Seq(Rows)
  PROVE  /\ \A i \in DOMAIN F : F[i].gone => Reply!Keys(F)[i] = F[i].label
         /\ \A i, j \in DOMAIN F : Reply!Keys(F)[i] = F[j].label => Reply!Keys(F)[i] = F[i].label
         /\ \A i \in DOMAIN F : Reply!Keys(F)[i] # F[i].label =>
              \E j \in DOMAIN F : j # i /\ ~F[j].gone /\ Reply!Keys(F)[j] = F[i].label
         /\ \A i, j \in DOMAIN F : i # j /\ ~F[i].gone /\ ~F[j].gone => Reply!Keys(F)[i] # Reply!Keys(F)[j]
<1>1. PICK n \in Nat : n = Len(F) /\ DOMAIN F = 1..n
  OBVIOUS
<1>2. \A i \in 1..n : F[i].label \in Seq(Nat) /\ F[i].gone \in BOOLEAN
  <2>1. \A i \in 1..n : F[i] \in Rows
    BY <1>1
  <2>2. Labels \subseteq Seq(Nat)
    BY KeepingAssumption DEF Reply!AnswersAssumption
  <2> QED BY <2>1, <2>2 DEF Rows
<1>3. PICK keys : keys = Reply!Keys(F)
  OBVIOUS
<1>4. ASSUME NEW i \in 1..n PROVE keys[i] = Reply!KeyAfter(F, keys, i)
  BY <1>1, <1>3, KeysMade
<1> DEFINE Used(i) == {keys[j] : j \in {k \in 1..i - 1 : ~F[k].gone}}
<1>5. ASSUME NEW i \in 1..n
      PROVE  /\ F[i].gone \/ F[i].label \notin Used(i) => keys[i] = F[i].label
             /\ ~F[i].gone /\ F[i].label \in Used(i) =>
                   keys[i] = Reply!Numbered(F, F[i].label, Used(i))
  BY <1>4 DEF Reply!KeyAfter
<1>6. ASSUME NEW i \in 1..n, ~F[i].gone, F[i].label \in Used(i)
      PROVE  keys[i] \notin Used(i) \cup {F[k].label : k \in 1..n}
  <2>1. PICK K : K = {k \in 1..i - 1 : ~F[k].gone}
    OBVIOUS
  <2>2. IsFiniteSet(K) /\ Cardinality(K) <= n
    <3>1. IsFiniteSet(1..i - 1) /\ Cardinality(1..i - 1) = i - 1
      BY FS_Interval
    <3>2. IsFiniteSet(K) /\ Cardinality(K) <= i - 1 /\ Cardinality(K) \in Nat
      BY <2>1, <3>1, FS_Subset, FS_CardinalityType
    <3> QED BY <3>2
  <2>3. Used(i) = {keys[j] : j \in K}
    BY <2>1
  <2> HIDE DEF Used
  <2>4. IsFiniteSet(Used(i)) /\ Cardinality(Used(i)) <= Cardinality(K)
    BY <2>2, <2>3, ReadOff
  <2>5. Cardinality(Used(i)) \in Nat /\ Cardinality(K) \in Nat
    BY <2>2, <2>4, FS_CardinalityType
  <2>6. Cardinality(Used(i)) <= n
    BY <2>2, <2>4, <2>5
  <2>7. PICK used : used = Used(i)
    OBVIOUS
  <2>8. Reply!Numbered(F, F[i].label, used) \notin used \cup {F[k].label : k \in DOMAIN F}
    <3>1. PICK label \in Seq(Nat) : label = F[i].label
      BY <1>2
    <3>2. DOMAIN F = 1..n /\ Len(F) = n /\ IsFiniteSet(used) /\ Cardinality(used) <= n
      BY <1>1, <2>4, <2>6, <2>7
    <3> QED BY <3>1, <3>2, NumberFree
  <2>9. keys[i] = Reply!Numbered(F, F[i].label, used)
    BY <1>5, <1>6, <2>7
  <2> QED BY <1>1, <2>7, <2>8, <2>9
<1>7. \A i \in 1..n : F[i].gone => keys[i] = F[i].label
  BY <1>5
<1>8. ASSUME NEW i \in 1..n, NEW j \in 1..n, keys[i] = F[j].label PROVE keys[i] = F[i].label
  <2> HIDE DEF Used
  <2> QED BY <1>5, <1>6, <1>8
<1>9. ASSUME NEW i \in 1..n, keys[i] # F[i].label
      PROVE  \E j \in 1..n : j # i /\ ~F[j].gone /\ keys[j] = F[i].label
  <2>1. F[i].label \in Used(i)
    BY <1>5, <1>9
  <2>2. PICK j \in 1..i - 1 : ~F[j].gone /\ keys[j] = F[i].label
    BY <2>1
  <2> QED BY <2>2
<1>10. ASSUME NEW i \in 1..n, NEW j \in 1..n, i < j, ~F[i].gone, ~F[j].gone PROVE keys[i] # keys[j]
  <2>1. keys[i] \in Used(j)
    BY <1>10
  <2>2. F[j].label \notin Used(j) => keys[j] = F[j].label
    BY <1>5
  <2>3. F[j].label \in Used(j) => keys[j] \notin Used(j)
    BY <1>6, <1>10
  <2> HIDE DEF Used
  <2> QED BY <2>1, <2>2, <2>3
<1>11. ASSUME NEW i \in 1..n, NEW j \in 1..n, i # j, ~F[i].gone, ~F[j].gone PROVE keys[i] # keys[j]
  <2>1. i < j \/ j < i
    BY <1>11
  <2> QED BY <1>10, <1>11, <2>1
<1> QED BY <1>1, <1>3, <1>7, <1>8, <1>9, <1>11

\* A form whose rules lead to other questions, each question with an id of its own.
Sound(F) ==
  /\ F \in Seq(Rows)
  /\ \A i, j \in DOMAIN F : i # j => F[i].id # F[j].id
  /\ Reply!Whole(F)

\* The questions that come up to one of them are counted as it is counted.
LEMMA SameCounting == \A S : Reply!Cardinality(S) = Cardinality(S)
BY DEF Reply!Cardinality, Cardinality

\* The places of some questions among themselves are their own, up to their number.
LEMMA CountedUpto ==
  ASSUME NEW n \in Nat, NEW S \in SUBSET (1..n)
  PROVE  LET upto(i) == Cardinality({j \in S : j <= i})
         IN /\ IsFiniteSet(S) /\ Cardinality(S) \in Nat
            /\ \A i \in S : upto(i) \in 1..Cardinality(S)
            /\ \A i, j \in S : i # j => upto(i) # upto(j)
<1> DEFINE Down(i) == {j \in S : j <= i}
<1>1. IsFiniteSet(S) /\ Cardinality(S) \in Nat
  <2>1. IsFiniteSet(1..n)
    BY FS_Interval
  <2> QED BY <2>1, FS_Subset, FS_CardinalityType
<1>2. ASSUME NEW i \in S
      PROVE  IsFiniteSet(Down(i)) /\ Cardinality(Down(i)) \in Nat /\ Cardinality(Down(i)) <= Cardinality(S)
  <2>1. Down(i) \subseteq S
    OBVIOUS
  <2> HIDE DEF Down
  <2> QED BY <1>1, <2>1, FS_Subset, FS_CardinalityType
<1>3. ASSUME NEW i \in S PROVE Cardinality(Down(i)) # 0
  <2>1. i \in Down(i)
    OBVIOUS
  <2> HIDE DEF Down
  <2> QED BY <1>2, <2>1, FS_EmptySet
<1>4. ASSUME NEW i \in S, NEW j \in S, i < j PROVE Cardinality(Down(i)) < Cardinality(Down(j))
  <2>1. Down(i) \subseteq Down(j) /\ j \in Down(j) /\ j \notin Down(i)
    <3>1. i \in Nat /\ j \in Nat /\ \A k \in S : k \in Nat
      OBVIOUS
    <3>2. \A k \in S : k <= i => k <= j
      BY <1>4, <3>1
    <3>3. j <= j /\ ~(j <= i)
      BY <1>4, <3>1
    <3> QED BY <3>2, <3>3
  <2> HIDE DEF Down
  <2>2. Cardinality(Down(i)) <= Cardinality(Down(j)) /\ Cardinality(Down(i)) # Cardinality(Down(j))
    BY <1>2, <2>1, FS_Subset
  <2> QED BY <1>2, <2>2
<1>5. ASSUME NEW i \in S, NEW j \in S, i # j PROVE Cardinality(Down(i)) # Cardinality(Down(j))
  <2>1. i < j \/ j < i
    BY <1>5
  <2> HIDE DEF Down
  <2> QED BY <1>2, <1>4, <2>1
<1>6. ASSUME NEW i \in S PROVE Cardinality(Down(i)) \in 1..Cardinality(S)
  <2> HIDE DEF Down
  <2> QED BY <1>1, <1>2, <1>3
<1> QED BY <1>1, <1>5, <1>6

\* What is merged is put in another order: no question is lost and none comes twice.
LEMMA MergedShuffles ==
  ASSUME NEW F \in Seq(Rows)
  PROVE  \E from \in [DOMAIN F -> DOMAIN F] :
           /\ Reply!Merged(F) = [p \in DOMAIN F |-> F[from[p]]]
           /\ \A p, q \in DOMAIN F : p # q => from[p] # from[q]
           /\ \A i \in DOMAIN F : \E p \in DOMAIN F : from[p] = i
<1>1. PICK n \in Nat : n = Len(F) /\ DOMAIN F = 1..n
  OBVIOUS
<1>2. PICK L : L = {i \in 1..n : ~F[i].gone}
  OBVIOUS
<1>3. PICK G : G = 1..n \ L
  OBVIOUS
<1>4. L = Reply!Live(F) /\ G = DOMAIN F \ Reply!Live(F)
  BY <1>1, <1>2, <1>3 DEF Reply!Live
<1>5. PICK l, g \in Nat : l = Cardinality(L) /\ g = Cardinality(G) /\ l + g = n
  <2>1. IsFiniteSet(L) /\ IsFiniteSet(G) /\ Cardinality(L) \in Nat /\ Cardinality(G) \in Nat
    BY <1>2, <1>3, CountedUpto
  <2>2. Cardinality(L \cup G) = Cardinality(L) + Cardinality(G) - Cardinality(L \cap G)
    BY <2>1, FS_Union
  <2>3. L \cup G = 1..n /\ L \cap G = {}
    BY <1>2, <1>3
  <2>4. Cardinality(1..n) = n
    BY FS_Interval
  <2>5. Cardinality(L \cap G) = 0
    BY <2>3, FS_EmptySet
  <2>6. n = Cardinality(L) + Cardinality(G) - 0
    BY <2>2, <2>3, <2>4, <2>5
  <2> QED BY <2>1, <2>6
<1>6. PICK lp : lp = [i \in 1..n |-> Cardinality({j \in L : j <= i})]
  OBVIOUS
<1>7. PICK gp : gp = [i \in 1..n |-> Cardinality({j \in G : j <= i})]
  OBVIOUS
<1>8. /\ \A i \in L : lp[i] \in 1..l
      /\ \A i, j \in L : i # j => lp[i] # lp[j]
  <2>1. L \in SUBSET (1..n)
    BY <1>2
  <2>2. \A i \in L : Cardinality({j \in L : j <= i}) \in 1..l
    BY <1>5, <2>1, CountedUpto
  <2>3. \A i, j \in L : i # j => Cardinality({k \in L : k <= i}) # Cardinality({k \in L : k <= j})
    BY <2>1, CountedUpto
  <2> QED BY <1>6, <2>1, <2>2, <2>3
<1>9. /\ \A i \in G : gp[i] \in 1..g
      /\ \A i, j \in G : i # j => gp[i] # gp[j]
  <2>1. G \in SUBSET (1..n)
    BY <1>3
  <2>2. \A i \in G : Cardinality({j \in G : j <= i}) \in 1..g
    BY <1>5, <2>1, CountedUpto
  <2>3. \A i, j \in G : i # j => Cardinality({k \in G : k <= i}) # Cardinality({k \in G : k <= j})
    BY <2>1, CountedUpto
  <2> QED BY <1>7, <2>1, <2>2, <2>3
<1>10. ASSUME NEW i \in 1..n
       PROVE  Reply!PlaceOf(F, i) = IF i \in L THEN lp[i] ELSE l + gp[i]
  BY <1>2, <1>4, <1>5, <1>6, <1>7, SameCounting DEF Reply!PlaceOf
<1>11. PICK place : place = [i \in 1..n |-> Reply!PlaceOf(F, i)]
  OBVIOUS
<1>a. ASSUME NEW i \in 1..n
      PROVE  \/ i \in L /\ place[i] = lp[i] /\ lp[i] \in 1..l
             \/ i \in G /\ place[i] = l + gp[i] /\ gp[i] \in 1..g
  <2>1. CASE i \in L
    BY <1>8, <1>10, <1>11, <2>1
  <2>2. CASE i \notin L
    <3>1. i \in G
      BY <1>3, <2>2
    <3> QED BY <1>9, <1>10, <1>11, <2>2, <3>1
  <2> QED BY <2>1, <2>2
<1>12. ASSUME NEW i \in 1..n PROVE place[i] \in 1..n
  BY <1>5, <1>a
<1>13. ASSUME NEW i \in 1..n, NEW j \in 1..n, i # j PROVE place[i] # place[j]
  <2>1. CASE i \in L /\ j \in L
    BY <1>3, <1>8, <1>13, <1>a, <2>1
  <2>2. CASE i \in G /\ j \in G
    <3>1. gp[i] # gp[j] /\ place[i] = l + gp[i] /\ place[j] = l + gp[j] /\ gp[i] \in 1..g /\ gp[j] \in 1..g
      BY <1>3, <1>9, <1>13, <1>a, <2>2
    <3> QED BY <1>5, <3>1
  <2>3. CASE i \in L /\ j \in G
    <3>1. place[i] \in 1..l /\ place[j] = l + gp[j] /\ gp[j] \in 1..g
      BY <1>3, <1>a, <2>3
    <3> QED BY <1>5, <3>1
  <2>4. CASE i \in G /\ j \in L
    <3>1. place[j] \in 1..l /\ place[i] = l + gp[i] /\ gp[i] \in 1..g
      BY <1>3, <1>a, <2>4
    <3> QED BY <1>5, <3>1
  <2> QED BY <1>3, <2>1, <2>2, <2>3, <2>4
<1>14. place \in Injection(1..n, 1..n)
  BY <1>11, <1>12, <1>13 DEF Injection, IsInjective
<1>15. \A p \in 1..n : \E i \in 1..n : place[i] = p
  <2>1. IsFiniteSet(1..n)
    BY FS_Interval
  <2>2. place \in Surjection(1..n, 1..n)
    BY <1>14, <2>1, FS_Injection
  <2> QED BY <2>2 DEF Surjection
<1>16. PICK from : from = [p \in 1..n |-> CHOOSE i \in 1..n : place[i] = p]
  OBVIOUS
<1>17. \A p \in 1..n : from[p] \in 1..n /\ place[from[p]] = p
  BY <1>15, <1>16
<1>18. \A i \in 1..n : from[place[i]] = i
  BY <1>12, <1>13, <1>17
<1>19. Reply!Merged(F) = [p \in 1..n |-> F[from[p]]]
  <2>1. ASSUME NEW p \in 1..n
        PROVE  (CHOOSE i \in 1..n : Reply!PlaceOf(F, i) = p) = from[p]
    <3>1. \A i \in 1..n : Reply!PlaceOf(F, i) = place[i]
      BY <1>11
    <3>3. \A i \in 1..n : Reply!PlaceOf(F, i) = p <=> i = from[p]
      BY <1>13, <1>17, <3>1
    <3>4. from[p] \in 1..n
      BY <1>17
    <3> QED BY <3>3, <3>4
  <2>2. \A p \in 1..n : F[CHOOSE i \in 1..n : Reply!PlaceOf(F, i) = p] = F[from[p]]
    BY <2>1
  <2>3. Reply!Merged(F) = [p \in 1..n |-> F[CHOOSE i \in 1..n : Reply!PlaceOf(F, i) = p]]
    BY <1>1 DEF Reply!Merged
  <2> QED BY <2>2, <2>3
<1>20. from \in [1..n -> 1..n]
  BY <1>16, <1>17
<1>21. \A p, q \in 1..n : p # q => from[p] # from[q]
  BY <1>17
<1>22. \A i \in 1..n : \E p \in 1..n : from[p] = i
  BY <1>12, <1>18
<1>23. PICK D : D = DOMAIN F /\ D = 1..n
  BY <1>1
<1>24. /\ from \in [D -> D]
       /\ Reply!Merged(F) = [p \in D |-> F[from[p]]]
       /\ \A p, q \in D : p # q => from[p] # from[q]
       /\ \A i \in D : \E p \in D : from[p] = i
  BY <1>19, <1>20, <1>21, <1>22, <1>23
<1> QED BY <1>23, <1>24, Zenon

\* H is the n questions of F in another order.
Shuffled(n, F, H, from) ==
  /\ F \in [1..n -> Rows] /\ H \in [1..n -> Rows] /\ from \in [1..n -> 1..n]
  /\ \A p, q \in 1..n : p # q => from[p] # from[q]
  /\ \A i \in 1..n : \E p \in 1..n : from[p] = i
  /\ \A p \in 1..n : H[p] = F[from[p]]
  /\ \A i, j \in 1..n : i # j => F[i].id # F[j].id

\* A sound form in another order is one.
LEMMA SoundShuffled ==
  ASSUME NEW n \in Nat, NEW F, NEW H, NEW from, Shuffled(n, F, H, from), Reply!Whole(F)
  PROVE  (\A p, q \in 1..n : p # q => H[p].id # H[q].id) /\ Reply!Whole(H)
<1> USE DEF Shuffled
<1>1. DOMAIN F = 1..n /\ DOMAIN H = 1..n
  OBVIOUS
<1>4. \A p \in 1..n : H[p] = F[from[p]] /\ from[p] \in 1..n
  OBVIOUS
<1>5. ASSUME NEW p \in 1..n, NEW q \in 1..n, p # q PROVE H[p].id # H[q].id
  <2>1. PICK i \in 1..n : i = from[p]
    OBVIOUS
  <2>2. PICK j \in 1..n : j = from[q]
    OBVIOUS
  <2>3. i # j
    BY <1>5, <2>1, <2>2
  <2>4. H[p] = F[i] /\ H[q] = F[j]
    BY <2>1, <2>2
  <2>5. F[i].id # F[j].id
    BY <2>3
  <2> QED BY <2>4, <2>5
<1>6. Reply!Ids(H) = Reply!Ids(F)
  <2>1. Reply!Ids(H) = {H[p].id : p \in 1..n} /\ Reply!Ids(F) = {F[i].id : i \in 1..n}
    BY <1>1 DEF Reply!Ids
  <2>2. ASSUME NEW x \in Reply!Ids(H) PROVE x \in Reply!Ids(F)
    <3>1. PICK p \in 1..n : x = H[p].id
      BY <2>1
    <3>2. PICK i \in 1..n : i = from[p]
      OBVIOUS
    <3>3. x = F[i].id
      BY <3>1, <3>2
    <3> QED BY <2>1, <3>3
  <2>3. ASSUME NEW x \in Reply!Ids(F) PROVE x \in Reply!Ids(H)
    <3>1. PICK i \in 1..n : x = F[i].id
      BY <2>1
    <3>2. PICK p \in 1..n : from[p] = i
      OBVIOUS
    <3>3. x = H[p].id
      BY <3>1, <3>2
    <3> QED BY <2>1, <3>3
  <2> QED BY <2>2, <2>3
<1>7. ASSUME NEW p \in Reply!Live(H) PROVE from[p] \in Reply!Live(F) /\ H[p] = F[from[p]] /\ p \in 1..n
  BY <1>1, <1>4 DEF Reply!Live
<1>8. ASSUME NEW p \in Reply!Ruled(H) PROVE from[p] \in Reply!Ruled(F) /\ H[p] = F[from[p]]
  BY <1>7 DEF Reply!Ruled
<1>9. Reply!Whole(H)
  <2>1. ASSUME NEW p \in Reply!Ruled(H) PROVE H[p].rule.to \in Reply!Ids(H) \ {H[p].id}
    BY <1>6, <1>8 DEF Reply!Whole
  <2>2. ASSUME NEW p \in Reply!Ruled(H), NEW q \in Reply!Live(H),
               H[p].rule.act = "hide", H[p].rule.to = H[q].id
        PROVE  ~H[q].must
    <3>1. PICK i \in Reply!Ruled(F) : H[p] = F[i]
      BY <1>8
    <3>2. PICK j \in Reply!Live(F) : H[q] = F[j]
      BY <1>7
    <3>3. F[i].rule.act = "hide" /\ F[i].rule.to = F[j].id => ~F[j].must
      BY DEF Reply!Whole
    <3> QED BY <2>2, <3>1, <3>2, <3>3
  <2> QED BY <2>1, <2>2 DEF Reply!Whole
<1> QED BY <1>5, <1>9

\* What is saved is a sound form if its questions have ids of their own: what the rules lead
\* to is looked at.
LEMMA SavedSound ==
  ASSUME NEW F \in Seq(Rows), \A i, j \in DOMAIN F : i # j => F[i].id # F[j].id,
         Reply!SaveForm(F)
  PROVE  Sound(questions')
<1>1. Sound(F) /\ questions' = Reply!Merged(F)
  BY DEF Reply!SaveForm, Sound
<1>3. PICK from \in [DOMAIN F -> DOMAIN F] :
        /\ Reply!Merged(F) = [p \in DOMAIN F |-> F[from[p]]]
        /\ \A p, q \in DOMAIN F : p # q => from[p] # from[q]
        /\ \A i \in DOMAIN F : \E p \in DOMAIN F : from[p] = i
  BY MergedShuffles
<1>4. PICK n \in Nat : n = Len(F) /\ DOMAIN F = 1..n
  OBVIOUS
<1>5. PICK H : H = Reply!Merged(F)
  OBVIOUS
<1>7. DOMAIN H = 1..n /\ \A p \in 1..n : H[p] = F[from[p]] /\ from[p] \in 1..n
  BY <1>3, <1>4, <1>5
<1>8. F \in [1..n -> Rows] /\ H \in [1..n -> Rows] /\ from \in [1..n -> 1..n]
  <2>1. \A i \in 1..n : F[i] \in Rows
    BY <1>4
  <2> QED BY <1>3, <1>4, <1>5, <1>7, <2>1
<1>9. Sound(H)
  <2>1. (\A p, q \in 1..n : p # q => H[p].id # H[q].id) /\ Reply!Whole(H)
    <3>1. Shuffled(n, F, H, from)
      BY <1>1, <1>3, <1>4, <1>7, <1>8 DEF Sound, Shuffled
    <3>2. Reply!Whole(F)
      BY <1>1 DEF Sound
    <3> QED BY <3>1, <3>2, SoundShuffled
  <2>2. H \in Seq(Rows)
    BY <1>8
  <2> QED BY <1>7, <2>1, <2>2 DEF Sound
<1>6. questions' = H
  BY <1>1, <1>5
<1> QED BY <1>6, <1>9 DEF Sound, Reply!Whole, Reply!Ids, Reply!Ruled, Reply!Live

\* What is said is an answer of some question, or none.
AnswersInv == Sound(questions) /\ given \in [Questions -> {Nil} \cup Reply!Values]

\* Questions stay apart, and rules lead to questions, across every step.
LEMMA AnswersKept ==
  ASSUME AnswersInv, Reply!Next
  PROVE  AnswersInv'
<1>1. PICK F : F = questions
  OBVIOUS
<1>2. /\ F \in Seq(Rows) /\ \A i, j \in DOMAIN F : i # j => F[i].id # F[j].id
      /\ given \in [Questions -> {Nil} \cup Reply!Values]
  BY <1>1 DEF AnswersInv, Sound
<1>3. PICK n \in Nat : n = Len(F) /\ DOMAIN F = 1..n
  BY <1>2
<1>4. \A i \in 1..n : F[i] \in Rows
  BY <1>2, <1>3
\* One question of the form changes and keeps its id.
<1>5. ASSUME NEW i \in 1..n, NEW r \in Rows, r.id = F[i].id, Reply!SaveForm([F EXCEPT ![i] = r])
      PROVE  AnswersInv'
  <2>1. PICK H : H = [F EXCEPT ![i] = r]
    OBVIOUS
  <2>2. H \in Seq(Rows) /\ DOMAIN H = 1..n
    BY <1>2, <1>3, <2>1
  <2>3. \A j \in 1..n : H[j].id = F[j].id
    BY <1>3, <1>5, <2>1
  <2>4. Sound(questions')
    <3>1. \A j, k \in DOMAIN H : j # k => H[j].id # H[k].id
      BY <1>2, <1>3, <2>2, <2>3
    <3>2. Reply!SaveForm(H)
      BY <1>5, <2>1
    <3> QED BY <2>2, <3>1, <3>2, SavedSound
  <2> QED BY <1>2, <1>5, <2>4 DEF AnswersInv, Reply!SaveForm, Sound, Reply!Whole, Reply!Ids, Reply!Ruled, Reply!Live
<1>6. ASSUME NEW f \in Questions, NEW label \in Labels, NEW must \in BOOLEAN, Reply!AddField(f, label, must)
      PROVE  AnswersInv'
  <2>1. PICK r : r = [id |-> f, label |-> label, gone |-> FALSE, must |-> must, rule |-> Nil]
    OBVIOUS
  <2>2. r \in Rows /\ r.id = f
    BY <2>1 DEF Rows
  <2>3. PICK H : H = Append(F, r)
    OBVIOUS
  <2>4. H \in Seq(Rows) /\ DOMAIN H = 1..n + 1 /\ (\A j \in 1..n : H[j] = F[j]) /\ H[n + 1] = r
    BY <1>2, <1>3, <2>2, <2>3
  <2>5. \A j \in 1..n : F[j].id # f
    BY <1>1, <1>3, <1>6 DEF Reply!AddField, Reply!Ids
  <2>6. \A i, j \in DOMAIN H : i # j => H[i].id # H[j].id
    BY <1>2, <1>3, <2>2, <2>4, <2>5
  <2>7. Reply!SaveForm(H)
    BY <1>1, <1>6, <2>1, <2>3 DEF Reply!AddField
  <2>8. Sound(questions')
    BY <2>4, <2>6, <2>7, SavedSound
  <2> QED BY <1>2, <2>7, <2>8 DEF AnswersInv, Reply!SaveForm, Sound, Reply!Whole, Reply!Ids, Reply!Ruled, Reply!Live
<1>7. ASSUME NEW i \in 1..n, Reply!RemoveField(i) PROVE AnswersInv'
  <2>1. PICK r : r = [F[i] EXCEPT !.gone = TRUE]
    OBVIOUS
  <2>2. r \in Rows /\ r.id = F[i].id
    BY <1>4, <2>1 DEF Rows
  <2>3. Reply!SaveForm([F EXCEPT ![i] = r])
    BY <1>1, <1>7, <2>1 DEF Reply!RemoveField
  <2> QED BY <1>5, <2>2, <2>3
<1>8. ASSUME NEW i \in 1..n, NEW label \in Labels, Reply!SetLabel(i, label) PROVE AnswersInv'
  <2>1. PICK r : r = [F[i] EXCEPT !.label = label]
    OBVIOUS
  <2>2. r \in Rows /\ r.id = F[i].id
    BY <1>4, <2>1 DEF Rows
  <2>3. Reply!SaveForm([F EXCEPT ![i] = r])
    BY <1>1, <1>8, <2>1 DEF Reply!SetLabel
  <2> QED BY <1>5, <2>2, <2>3
<1>9. ASSUME NEW i \in 1..n, NEW act \in {"show", "hide"}, NEW to \in Questions, Reply!SetRule(i, act, to)
      PROVE  AnswersInv'
  <2>1. PICK r : r = [F[i] EXCEPT !.rule = [act |-> act, to |-> to]]
    OBVIOUS
  <2>2. r \in Rows /\ r.id = F[i].id
    BY <1>4, <2>1 DEF Rows
  <2>3. Reply!SaveForm([F EXCEPT ![i] = r])
    BY <1>1, <1>9, <2>1 DEF Reply!SetRule
  <2> QED BY <1>5, <2>2, <2>3
<1>10. ASSUME NEW i \in 1..n, Reply!SwapFields(i) PROVE AnswersInv'
  <2>1. PICK H : H = [F EXCEPT ![i] = F[i + 1], ![i + 1] = F[i]]
    OBVIOUS
  <2>2. i + 1 \in 1..n
    BY <1>1, <1>3, <1>10 DEF Reply!SwapFields, Reply!Live
  <2>3. H \in Seq(Rows) /\ DOMAIN H = 1..n
    BY <1>2, <1>3, <1>4, <2>1, <2>2
  <2>4. H[i] = F[i + 1] /\ H[i + 1] = F[i] /\ \A j \in 1..n : j # i /\ j # i + 1 => H[j] = F[j]
    BY <1>3, <2>1, <2>2
  <2>5. \A j, k \in DOMAIN H : j # k => H[j].id # H[k].id
    BY <1>2, <1>3, <2>2, <2>3, <2>4
  <2>6. Reply!SaveForm(H)
    BY <1>1, <1>10, <2>1 DEF Reply!SwapFields
  <2>7. Sound(questions')
    BY <2>3, <2>5, <2>6, SavedSound
  <2> QED BY <1>2, <2>6, <2>7 DEF AnswersInv, Reply!SaveForm, Sound, Reply!Whole, Reply!Ids, Reply!Ruled, Reply!Live
<1>11. ASSUME NEW i \in 1..n, NEW value \in Reply!Values, Reply!Correct(i, value) PROVE AnswersInv'
  <2>1. questions' = questions /\ given' = [given EXCEPT ![questions[i].id] = value]
    BY <1>11 DEF Reply!Correct
  <2>2. given' \in [Questions -> {Nil} \cup Reply!Values]
    BY <1>2, <1>11, <2>1
  <2> QED BY <2>1, <2>2 DEF AnswersInv, Sound, Reply!Whole, Reply!Ids, Reply!Ruled, Reply!Live
<1>12. CASE Reply!Submit
  <2>1. questions' = questions
    BY <1>12 DEF Reply!Submit
  <2>2. PICK A \in SUBSET Reply!Live(questions) : \E say \in [{questions[i].id : i \in A} -> Reply!Values] :
          given' = [f \in Questions |-> IF f \in DOMAIN say THEN say[f] ELSE Nil]
    BY <1>12 DEF Reply!Submit
  <2>3. given' \in [Questions -> {Nil} \cup Reply!Values]
    BY <2>2
  <2> QED BY <2>1, <2>3 DEF AnswersInv, Sound, Reply!Whole, Reply!Ids, Reply!Ruled, Reply!Live
<1> QED BY <1>1, <1>3, <1>6, <1>7, <1>8, <1>9, <1>10, <1>11, <1>12 DEF Reply!Next

\* The keys of what is hidden.
Out(F, a) == {Reply!Keys(F)[i] : i \in {j \in DOMAIN F : F[j].id \in Reply!Hidden(F, a)}}

\* What is read when the answers of hidden questions are taken out.
LEMMA ReadStripped ==
  ASSUME NEW F, NEW a, NEW i
  PROVE  /\ Reply!Keys(F)[i] \notin Out(F, a) => Reply!Read(F, Reply!Stripped(F, a), i) = Reply!Read(F, a, i)
         /\ Reply!Keys(F)[i] \in Out(F, a) => Reply!Read(F, Reply!Stripped(F, a), i) = Nil
<1> DEFINE k == Reply!Keys(F)[i]
<1>1. PICK s : s = Reply!Stripped(F, a)
  OBVIOUS
<1>2. s = [x \in DOMAIN a \ Out(F, a) |-> a[x]]
  BY <1>1 DEF Reply!Stripped, Out
<1>3. DOMAIN s = DOMAIN a \ Out(F, a) /\ \A x \in DOMAIN s : s[x] = a[x]
  BY <1>2
<1>4. \A b : Reply!Read(F, b, i) = IF k \in DOMAIN b THEN b[k] ELSE Nil
  BY DEF Reply!Read
<1> HIDE DEF k
<1>5. Reply!Read(F, s, i) = IF k \in DOMAIN s THEN s[k] ELSE Nil
  BY <1>4
<1>6. Reply!Read(F, a, i) = IF k \in DOMAIN a THEN a[k] ELSE Nil
  BY <1>4
<1>7. k \notin Out(F, a) => Reply!Read(F, s, i) = Reply!Read(F, a, i)
  BY <1>3, <1>5, <1>6
<1>8. k \in Out(F, a) => Reply!Read(F, s, i) = Nil
  BY <1>3, <1>5
<1> QED BY <1>1, <1>7, <1>8 DEF k

\* What it is to be hidden.
LEMMA HiddenIff ==
  ASSUME NEW F, NEW a, NEW id
  PROVE  id \in Reply!Hidden(F, a) <=>
           /\ id \in Reply!Ids(F)
           /\ \/ /\ \E r \in Reply!Ruled(F) : F[r].rule.act = "show" /\ F[r].rule.to = id
                 /\ ~\E r \in Reply!Ruled(F) : F[r].rule.act = "show" /\ F[r].rule.to = id
                                              /\ Reply!Read(F, a, r) = "yes"
              \/ \E r \in Reply!Ruled(F) : F[r].rule.act = "hide" /\ F[r].rule.to = id
                                           /\ Reply!Read(F, a, r) = "yes"
BY DEF Reply!Hidden

\* Where no two questions share a label, taking out what is hidden leaves the answers
\* complete: a required question is never the target of a rule that hides, and one that is
\* not shown stays so when answers go.
LEMMA StrippedComplete ==
  ASSUME NEW F, Sound(F), \A i, j \in DOMAIN F : ~Reply!SameLabel(F, i, j), NEW a, Reply!Complete(F, a)
  PROVE  Reply!Complete(F, Reply!Stripped(F, a))
<1>1. PICK keys : keys = Reply!Keys(F)
  OBVIOUS
<1>2. /\ \A i, j \in DOMAIN F : keys[i] = F[j].label => keys[i] = F[i].label
      /\ \A i \in DOMAIN F : keys[i] # F[i].label => \E j \in DOMAIN F : j # i /\ keys[j] = F[i].label
  BY <1>1, KeyFacts DEF Sound
<1>3. \A i, j \in DOMAIN F : i # j => F[i].label # F[j].label
  BY DEF Reply!SameLabel
<1>4. ASSUME NEW i \in DOMAIN F PROVE keys[i] = F[i].label
  <2> SUFFICES ASSUME keys[i] # F[i].label PROVE FALSE
    OBVIOUS
  <2>1. PICK j \in DOMAIN F : j # i /\ keys[j] = F[i].label
    BY <1>2
  <2>2. keys[j] = F[j].label
    BY <1>2, <2>1
  <2> QED BY <1>3, <2>1, <2>2
<1>5. \A i, j \in DOMAIN F : keys[i] = keys[j] => i = j
  BY <1>3, <1>4
<1>6. ASSUME NEW i \in DOMAIN F, keys[i] \in Out(F, a) PROVE F[i].id \in Reply!Hidden(F, a)
  BY <1>1, <1>5, <1>6 DEF Out
<1>7. PICK s : s = Reply!Stripped(F, a)
  OBVIOUS
<1>8. "yes" # Nil
  BY KeepingAssumption DEF Reply!AnswersAssumption, Reply!Values
<1>9. \A i \in DOMAIN F : Reply!Read(F, s, i) = "yes" => Reply!Read(F, a, i) = "yes"
  BY <1>7, <1>8, ReadStripped
<1>10. SUFFICES ASSUME NEW i \in Reply!Live(F), F[i].must, F[i].id \notin Reply!Hidden(F, s)
                PROVE  Reply!Read(F, s, i) # Nil
  BY <1>7 DEF Reply!Complete
<1>11. i \in DOMAIN F /\ F[i].id \in Reply!Ids(F)
  BY DEF Reply!Live, Reply!Ids
<1>12. \A r \in Reply!Ruled(F) : r \in DOMAIN F
  BY DEF Reply!Ruled, Reply!Live
<1>13. F[i].id \notin Reply!Hidden(F, a)
  <2> SUFFICES ASSUME F[i].id \in Reply!Hidden(F, a) PROVE FALSE
    OBVIOUS
  <2>1. ~\E r \in Reply!Ruled(F) : F[r].rule.act = "hide" /\ F[r].rule.to = F[i].id
    BY <1>10 DEF Sound, Reply!Whole
  <2>2. /\ \E r \in Reply!Ruled(F) : F[r].rule.act = "show" /\ F[r].rule.to = F[i].id
        /\ ~\E r \in Reply!Ruled(F) : F[r].rule.act = "show" /\ F[r].rule.to = F[i].id
                                     /\ Reply!Read(F, a, r) = "yes"
    BY <2>1, HiddenIff
  <2>3. ~\E r \in Reply!Ruled(F) : F[r].rule.act = "show" /\ F[r].rule.to = F[i].id
                                   /\ Reply!Read(F, s, r) = "yes"
    BY <1>9, <1>12, <2>2
  <2>4. F[i].id \in Reply!Hidden(F, s)
    BY <1>11, <2>2, <2>3, HiddenIff
  <2> QED BY <1>10, <2>4
<1>14. Reply!Read(F, a, i) # Nil
  BY <1>10, <1>13 DEF Reply!Complete
<1>15. keys[i] \notin Out(F, a)
  BY <1>6, <1>11, <1>13
<1> QED BY <1>1, <1>7, <1>14, <1>15, ReadStripped

\* What is stored answers every required question that shows.
LEMMA RequiredKept ==
  ASSUME AnswersInv, Reply!Next, stored' # stored,
         \A i, j \in DOMAIN questions : ~Reply!SameLabel(questions, i, j)
  PROVE  Reply!Complete(questions, stored')
<1>1. \E a : Reply!Complete(questions, a) /\ stored' = Reply!Stripped(questions, a)
  BY DEF Reply!Next, Reply!AddField, Reply!RemoveField, Reply!SwapFields, Reply!SetLabel, Reply!SetRule,
         Reply!SaveForm, Reply!Correct, Reply!Submit
<1>2. PICK a : Reply!Complete(questions, a) /\ stored' = Reply!Stripped(questions, a)
  BY <1>1
<1>3. PICK F : F = questions
  OBVIOUS
<1>4. Sound(F) /\ Reply!Complete(F, a) /\ \A i, j \in DOMAIN F : ~Reply!SameLabel(F, i, j)
  BY <1>2, <1>3 DEF AnswersInv
<1>5. Reply!Complete(F, Reply!Stripped(F, a))
  BY <1>4, StrippedComplete
<1> QED BY <1>2, <1>3, <1>5

\* Where no removed question has the label of a live one, an answer goes when its own
\* question is hidden, and for no other reason.
LEMMA OwnKeyGoes ==
  ASSUME NEW F, Sound(F), ~Reply!Lookalike(F), NEW a, NEW i \in Reply!Live(F)
  PROVE  Reply!Keys(F)[i] \in Out(F, a) <=> F[i].id \in Reply!Hidden(F, a)
<1>1. PICK keys : keys = Reply!Keys(F)
  OBVIOUS
<1>2. /\ \A j \in DOMAIN F : F[j].gone => keys[j] = F[j].label
      /\ \A j, k \in DOMAIN F : keys[j] = F[k].label => keys[j] = F[j].label
      /\ \A j, k \in DOMAIN F : j # k /\ ~F[j].gone /\ ~F[k].gone => keys[j] # keys[k]
  BY <1>1, KeyFacts DEF Sound
<1>3. i \in DOMAIN F /\ ~F[i].gone
  BY DEF Reply!Live
<1>4. ASSUME NEW j \in DOMAIN F, keys[i] = keys[j] PROVE j = i
  <2>1. CASE F[j].gone
    <3>1. keys[j] = F[j].label /\ keys[i] = F[i].label
      BY <1>2, <1>3, <1>4, <2>1
    <3>2. j # i /\ j \in DOMAIN F \ Reply!Live(F)
      BY <1>3, <2>1 DEF Reply!Live
    <3>3. Reply!SameLabel(F, i, j)
      BY <1>4, <3>1, <3>2 DEF Reply!SameLabel
    <3> QED BY <3>2, <3>3 DEF Reply!Lookalike
  <2>2. CASE ~F[j].gone
    BY <1>2, <1>3, <1>4, <2>2
  <2> QED BY <2>1, <2>2
<1> QED BY <1>1, <1>3, <1>4 DEF Out

\* What is read back of a submission.
LEMMA ReadsBack ==
  ASSUME AnswersInv, Reply!Submit, ~Reply!Lookalike(questions), NEW i \in Reply!Live(questions)
  PROVE  Reply!Read(questions, stored', i) =
           IF questions[i].id \in Reply!Hidden(questions, Reply!Sent(questions, given')) THEN Nil
           ELSE given'[questions[i].id]
<1>1. PICK F : F = questions
  OBVIOUS
<1>2. PICK keys : keys = Reply!Keys(F)
  OBVIOUS
<1>3. PICK A \in SUBSET Reply!Live(questions) : \E say \in [{questions[j].id : j \in A} -> Reply!Values] :
        /\ stored' = Reply!Stripped(questions, [k \in {Reply!Keys(questions)[j] : j \in A} |->
                         say[questions[CHOOSE j \in A : Reply!Keys(questions)[j] = k].id]])
        /\ given' = [f \in Questions |-> IF f \in DOMAIN say THEN say[f] ELSE Nil]
  BY DEF Reply!Submit
<1>4. PICK say \in [{questions[j].id : j \in A} -> Reply!Values] :
        /\ stored' = Reply!Stripped(questions, [k \in {Reply!Keys(questions)[j] : j \in A} |->
                         say[questions[CHOOSE j \in A : Reply!Keys(questions)[j] = k].id]])
        /\ given' = [f \in Questions |-> IF f \in DOMAIN say THEN say[f] ELSE Nil]
  BY <1>3
<1>5. PICK a : a = [k \in {Reply!Keys(questions)[j] : j \in A} |->
                       say[questions[CHOOSE j \in A : Reply!Keys(questions)[j] = k].id]]
  OBVIOUS
<1>6. PICK g : g = given'
  OBVIOUS
<1>7. Sound(F) /\ ~Reply!Lookalike(F) /\ i \in Reply!Live(F)
  BY <1>1 DEF AnswersInv
<1>8. \A j \in Reply!Live(F) : j \in DOMAIN F /\ ~F[j].gone /\ F[j].id \in Questions
  <2>1. F \in Seq(Rows)
    BY <1>7 DEF Sound
  <2>2. \A j \in DOMAIN F : F[j] \in Rows
    BY <2>1
  <2> QED BY <2>2 DEF Reply!Live, Rows
<1>9. \A j, k \in Reply!Live(F) : keys[j] = keys[k] => j = k
  BY <1>2, <1>7, <1>8, KeyFacts DEF Sound
<1>10. \A j, k \in Reply!Live(F) : F[j].id = F[k].id => j = k
  BY <1>7, <1>8 DEF Sound
<1>11. \A B \in SUBSET Reply!Live(questions) : \A j \in B :
         (CHOOSE k \in B : Reply!Keys(questions)[k] = Reply!Keys(questions)[j]) = j
  <2>1. \A j, k \in Reply!Live(questions) : Reply!Keys(questions)[j] = Reply!Keys(questions)[k] => j = k
    BY <1>1, <1>2, <1>9
  <2> QED BY <2>1
<1>12. DOMAIN a = {keys[j] : j \in A} /\ \A j \in A : a[keys[j]] = say[F[j].id]
  <2>1. \A j \in A : a[Reply!Keys(questions)[j]] = say[questions[j].id]
    BY <1>5, <1>11
  <2>2. DOMAIN a = {Reply!Keys(questions)[j] : j \in A}
    BY <1>5
  <2> QED BY <1>1, <1>2, <2>1, <2>2
<1>13. Nil \notin Reply!Values
  BY KeepingAssumption DEF Reply!AnswersAssumption
<1>14. \A j \in A : g[F[j].id] = say[F[j].id] /\ g[F[j].id] # Nil
  BY <1>1, <1>4, <1>6, <1>8, <1>13
<1>15. ASSUME NEW j \in Reply!Live(F), j \notin A PROVE g[F[j].id] = Nil
  <2>1. F[j].id \notin DOMAIN say
    BY <1>1, <1>4, <1>10, <1>15
  <2> QED BY <1>1, <1>4, <1>6, <1>8, <1>15, <2>1
<1>16. Reply!Sent(F, g) = a
  <2>1. PICK B : B = {j \in Reply!Live(questions) : g[questions[j].id] # Nil}
    OBVIOUS
  <2>2. B = A
    BY <1>1, <1>14, <1>15, <2>1
  <2>3. PICK t : t = Reply!Sent(questions, g)
    OBVIOUS
  <2>4. t = [k \in {Reply!Keys(questions)[j] : j \in B} |->
               g[questions[CHOOSE j \in B : Reply!Keys(questions)[j] = k].id]]
    BY <2>1, <2>3 DEF Reply!Sent
  <2>5. ASSUME NEW j \in B PROVE t[Reply!Keys(questions)[j]] = g[questions[j].id]
    <3>1. B \in SUBSET Reply!Live(questions)
      BY <2>1
    <3>2. (CHOOSE k \in B : Reply!Keys(questions)[k] = Reply!Keys(questions)[j]) = j
      BY <1>11, <3>1
    <3>3. PICK key : key = Reply!Keys(questions)[j]
      OBVIOUS
    <3>4. key \in {Reply!Keys(questions)[k] : k \in B}
      BY <3>3
    <3>5. t[key] = g[questions[CHOOSE k \in B : Reply!Keys(questions)[k] = key].id]
      BY <2>4, <3>4
    <3> QED BY <3>2, <3>3, <3>5
  <2>6. DOMAIN t = {Reply!Keys(questions)[j] : j \in B}
    BY <2>4
  <2>7. DOMAIN t = DOMAIN a
    BY <1>1, <1>2, <1>12, <2>2, <2>6
  <2>8. ASSUME NEW k \in DOMAIN t PROVE t[k] = a[k]
    <3>1. PICK j \in A : k = keys[j]
      BY <1>12, <2>7, <2>8
    <3> QED BY <1>1, <1>2, <1>12, <1>14, <2>2, <2>5, <3>1
  <2>9. t = a
    <3> DEFINE said(k) == g[questions[CHOOSE j \in B : Reply!Keys(questions)[j] = k].id]
               spoken(k) == say[questions[CHOOSE j \in A : Reply!Keys(questions)[j] = k].id]
    <3>1. PICK S : S = {Reply!Keys(questions)[j] : j \in B}
      OBVIOUS
    <3>2. PICK T : T = {Reply!Keys(questions)[j] : j \in A}
      OBVIOUS
    <3>3. t = [k \in S |-> said(k)]
      BY <2>4, <3>1
    <3>4. a = [k \in T |-> spoken(k)]
      BY <1>5, <3>2
    <3> HIDE DEF said, spoken
    <3>5. t = [k \in DOMAIN t |-> t[k]]
      BY <3>3
    <3>6. a = [k \in DOMAIN a |-> a[k]]
      BY <3>4
    <3> QED BY <2>7, <2>8, <3>5, <3>6
  <2> QED BY <1>1, <2>3, <2>9
<1>17. Reply!Read(F, a, i) = g[F[i].id]
  <2>1. Reply!Read(F, a, i) = IF keys[i] \in DOMAIN a THEN a[keys[i]] ELSE Nil
    BY <1>2 DEF Reply!Read
  <2>2. CASE i \in A
    BY <1>12, <1>14, <2>1, <2>2
  <2>3. CASE i \notin A
    <3>1. keys[i] \notin DOMAIN a
      <4> SUFFICES ASSUME keys[i] \in DOMAIN a PROVE FALSE
        OBVIOUS
      <4>1. PICK j \in A : keys[i] = keys[j]
        BY <1>12
      <4>2. j \in Reply!Live(F)
        BY <1>1
      <4> QED BY <1>7, <1>9, <2>3, <4>1, <4>2
    <3> QED BY <1>7, <1>15, <2>1, <2>3, <3>1
  <2> QED BY <2>2, <2>3
<1>18. keys[i] \in Out(F, a) <=> F[i].id \in Reply!Hidden(F, a)
  BY <1>2, <1>7, OwnKeyGoes
<1>19. Reply!Read(F, Reply!Stripped(F, a), i) = IF F[i].id \in Reply!Hidden(F, a) THEN Nil ELSE g[F[i].id]
  BY <1>2, <1>17, <1>18, ReadStripped
<1> QED BY <1>1, <1>4, <1>5, <1>6, <1>16, <1>19

\* Between submissions nothing is stored where nothing was.
LEMMA StoredBySubmission ==
  ASSUME Reply!Next, stored = Nil, stored' # Nil
  PROVE  Reply!Submit
BY DEF Reply!Next, Reply!AddField, Reply!RemoveField, Reply!SwapFields, Reply!SetLabel, Reply!SetRule,
       Reply!SaveForm, Reply!Correct

\* A deleted view stays deleted. The questions of a form stay apart however it is edited; of a
\* submission every question that shows reads back its own answer and a hidden one none,
\* whatever labels the live questions share; and what is stored answers every required
\* question that shows.
THEOREM StoredKept == KeepingSpec => StoredHolds
<1> DEFINE Back == stored = Nil /\ stored' # Nil /\ ~Reply!Lookalike(questions) =>
                     \A i \in Reply!Live(questions) :
                       LET id == questions[i].id
                       IN Reply!Read(questions, stored', i) =
                            IF id \in Reply!Hidden(questions, Reply!Sent(questions, given')) THEN Nil ELSE given'[id]
           Required == stored' # Nil /\ (\A i, j \in DOMAIN questions : ~Reply!SameLabel(questions, i, j))
                         => Reply!Complete(questions, stored')
<1>1. KeepingInit => AnswersInv
  <2> SUFFICES ASSUME KeepingInit PROVE AnswersInv
    OBVIOUS
  <2>1. questions = <<>> /\ given = [f \in Questions |-> Nil]
    BY DEF KeepingInit, Reply!Init
  <2>2. questions \in Seq(Rows) /\ DOMAIN questions = {}
    BY <2>1
  <2> QED BY <2>1, <2>2 DEF AnswersInv, Sound, Reply!Whole, Reply!Ruled, Reply!Live
<1>2. AnswersInv /\ [KeepingNext]_keepingVars => AnswersInv'
  <2>1. ASSUME AnswersInv, UNCHANGED answersOnly PROVE AnswersInv'
    BY <2>1 DEF answersOnly, AnswersInv, Sound, Reply!Whole, Reply!Ids, Reply!Ruled, Reply!Live
  <2> QED BY <2>1, AnswersKept DEF KeepingNext, keepingVars
<1>3. AnswersInv /\ [KeepingNext]_keepingVars => [Back]_stored /\ [Required]_stored
  <2> SUFFICES ASSUME AnswersInv, [KeepingNext]_keepingVars, stored' # stored PROVE Back /\ Required
    OBVIOUS
  <2>1. Reply!Next
    BY DEF KeepingNext, keepingVars, answersOnly
  <2>2. Back
    BY <2>1, StoredBySubmission, ReadsBack
  <2>3. Required
    BY <2>1, RequiredKept
  <2> QED BY <2>2, <2>3
<1>4. AnswersInv => Reply!QuestionsDiffer
  BY DEF AnswersInv, Sound, Reply!QuestionsDiffer
<1>5. KeepingSpec => []AnswersInv
  BY <1>1, <1>2, PTL DEF KeepingSpec
<1> QED BY <1>3, <1>4, <1>5, ViewsGone, PTL DEF KeepingSpec, StoredHolds, Reply!ReadBack, Reply!RequiredAnswered

==============================================================================
