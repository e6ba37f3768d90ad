------------------------------- MODULE Editing -------------------------------
(* A form under the hands of several builders: the save of its content         *)
(* (PATCH /api/forms/:id), going live, replacing the link, closing, archiving. *)
(*                                                                             *)
(* A builder loads the form, edits his copy and sends what he changed together *)
(* with the contentVersion of the copy and an id of the save.  The server      *)
(* reads the form to check the version, reads it again to merge the fields,    *)
(* and writes on the condition that the version is still the one expected.     *)
(* Replies get lost and saves are sent again, also while the first try is      *)
(* still under way.  Publishing writes without any condition.                  *)
EXTENDS Naturals, FiniteSets, TLC

CONSTANTS
  Clients,       \* builders that have the form open
  Saves,         \* ids of saves
  Fields,        \* ids of fields
  Slots,         \* requests the server handles at the same time
  None,
  MaxTries,      \* bound: saves sent, the repeated ones included
  MaxLinks,      \* bound: public links made
  MaxOthers,     \* bound: requests other than loads and saves
  OnePublisher   \* is at most one request about the link under way at a time?

ASSUME EditingAssumption ==
  /\ None \notin Saves /\ None \notin Clients
  /\ MaxTries \in Nat /\ MaxLinks \in Nat /\ MaxOthers \in Nat
  /\ OnePublisher \in BOOLEAN

VARIABLES
  form,     \* the Form document
  copy,     \* per client: the content and the version it has loaded
  sent,     \* per save: what the client sent, or None
  tries,    \* saves sent so far, the repeated ones included
  waiting,  \* per client: the save it waits for, or None
  request,  \* per slot: the handler under way
  acked,    \* history: saves answered with success
  uses,     \* history: how often a save was written
  links,    \* history: public links made
  others    \* requests other than loads and saves
vars == <<form, copy, sent, tries, waiting, request, acked, uses, links, others>>

\* The builder-owned content.  Title, description, pages and branding are one
\* text; a text and the settings are told apart by the saves they contain.
Content == [text : SUBSET Saves, settings : SUBSET Saves,
            fields : [Fields -> {"absent", "live", "deleted"}]]
Parts == {"text", "settings", "fields"}

\* What a handler keeps of the form it read.
Kept(fields, settings, slug) == [fields |-> fields, settings |-> settings, slug |-> slug]
Nothing == Kept(None, None, None)
Idle == [kind |-> "idle", at |-> "idle", save |-> None, read |-> Nothing]

Init ==
  /\ form = [content |-> [text |-> {}, settings |-> {},
                          fields |-> [f \in Fields |-> "absent"]],
             version |-> 0, lastSave |-> None, status |-> "draft", slug |-> 0,
             archived |-> FALSE, trashed |-> FALSE]
  /\ copy = [c \in Clients |-> [content |-> form.content, version |-> 0]]
  /\ sent = [s \in Saves |-> None]
  /\ tries = 0
  /\ waiting = [c \in Clients |-> None]
  /\ request = [k \in Slots |-> Idle]
  /\ acked = {}
  /\ uses = [s \in Saves |-> 0]
  /\ links = 0 /\ others = 0

------------------------------------------------------------------------------
(* The builder.                                                               *)

\* getForm, by a client that waits for nothing.
Load(c) ==
  /\ waiting[c] = None /\ ~form.trashed
  /\ copy' = [copy EXCEPT ![c] = [content |-> form.content, version |-> form.version]]
  /\ UNCHANGED <<form, sent, tries, waiting, request, acked, uses, links, others>>

\* One part with one more edit: wholesale for text and settings, a field added
\* or taken off the list.
Edited(part, content, s, f) ==
  IF part = "fields"
  THEN [content.fields EXCEPT ![f] = IF @ = "absent" THEN "live" ELSE "absent"]
  ELSE content[part] \cup {s}

\* A save of one part.  Older clients send no expectedContentVersion, and a
\* save may ask for status "published" (to publish, an older client is no
\* different past the first check: left out as a bound).
Send(c, s, part, f, checked, publish) ==
  /\ waiting[c] = None /\ sent[s] = None
  /\ publish => checked
  /\ sent' = [sent EXCEPT ![s] = [client |-> c, part |-> part, checked |-> checked,
                                  publish |-> publish,
                                  version |-> IF checked THEN copy[c].version ELSE 0,
                                  body |-> Edited(part, copy[c].content, s, f)]]
  /\ waiting' = [waiting EXCEPT ![c] = s]
  /\ UNCHANGED <<form, copy, tries, request, acked, uses, links, others>>

GiveUp(c) ==
  /\ waiting[c] # None
  /\ waiting' = [waiting EXCEPT ![c] = None]
  /\ UNCHANGED <<form, copy, sent, tries, request, acked, uses, links, others>>

------------------------------------------------------------------------------
(* PATCH /api/forms/:id.                                                      *)

\* The handler ends; a client that still waits may get the answer.
End(k) == request' = [request EXCEPT ![k] = Idle]
Answer(s, f) ==
  LET c == sent[s].client
  IN \/ UNCHANGED <<copy, waiting, acked>>
     \/ /\ waiting[c] = s
        /\ waiting' = [waiting EXCEPT ![c] = None]
        /\ copy' = [copy EXCEPT ![c] = [content |-> f.content, version |-> f.version]]
        /\ acked' = acked \cup {s}
Refuse(s) ==
  LET c == sent[s].client
  IN \/ UNCHANGED <<copy, waiting, acked>>
     \/ /\ waiting[c] = s
        /\ waiting' = [waiting EXCEPT ![c] = None]
        /\ UNCHANGED <<copy, acked>>

LinkCalls == {k \in Slots : \/ request[k].kind \in {"publish", "regenerate"}
                            \/ request[k].kind = "save" /\ sent[request[k].save].publish}
MayLink(publish) == OnePublisher /\ publish => LinkCalls = {}

\* Variant: whatever is out of date is taken for a save that went through.
ReplayedAny(s) == form.version # sent[s].version
\* The save is the last one the form has stored.
Replayed(s) == form.lastSave = s

\* patchForm in the controller: a stale save is refused or, when it is the one
\* stored last, answered with the form as it is.
Deliver(k, s) ==
  /\ request[k] = Idle /\ sent[s] # None /\ waiting[sent[s].client] = s
  /\ tries < MaxTries
  /\ MayLink(sent[s].publish)
  /\ tries' = tries + 1
  /\ IF form.trashed THEN Refuse(s) /\ UNCHANGED request
     ELSE IF sent[s].checked /\ form.version # sent[s].version
     THEN /\ IF Replayed(s) THEN Answer(s, form) ELSE Refuse(s)
          /\ UNCHANGED request
     ELSE /\ request' = [request EXCEPT ![k] = [kind |-> "save", at |-> "read", save |-> s,
                                                read |-> Nothing]]
          /\ UNCHANGED <<copy, waiting, acked>>
  /\ UNCHANGED <<form, sent, uses, links, others>>

\* Variant: a field that is not on the list is dropped.
MergedDrop(existing, incoming) == [f \in Fields |-> incoming[f]]
\* processFieldsUpdate: what is not on the list stays, marked deleted.
Merged(existing, incoming) ==
  [f \in Fields |-> IF incoming[f] # "absent" THEN incoming[f]
                    ELSE IF existing[f] # "absent" THEN "deleted" ELSE "absent"]

Ready(fields) == \E f \in Fields : fields[f] = "live"

\* What the body names replaces what is stored; fields are merged with the
\* fields that were read.
NewPart(s, fields) == IF sent[s].part = "fields" THEN Merged(fields, sent[s].body) ELSE sent[s].body
NewFields(s, fields) == IF sent[s].part = "fields" THEN NewPart(s, fields) ELSE fields

\* The service reads the form.  Publishing refuses an archived form and one
\* without a question.
Read(k) ==
  LET s == request[k].save
  IN /\ request[k].kind = "save" /\ request[k].at = "read"
     /\ IF form.trashed \/ (sent[s].publish /\ (form.archived \/ ~Ready(NewFields(s, form.content.fields))))
        THEN End(k) /\ Refuse(s)
        ELSE /\ request' = [request EXCEPT ![k].at = "write", ![k].read =
                     Kept(IF sent[s].part = "fields" THEN form.content.fields ELSE None, None,
                          IF sent[s].publish THEN form.slug ELSE None)]
             /\ UNCHANGED <<copy, waiting, acked>>
     /\ UNCHANGED <<form, sent, tries, uses, links, others>>

\* Variant: the counter misses the settings.
BumpsText(part) == part \in {"text", "fields"}
\* CONTENT_KEYS: all three parts are content.
Bumps(part) == part \in Parts

\* patchForm in the service.
Patched(s, read) == [form.content EXCEPT ![sent[s].part] = NewPart(s, read.fields)]

\* Variant: the condition is left to the check of the controller.
MatchesAny(s) == ~form.trashed
\* The condition of the write itself.
Matches(s) == ~form.trashed /\ (sent[s].checked => form.version = sent[s].version)

\* update in the repository.
Write(k) ==
  LET s == request[k].save
  IN /\ request[k].kind = "save" /\ request[k].at = "write" /\ ~sent[s].publish
     /\ IF Matches(s)
        THEN /\ form' = [form EXCEPT !.content = Patched(s, request[k].read),
                                     !.version = IF Bumps(sent[s].part) THEN @ + 1 ELSE @,
                                     !.lastSave = IF sent[s].checked THEN s ELSE @]
             /\ uses' = [uses EXCEPT ![s] = @ + 1]
             /\ Answer(s, form')
        ELSE /\ UNCHANGED <<form, uses>>
             /\ IF ~form.trashed /\ form.lastSave = s THEN Answer(s, form) ELSE Refuse(s)
     /\ End(k)
     /\ UNCHANGED <<sent, tries, links, others>>

------------------------------------------------------------------------------
(* Going live.                                                                *)

\* Variant: every time the form goes live it gets a new link.
LinkAlwaysNew(slug) == links + 1
\* A link is made once and kept.
Link(slug) == IF slug # 0 THEN slug ELSE links + 1

Live(read) == [form EXCEPT !.status = "published", !.slug = Link(read.slug)]
\* Variant: a link is not looked up before it is used.
CountLinkNever(new) == UNCHANGED links
CountLink(new) == links' = IF new > links THEN new ELSE links

\* A save that publishes: text and fields of the body, the settings are left
\* out, and no version is asked for.
WritePublish(k) ==
  LET s == request[k].save
      read == request[k].read
  IN /\ request[k].kind = "save" /\ request[k].at = "write" /\ sent[s].publish
     /\ links < MaxLinks
     /\ IF form.trashed THEN UNCHANGED <<form, uses, links>> /\ Refuse(s)
        ELSE /\ form' = IF sent[s].part = "settings" THEN Live(read)
                        ELSE [Live(read) EXCEPT !.content = Patched(s, read),
                                                    !.version = @ + 1]
             /\ uses' = [uses EXCEPT ![s] = @ + 1]
             /\ CountLink(form'.slug)
             /\ Answer(s, form')
     /\ End(k)
     /\ UNCHANGED <<sent, tries, others>>

\* POST publish, plain or with the choices of the pre-flight, which are applied
\* to the settings as they are read here.
Publish(k, commit) ==
  /\ request[k] = Idle /\ others < MaxOthers /\ MayLink(TRUE)
  /\ ~form.trashed /\ ~form.archived /\ Ready(form.content.fields)
  /\ others' = others + 1
  /\ request' = [request EXCEPT ![k] = [kind |-> "publish", at |-> IF commit THEN "commit" ELSE "plain",
                       save |-> None,
                       read |-> Kept(None, IF commit THEN form.content.settings ELSE None,
                                     form.slug)]]
  /\ UNCHANGED <<form, copy, sent, tries, waiting, acked, uses, links>>

EndPublish(k) ==
  LET read == request[k].read
  IN /\ request[k].kind = "publish" /\ links < MaxLinks
     /\ IF form.trashed THEN UNCHANGED <<form, links>>
        ELSE /\ form' = IF request[k].at = "plain" THEN Live(read)
                        ELSE [Live(read) EXCEPT !.content.settings = read.settings,
                                                    !.version = @ + 1]
             /\ CountLink(form'.slug)
     /\ End(k)
     /\ UNCHANGED <<copy, sent, tries, waiting, acked, uses, others>>

\* POST regenerate-link: only a form that has a link; a new one takes its place.
Regenerate(k) ==
  /\ request[k] = Idle /\ others < MaxOthers /\ MayLink(TRUE)
  /\ ~form.trashed /\ form.slug # 0
  /\ others' = others + 1
  /\ request' = [request EXCEPT ![k] = [kind |-> "regenerate", at |-> "write", save |-> None,
                                        read |-> Nothing]]
  /\ UNCHANGED <<form, copy, sent, tries, waiting, acked, uses, links>>

EndRegenerate(k) ==
  /\ request[k].kind = "regenerate" /\ links < MaxLinks
  /\ IF form.trashed THEN UNCHANGED <<form, links>>
     ELSE /\ form' = [form EXCEPT !.slug = links + 1]
          /\ CountLink(form'.slug)
  /\ End(k)
  /\ UNCHANGED <<copy, sent, tries, waiting, acked, uses, others>>

------------------------------------------------------------------------------
(* The other steps of a form's life write one attribute each, whatever they   *)
(* have read: their two round trips are one step here.                        *)

Become(f) ==
  /\ ~form.trashed /\ form' = f /\ form' # form
  /\ others < MaxOthers /\ others' = others + 1
  /\ UNCHANGED <<copy, sent, tries, waiting, request, acked, uses, links>>

Close == Become([form EXCEPT !.status = "closed"])
Unpublish == form.status # "draft" /\ Become([form EXCEPT !.status = "draft"])
Archive == ~form.archived /\ Become([form EXCEPT !.archived = TRUE])
Unarchive == form.archived /\ Become([form EXCEPT !.archived = FALSE])
Trash == Become([form EXCEPT !.trashed = TRUE])

Next ==
  \/ \E c \in Clients : Load(c) \/ GiveUp(c)
  \/ \E c \in Clients, s \in Saves, part \in Parts, f \in Fields, checked, publish \in BOOLEAN :
       Send(c, s, part, f, checked, publish)
  \/ \E k \in Slots :
       \/ \E s \in Saves : Deliver(k, s)
       \/ Read(k) \/ Write(k) \/ WritePublish(k)
       \/ \E commit \in BOOLEAN : Publish(k, commit)
       \/ EndPublish(k) \/ Regenerate(k) \/ EndRegenerate(k)
  \/ Close \/ Unpublish \/ Archive \/ Unarchive \/ Trash

Spec == Init /\ [][Next]_vars

------------------------------------------------------------------------------
\* The variables keep their types; the version counts the writes of content.
TypeOK ==
  /\ form.content \in Content /\ form.version \in Nat
  /\ form.lastSave \in Saves \cup {None}
  /\ form.status \in {"draft", "published", "closed"}
  /\ form.slug \in Nat /\ form.slug <= links
  /\ \A c \in Clients : /\ copy[c].content \in Content
                        /\ copy[c].version <= form.version
                        /\ waiting[c] \in Saves \cup {None}
  /\ acked \subseteq Saves

\* A copy that carries the form's version is the form's content: no change of
\* content escapes the counter, whoever makes it.
CopiesAgree ==
  \A c \in Clients : copy[c].version = form.version => copy[c].content = form.content

\* A save that asks for its version is written once however often it is sent,
\* and one that was answered with success has been written.
SavedOnce ==
  \A s \in Saves : sent[s] # None /\ sent[s].checked =>
    /\ ~sent[s].publish => uses[s] <= 1
    /\ s \in acked => uses[s] >= 1

\* The step is a write that asks for no version.
Blind(k) ==
  /\ request[k] # Idle /\ request'[k] = Idle
  /\ request[k].kind = "save" => ~sent[request[k].save].checked \/ sent[request[k].save].publish

\* "the save is refused ... instead of silently overwriting the newer data":
\* what a save has put into the text or the settings goes away only by a
\* write that asks for no version.
KeptByChecked ==
  [][\A s \in Saves : \A p \in {"text", "settings"} :
       s \in form.content[p] /\ s \notin form'.content[p] => \E k \in Slots : Blind(k)]_vars

\* A field's id never leaves the stored list by a save that asks for its
\* version: its answers stay readable.
FieldsStay ==
  [][\A f \in Fields : form.content.fields[f] # "absent" /\ form'.content.fields[f] = "absent"
       => \E k \in Slots : Blind(k)]_vars

\* A public link is replaced by regenerate-link alone.
LinkStays ==
  [][form.slug # 0 /\ form'.slug # form.slug =>
       \E k \in Slots : request[k].kind = "regenerate" /\ request'[k] = Idle]_vars

\* The same without the exception: no acknowledged text or setting is lost to a
\* write that did not see it.
NothingOverwritten ==
  [][\A s \in Saves : \A p \in {"text", "settings"} :
       s \in form.content[p] => s \in form'.content[p]]_vars

\* Everything is of its type, builders who were told a version hold what is stored under
\* it, and a save is stored once.
SavesHold == TypeOK /\ CopiesAgree /\ SavedOnce

\* What was saved, its fields and the public link stay but for the writes that replace them.
EditsStay == KeptByChecked /\ FieldsStay /\ LinkStays

\* Builders, saves and requests are alike.
Alike == Permutations(Clients) \cup Permutations(Saves) \cup Permutations(Slots)
==============================================================================
