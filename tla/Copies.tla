-------------------------------- MODULE Copies --------------------------------
(* Forms made from forms: saving fields and createForm and duplicateForm in   *)
(* services/form.service.ts, the integrity rule of                            *)
(* validations/form.validator.ts, and the workspace's own templates in        *)
(* controllers/template.controller.ts.                                        *)
(*                                                                            *)
(* A form never loses a field: one that is removed stays, marked. A template  *)
(* keeps the fields that are not marked, and a form made from it gets fields  *)
(* of its own and the rules between them in their new names.                  *)
EXTENDS Integers, FiniteSets, Functions

CONSTANTS
  Forms,      \* forms that exist or can come to exist
  First,      \* the form there is from the start
  Templates,
  None,
  MaxField,   \* bound: fieldIds ever made
  MaxSteps    \* bound: requests

\* What is assumed of the constants.
CopiesAssumption ==
  /\ First \in Forms /\ None \notin Forms \cup Templates
  /\ MaxField \in Nat \ {0} /\ MaxSteps \in Nat

Ids == 1..MaxField
\* A field: is it removed, and the field its one logic rule shows, or 0.
Field == [gone : BOOLEAN, shows : 0..MaxField]

VARIABLES
  fields,    \* Form.fields by fieldId, or None for a form that does not exist
  template,  \* templates: fields, or None
  made,      \* fieldIds made so far
  steps

copyVars == <<fields, template, made, steps>>

Live(F) == {i \in DOMAIN F : ~F[i].gone}

\* Variant: nobody looks at where the rules lead.
WholeNot(F) == TRUE
\* validateFieldsIntegrity: a rule leads to another field of this form, be it a
\* removed one.
Whole(F) == \A i \in Live(F) : F[i].shows # 0 => F[i].shows \in DOMAIN F \ {i}

Init ==
  /\ fields = [f \in Forms |-> IF f = First THEN [i \in {1} |-> [gone |-> FALSE, shows |-> 0]] ELSE None]
  /\ template = [t \in Templates |-> None]
  /\ made = 1 /\ steps = 0

Count == steps < MaxSteps /\ steps' = steps + 1

\* processFieldsUpdate: what the editor sends, and what it left out, marked.
Merged(F, sent) ==
  [i \in DOMAIN F \cup DOMAIN sent |->
     IF i \in DOMAIN sent THEN sent[i] ELSE [F[i] EXCEPT !.gone = TRUE]]

\* The editor sends the fields it shows, after one change: a rule set or taken
\* away, a field added, left out or brought back.
Sent(F) ==
  LET shown == Restrict(F, Live(F))
      with(i, r) == [j \in Live(F) \cup {i} |-> IF j = i THEN [gone |-> FALSE, shows |-> r] ELSE F[j]]
  IN {Restrict(shown, Live(F) \ {i}) : i \in Live(F)}
     \cup UNION {{with(i, r) : r \in {0} \cup DOMAIN F} : i \in DOMAIN F \cup {made + 1}}

SaveFields(f) ==
  /\ fields[f] # None /\ Count
  /\ \E sent \in Sent(fields[f]) :
       LET F == Merged(fields[f], sent)
       IN /\ DOMAIN F \subseteq Ids /\ Whole(F)
          /\ fields' = [fields EXCEPT ![f] = F]
          /\ made' = IF made + 1 \in DOMAIN F THEN made + 1 ELSE made
  /\ UNCHANGED template

\* duplicateForm keeps the fieldIds, the removed fields too.
Duplicate(f, g) ==
  /\ fields[f] # None /\ fields[g] = None /\ Count
  /\ fields' = [fields EXCEPT ![g] = fields[f]]
  /\ UNCHANGED <<template, made>>

\* publishTemplate: a snapshot without the removed fields.
Publish(f, t) ==
  /\ fields[f] # None /\ template[t] = None /\ Count
  /\ template' = [template EXCEPT ![t] = Restrict(fields[f], Live(fields[f]))]
  /\ UNCHANGED <<fields, made>>

\* removeTemplate
Remove(t) ==
  /\ template[t] # None /\ Count
  /\ template' = [template EXCEPT ![t] = None]
  /\ UNCHANGED <<fields, made>>

\* Variant: the fields get new names, the rules keep the old ones.
RenamedFields(F, new) ==
  [i \in {new[j] : j \in DOMAIN F} |-> F[CHOOSE j \in DOMAIN F : new[j] = i]]
\* useTemplate: new fieldIds, and the rules in terms of them. A rule about a
\* field the template does not have keeps the old id.
Renamed(F, new) ==
  [i \in {new[j] : j \in DOMAIN F} |->
     LET old == F[CHOOSE j \in DOMAIN F : new[j] = i]
     IN [old EXCEPT !.shows = IF @ \in DOMAIN F THEN new[@] ELSE @]]

\* Numbers for the fields of a template that none had before.
Fresh(F) == [i \in DOMAIN F |-> made + Cardinality({j \in DOMAIN F : j <= i})]

\* createForm refuses a form that is not whole.
Use(t, g) ==
  /\ template[t] # None /\ fields[g] = None /\ Count
  /\ made + Cardinality(DOMAIN template[t]) <= MaxField
  /\ LET F == Renamed(template[t], Fresh(template[t]))
     IN IF Whole(F)
        THEN fields' = [fields EXCEPT ![g] = F] /\ made' = made + Cardinality(DOMAIN F)
        ELSE UNCHANGED <<fields, made>>
  /\ UNCHANGED template

Next ==
  \/ \E f \in Forms : SaveFields(f) \/ \E g \in Forms : Duplicate(f, g)
  \/ \E t \in Templates : Remove(t) \/ \E f \in Forms : Publish(f, t) \/ Use(t, f)

Spec == Init /\ [][Next]_copyVars

------------------------------------------------------------------------------
\* Along any chain of saves, copies and templates, every rule of every field
\* that is not removed leads to another field of the same form.
FormsWhole ==
  \A f \in Forms : fields[f] # None =>
    \A i \in Live(fields[f]) : fields[f][i].shows \in ({0} \cup DOMAIN fields[f]) \ {i}

Usable(T) == Whole(Renamed(T, Fresh(T)))

\* useTemplate: a template whose rules lead to fields it has can be used, with
\* all its rules, whatever other forms and templates took in fieldIds.
ClosedTemplatesUsable ==
  \A t \in Templates :
    template[t] # None /\ (\A i \in DOMAIN template[t] : template[t][i].shows \in {0} \cup DOMAIN template[t])
      => Usable(template[t])

\* template.controller.ts, of a template: "it carries fields, logic, pages,
\* settings and theme". So a form can be made from it.
TemplatesUsable ==
  \A t \in Templates : template[t] # None => Usable(template[t])
==============================================================================
