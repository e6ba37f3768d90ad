-------------------------------- MODULE Answers --------------------------------
(* The answers of a response, kept by question: utils/answerKeys.ts, the      *)
(* conditional questions of validations/form.validator.ts, validateAnswers    *)
(* and processFieldsUpdate in services/form.service.ts, submitPublicForm in   *)
(* controllers/form.controller.ts and editResponse in                         *)
(* services/respondent.service.ts.                                            *)
(*                                                                            *)
(* An answer is stored under its question's label, or under "Label (2)" when  *)
(* an earlier question has the label. The form may change after an answer is  *)
(* stored, and the answer is found again with the keys of the form as it is.  *)
EXTENDS Naturals, Sequences, FiniteSetsExt

CONSTANTS
  Fields,    \* fieldIds
  Labels,    \* labels, as numbers in parentheses: see TwoLabels
  None,
  MaxEdits,  \* bound: edits of the form
  MaxRules   \* bound: logic rules on the form at the same time

Values == {"yes", "no"}

\* What is assumed of the constants.
AnswersAssumption ==
  /\ None \notin Fields \cup Values /\ Labels \subseteq Seq(Nat)
  /\ MaxEdits \in Nat /\ MaxRules \in Nat

\* <<>> is the label "Question", <<2>> the label "Question (2)".
TwoLabels == {<<>>, <<2>>}

VARIABLES
  form,      \* Form.fields in order: id, label, removed?, required?, logic rule or None
  stored,    \* Response.answers by key, or None without a response
  given,     \* history: the answer a respondent gave to each question
  touched,   \* history: the questions of the last correction
  edits

answersVars == <<form, stored, given, touched, edits>>

Live(F) == {i \in DOMAIN F : ~F[i].gone}
Ids(F) == {F[i].id : i \in DOMAIN F}
Ruled(F) == {i \in Live(F) : F[i].rule # None}

------------------------------------------------------------------------------
(* Keys                                                                       *)

\* Variant: the second of a label is told apart, the third is not.
NumberedTwo(F, label, used) == Append(label, 2)
\* The label with the first number that is neither a key nor a label.
Numbered(F, label, used) ==
  Append(label, Min({n \in 2..2 * Len(F) + 2 : Append(label, n) \notin used \cup {F[i].label : i \in DOMAIN F}}))

\* The key of a question after those before it: a removed one keeps its plain label.
KeyAfter(F, keys, i) ==
  LET used == {keys[j] : j \in {k \in 1..i - 1 : ~F[k].gone}}
  IN IF F[i].gone \/ F[i].label \notin used THEN F[i].label ELSE Numbered(F, F[i].label, used)
\* buildAnswerKeyMap
Keys(F) == LET keys[i \in DOMAIN F] == KeyAfter(F, keys, i) IN keys

\* readFieldAnswer, of an answer stored under a key.
Read(F, answers, i) ==
  LET k == Keys(F)[i] IN IF k \in DOMAIN answers THEN answers[k] ELSE None

------------------------------------------------------------------------------
(* Conditional questions                                                      *)

\* Variant: a required question may be hidden.
WholeAny(F) == \A i \in Ruled(F) : F[i].rule.to \in Ids(F) \ {F[i].id}
\* validateFieldsIntegrity
Whole(F) ==
  /\ \A i \in Ruled(F) : F[i].rule.to \in Ids(F) \ {F[i].id}
  /\ \A i \in Ruled(F), j \in Live(F) : F[i].rule.act = "hide" /\ F[i].rule.to = F[j].id => ~F[j].must

\* getHiddenFieldIds: a rule is met when its question is answered yes. What a
\* rule shows is hidden unless one is met; what a met rule hides is hidden.
Hidden(F, answers) ==
  LET rules(act, id) == {i \in Ruled(F) : F[i].rule.act = act /\ F[i].rule.to = id}
      met(S) == \E i \in S : Read(F, answers, i) = "yes"
  IN {id \in Ids(F) : (rules("show", id) # {} /\ ~met(rules("show", id))) \/ met(rules("hide", id))}

\* validateAnswers refuses when a required question that shows has no answer,
Complete(F, answers) ==
  \A i \in Live(F) : F[i].must /\ F[i].id \notin Hidden(F, answers) => Read(F, answers, i) # None

\* and takes out the answers of all that are hidden.
Stripped(F, answers) ==
  LET out == {Keys(F)[i] : i \in {j \in DOMAIN F : F[j].id \in Hidden(F, answers)}}
  IN [k \in DOMAIN answers \ out |-> answers[k]]

------------------------------------------------------------------------------
Init ==
  /\ form = <<>> /\ stored = None /\ touched = {}
  /\ given = [f \in Fields |-> None]
  /\ edits = 0

\* processFieldsUpdate: what the editor sends, then what it left out.
PlaceOf(F, i) ==
  LET upto(S) == Cardinality({j \in S : j <= i})
  IN IF F[i].gone THEN Cardinality(Live(F)) + upto(DOMAIN F \ Live(F)) ELSE upto(Live(F))
Merged(F) == [p \in DOMAIN F |-> F[CHOOSE i \in DOMAIN F : PlaceOf(F, i) = p]]

\* Saving the form, under the integrity rule.
SaveForm(F) ==
  /\ edits < MaxEdits /\ edits' = edits + 1
  /\ F # form /\ Whole(F)
  /\ form' = Merged(F)
  /\ UNCHANGED <<stored, given, touched>>

AddField(f, label, must) ==
  /\ f \notin Ids(form)
  /\ SaveForm(Append(form, [id |-> f, label |-> label, gone |-> FALSE, must |-> must, rule |-> None]))

\* A question the editor leaves out stays, marked.
RemoveField(i) == ~form[i].gone /\ SaveForm([form EXCEPT ![i].gone = TRUE])

SetLabel(i, label) == ~form[i].gone /\ SaveForm([form EXCEPT ![i].label = label])

SwapFields(i) ==
  /\ {i, i + 1} \subseteq Live(form)
  /\ SaveForm([form EXCEPT ![i] = form[i + 1], ![i + 1] = form[i]])

SetRule(i, act, to) ==
  /\ ~form[i].gone /\ Cardinality(Ruled(form)) < MaxRules
  /\ SaveForm([form EXCEPT ![i].rule = [act |-> act, to |-> to]])

\* submitPublicForm: every answer under the key of its question, by fieldId;
\* only the keys of live questions are stored.
Submit ==
  /\ stored = None /\ Live(form) # {}
  /\ \E A \in SUBSET Live(form) : \E say \in [{form[i].id : i \in A} -> Values] :
       LET at(k) == CHOOSE i \in A : Keys(form)[i] = k
           answers == [k \in {Keys(form)[i] : i \in A} |-> say[form[at(k)].id]]
       IN /\ Complete(form, answers)
          /\ stored' = Stripped(form, answers)
          /\ given' = [f \in Fields |-> IF f \in DOMAIN say THEN say[f] ELSE None]
  /\ UNCHANGED <<form, touched, edits>>

\* editResponse: the corrections by label over what is stored, judged as a
\* submission is. One correction of one question is enough for the properties.
Correct(i, value) ==
  /\ stored # None /\ touched = {} /\ ~form[i].gone
  /\ LET merged == [k \in DOMAIN stored \cup {form[i].label} |->
                      IF k = form[i].label THEN value ELSE stored[k]]
     IN /\ Complete(form, merged)
        /\ stored' = Stripped(form, merged)
  /\ given' = [given EXCEPT ![form[i].id] = value]
  /\ touched' = {form[i].id}
  /\ UNCHANGED <<form, edits>>

Next ==
  \/ \E f \in Fields, label \in Labels, must \in BOOLEAN : AddField(f, label, must)
  \/ \E i \in DOMAIN form :
       \/ RemoveField(i) \/ SwapFields(i)
       \/ \E label \in Labels : SetLabel(i, label)
       \/ \E act \in {"show", "hide"}, to \in Fields : SetRule(i, act, to)
       \/ \E value \in Values : Correct(i, value)
  \/ Submit

Spec == Init /\ [][Next]_answersVars

------------------------------------------------------------------------------
SameLabel(F, i, j) == i # j /\ F[i].label = F[j].label

\* processFieldsUpdate: the questions keep ids of their own, however they are moved.
QuestionsDiffer == \A i, j \in DOMAIN form : i # j => form[i].id # form[j].id

\* Does a removed question carry the label of a live one?
Lookalike(F) == \E i \in Live(F), j \in DOMAIN F \ Live(F) : SameLabel(F, i, j)

\* What a respondent sends, each answer under the key of its live question.
Sent(F, say) ==
  LET A == {i \in Live(F) : say[F[i].id] # None}
  IN [k \in {Keys(F)[i] : i \in A} |-> say[F[CHOOSE i \in A : Keys(F)[i] = k].id]]

\* answers_same_label.test.ts: of a submission every question that shows reads
\* its own answer back and every hidden one reads none, whatever labels the
\* live questions share.
ReadBack ==
  [][stored = None /\ stored' # None /\ ~Lookalike(form) =>
       \A i \in Live(form) :
         LET id == form[i].id
         IN Read(form, stored', i) = IF id \in Hidden(form, Sent(form, given')) THEN None ELSE given'[id]
         ]_stored

\* validateAnswers: what is stored answers every required question that shows,
\* judged by what is stored and not by the answers that were taken out since.
RequiredAnswered ==
  [][stored' # None /\ (\A i, j \in DOMAIN form : ~SameLabel(form, i, j)) => Complete(form, stored')]_stored

\* answers_same_label.test.ts: "Each question now has its own storage key": a
\* correction of one question leaves what is read of the others that show.
CorrectedAlone ==
  [][stored # None =>
       \A i \in Live(form) :
         form[i].id \notin touched' \cup Hidden(form, stored') => Read(form, stored', i) = Read(form, stored, i)]_stored

\* answerKeys.ts: "a second question that shares a label must not borrow the
\* first one's value", also after the form has changed.
OwnAnswers ==
  stored # None => \A i \in Live(form) : Read(form, stored, i) \in {given[form[i].id], None}
==============================================================================
