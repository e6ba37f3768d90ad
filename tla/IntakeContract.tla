--------------------------- MODULE IntakeContract ---------------------------
(***************************************************************************)
(* What a form promises the people who answer it and the people who own    *)
(* it, with none of the machinery: a submission is accepted or refused     *)
(* once and for all; an accepted one gets a number nobody else ever has,   *)
(* and is kept until its owner removes it for good; and at the moment of   *)
(* acceptance the kept ones fit a limit the form has carried.              *)
(***************************************************************************)
EXTENDS Naturals, FiniteSets

CONSTANTS
  Visitors,   (* the submissions of the public                              *)
  NoLimit     (* the form takes any number of responses                     *)

VARIABLES
  verdict,    (* what became of each submission                             *)
  kept,       (* accepted submissions that are still stored                 *)
  numberOf,   (* the number of an accepted submission, 0 before             *)
  limits      (* every limit the form has carried                           *)

vars == <<verdict, kept, numberOf, limits>>

\* The set fits one of the limits the form has carried.
Fits(set) == \E l \in limits : l = NoLimit \/ Cardinality(set) <= l

Init ==
  /\ verdict = [v \in Visitors |-> "none"]
  /\ kept = {}
  /\ numberOf = [v \in Visitors |-> 0]
  /\ limits \subseteq Nat \cup {NoLimit} /\ Cardinality(limits) = 1

\* The number is fresh; the response is kept unless its owner was quicker and
\* has removed it already.
Accept(v) ==
  /\ verdict[v] = "none"
  /\ verdict' = [verdict EXCEPT ![v] = "accepted"]
  /\ kept' \in {kept, kept \cup {v}}
  /\ v \in kept' => Fits(kept')
  /\ numberOf'[v] \in Nat \ {0} /\ \A w \in Visitors : numberOf[w] # numberOf'[v]
  /\ numberOf' = [numberOf EXCEPT ![v] = numberOf'[v]]
  /\ UNCHANGED limits

Refuse(v) ==
  /\ verdict[v] = "none"
  /\ verdict' = [verdict EXCEPT ![v] = "refused"]
  /\ UNCHANGED <<kept, numberOf, limits>>

Remove(v) ==
  /\ v \in kept
  /\ kept' = kept \ {v}
  /\ UNCHANGED <<verdict, numberOf, limits>>

SetLimit ==
  /\ limits' \subseteq Nat \cup {NoLimit} /\ limits \subseteq limits'
  /\ UNCHANGED <<verdict, kept, numberOf>>

Next ==
  \/ \E v \in Visitors : Accept(v) \/ Refuse(v) \/ Remove(v)
  \/ SetLimit

Spec == Init /\ [][Next]_vars

=============================================================================
