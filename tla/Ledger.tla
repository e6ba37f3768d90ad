------------------------------- MODULE Ledger -------------------------------
(* The console's other changes: built-in templates, limits, sessions, export  *)
(* jobs and workspaces (services/superadminOps.service.ts and updateLimits).  *)
(* Each is a read or none, one write, and the AuditLog row; operators work     *)
(* side by side, and beside the owners of what they change.                   *)
EXTENDS FiniteSets, Integers

CONSTANTS
  Things,         \* what is changed
  Sort,           \* of each: "template" (built in), "own" (a workspace's template),
                  \*   "account" (its limits), "session", "export" or "workspace"
  Operators,
  MaxChanges      \* bound: requests in all

\* What is assumed of the constants.
LedgerAssumption ==
  /\ Sort \in [Things -> {"template", "own", "account", "session", "export", "workspace"}]
  /\ MaxChanges \in Nat

VARIABLES
  there,      \* things with a row; live sessions, failed exports
  named,      \* templates and workspaces that bear the name they had at first
  entries,    \* per thing, the AuditLog rows that name it
  doing,      \* per operator, the request under way
  begun,
  changed     \* history: per thing, the changes the console made

ledgerVars == <<there, named, entries, doing, begun, changed>>

Rest == [op |-> "none", at |-> "rest", thing |-> "none", name |-> TRUE]
OfSort(S) == {x \in Things : Sort[x] \in S}

LedgerInit ==
  /\ there \in SUBSET Things /\ OfSort({"account", "own"}) \subseteq there
  /\ named = Things
  /\ entries = [x \in Things |-> 0] /\ changed = [x \in Things |-> 0]
  /\ doing = [o \in Operators |-> Rest]
  /\ begun = 0

Open(o, j) ==
  /\ doing[o] = Rest /\ begun < MaxChanges /\ begun' = begun + 1
  /\ doing' = [doing EXCEPT ![o] = j]
Onto(o, at) == doing' = [doing EXCEPT ![o].at = at] /\ UNCHANGED begun
Over(o) == doing' = [doing EXCEPT ![o] = Rest] /\ UNCHANGED begun
NotFound(o) == Over(o) /\ UNCHANGED <<there, named, entries, changed>>
Made(x) == changed' = [changed EXCEPT ![x] = @ + 1]

\* Variant: any template is found by its id.
BuiltInAny == OfSort({"template", "own"})
\* BUILT_IN: a workspace's own templates are never found.
BuiltIn == OfSort({"template"})

\* updateTemplate and updateLimits read the row.
ReadToEdit(o) ==
  /\ \E x \in there \cap (BuiltIn \cup OfSort({"account"})) :
       Open(o, [op |-> "edit", at |-> "write", thing |-> x, name |-> TRUE])
  /\ UNCHANGED <<there, named, entries, changed>>
\* The deletes do, and compare the name that was confirmed with the row's.
ReadToDelete(o) ==
  /\ \E x \in there \cap (BuiltIn \cup OfSort({"workspace"})) :
       Open(o, [op |-> "delete", at |-> "write", thing |-> x, name |-> x \in named])
  /\ UNCHANGED <<there, named, entries, changed>>

\* Variant: a row that is gone is no error.
SaveSilently(o) ==
  /\ doing[o].op = "edit" /\ doing[o].at = "write"
  /\ Onto(o, "log")
  /\ changed' = [changed EXCEPT ![doing[o].thing] = @ + (IF doing[o].thing \in there THEN 1 ELSE 0)]
  /\ UNCHANGED <<there, named, entries>>
\* save: an error when the row is gone meanwhile.
Save(o) ==
  /\ doing[o].op = "edit" /\ doing[o].at = "write"
  /\ \/ doing[o].thing \notin there /\ NotFound(o)
     \/ /\ doing[o].thing \in there
        /\ Onto(o, "log") /\ Made(doing[o].thing)
        /\ named' \in {named, named \ {doing[o].thing}}
        /\ UNCHANGED <<there, entries>>

\* Variant: the name is not compared.
DeleteUnconfirmed(o) ==
  /\ doing[o].op = "delete" /\ doing[o].at = "write"
  /\ Onto(o, "log") /\ there' = there \ {doing[o].thing}
  /\ changed' = [changed EXCEPT ![doing[o].thing] = @ + (IF doing[o].thing \in there THEN 1 ELSE 0)]
  /\ UNCHANGED <<named, entries>>
\* deleteOne, or deleteWorkspaceData: a row that is gone already is no error.
Delete(o) ==
  /\ doing[o].op = "delete" /\ doing[o].at = "write"
  /\ IF ~doing[o].name THEN NotFound(o)
     ELSE /\ Onto(o, "log") /\ there' = there \ {doing[o].thing}
          /\ changed' = [changed EXCEPT ![doing[o].thing] =
                           @ + (IF doing[o].thing \in there THEN 1 ELSE 0)]
          /\ UNCHANGED <<named, entries>>

\* createTemplate: built in, whatever the request says.
Insert(o) ==
  /\ \E x \in BuiltIn \ there :
       /\ changed[x] = 0
       /\ Open(o, [op |-> "create", at |-> "log", thing |-> x, name |-> TRUE])
       /\ there' = there \cup {x} /\ Made(x)
  /\ UNCHANGED <<named, entries>>

\* revokeUserSession and retryExport: one conditional write, "not found" when it
\* matched nothing.
Switch(o) ==
  /\ \E x \in there \cap OfSort({"session", "export"}) :
       /\ Open(o, [op |-> "switch", at |-> "log", thing |-> x, name |-> TRUE])
       /\ there' = there \ {x} /\ Made(x)
  /\ UNCHANGED <<named, entries>>

\* revokeAllUserSessions is written down whether it ended a session or not.
SwitchAll(o) ==
  /\ \E x \in OfSort({"session"}) :
       /\ Open(o, [op |-> "all", at |-> "log", thing |-> x, name |-> TRUE])
       /\ there' = there \ {x}
       /\ changed' = [changed EXCEPT ![x] = @ + (IF x \in there THEN 1 ELSE 0)]
  /\ UNCHANGED <<named, entries>>

\* audit.
Log(o) ==
  /\ doing[o].at = "log" /\ Over(o)
  /\ entries' = [entries EXCEPT ![doing[o].thing] = @ + 1]
  /\ UNCHANGED <<there, named, changed>>

\* Beside the console: a session ends, an owner deletes or renames his workspace, an
\* export that was tried again fails.
Beside ==
  /\ begun < MaxChanges /\ begun' = begun + 1
  /\ \/ \E x \in OfSort({"session", "export", "workspace", "account"}) \cap there :
          there' = there \ {x} /\ UNCHANGED named
     \/ \E x \in OfSort({"export"}) \ there : there' = there \cup {x} /\ UNCHANGED named
     \/ \E x \in OfSort({"workspace"}) \cap there : named' = named \ {x} /\ UNCHANGED there
  /\ UNCHANGED <<entries, doing, changed>>

LedgerNext ==
  \/ \E o \in Operators :
       \/ ReadToEdit(o) \/ ReadToDelete(o) \/ Save(o) \/ Delete(o)
       \/ Insert(o) \/ Switch(o) \/ SwitchAll(o) \/ Log(o)
  \/ Beside

------------------------------------------------------------------------------
Loose == OfSort({"template", "workspace", "session"})
Underway(x) == Cardinality({o \in Operators : doing[o].at = "log" /\ doing[o].thing = x})

\* services/superadminOps.service.ts: "Every mutation writes an AuditLog row", and
\* an operation that changed nothing does not, but for a delete beside another and
\* for ending all sessions.
LedgerHolds ==
  \A x \in Things :
    /\ changed[x] <= entries[x] + Underway(x)
    /\ x \notin Loose => entries[x] + Underway(x) = changed[x]

\* A workspace's own template is out of the console's reach, and nothing is deleted
\* whose name was another when the request read it.
ReachHolds ==
  /\ \A x \in OfSort({"own"}) : x \in there /\ changed[x] = 0
  /\ \A o \in Operators : doing[o].op = "delete" /\ doing[o].at = "log" => doing[o].name
==============================================================================
