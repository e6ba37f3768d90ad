-------------------------------- MODULE Storage --------------------------------
(* The storage counter in scenes, each with bounds of its own.  The run has     *)
(* three: requests of one account side by side (Exact), a workspace handed to   *)
(* another owner (Handover), and crashes, forms that move and the daily         *)
(* measurement (Repair).                                                        *)
EXTENDS Integers, FiniteSets

CONSTANTS
  Accounts, Rooms,                    \* accounts, and the workspaces they own
  Papers, Numbers,                    \* forms, and the numbers of the answers each may get
  Hands, Meters,                      \* requests and measurements
  Bytes, Least,                       \* sizes, and the least of them
  Nobody,
  Scenes                              \* what may happen, with its bounds

VARIABLES
  scene, size, place, holder, counter, req, task, crossed, met, used, begun, crashes, moves, transfers

\* Some of a set.
One(S) == {CHOOSE x \in S : TRUE}
Owned(owners, rooms) == {h \in [Rooms -> Accounts] : (\A w \in rooms : h[w] \in owners)
                                                     /\ \A w \in Rooms \ rooms : h[w] \in One(Accounts)}

Exact ==
  [holders |-> Owned(One(Accounts), Rooms), homes |-> [Papers -> One(Rooms)], handed |-> {},
   answers |-> Papers \X Numbers, requests |-> Hands, tasks |-> {}, sizes |-> Bytes,
   quota |-> 1, begins |-> 3, crashes |-> 0, moves |-> 0, transfers |-> 0]

Handover ==
  [holders |-> Owned(Accounts, One(Rooms)), homes |-> [Papers -> One(Rooms)], handed |-> One(Rooms),
   answers |-> Papers \X One(Numbers), requests |-> One(Hands), tasks |-> Meters, sizes |-> {Least},
   quota |-> 9, begins |-> 1, crashes |-> 0, moves |-> 0, transfers |-> 1]

Repair ==
  [holders |-> Owned(Accounts, Rooms), homes |-> [Papers -> Rooms], handed |-> {},
   answers |-> Papers \X One(Numbers), requests |-> One(Hands), tasks |-> One(Meters), sizes |-> {Least},
   quota |-> 9, begins |-> 1, crashes |-> 1, moves |-> 1, transfers |-> 0]

ThreeScenes == {Exact, Handover, Repair}

Counter == INSTANCE StorageCounter WITH
  Owners <- Accounts, Places <- Rooms, Forms <- Papers, Responses <- Papers \X Numbers,
  FormOf <- [r \in Papers \X Numbers |-> r[1]], Requests <- Hands, Tasks <- Meters,
  Sizes <- Bytes, Smallest <- Least

ASSUME StorageConstants == Counter!StorageAssumption

storageVars == <<scene, size, place, holder, counter, req, task, crossed, met, used, begun, crashes,
                 moves, transfers>>

\* Requests are served, measurements go on, and every account is measured every day.
Repairing(step) == scene = Repair /\ step
StorageSpec ==
  /\ Counter!Init /\ [][Counter!Next]_storageVars
  /\ \A q \in One(Hands) : WF_storageVars(Repairing(Counter!Serve(q)))
  /\ \A t \in One(Meters) : WF_storageVars(Repairing(Counter!Reconcile(t)))
  /\ \A o \in Accounts : SF_storageVars(Repairing(\E t \in Meters : Counter!Daily(t, o)))

\* Everything is of its type; an account at rest has its usage on its counter, however
\* requests and handovers interleave (a moved form is left to the repair); and the gates
\* keep what an account stores bounded (StorageCounter).
CounterHolds == Counter!CounterHolds

\* Whatever went wrong, the daily measurement repairs it (StorageCounter).
DriftRepaired ==
  <>[](scene = Repair /\ Counter!Active = {})
    => <>[](scene = Repair /\ \A o \in Accounts : counter[o] = Counter!Usage(o))
==============================================================================
