----------------------------- MODULE MCIdentity -----------------------------
(* Identity on small instances. *)
EXTENDS Identity, TLC

CONSTANTS h1, h2, r1, r2, l1, l2, l3, e1, e2, ann, bob, c1, c2, c3, t1, t2, s1, s2

HolderOf == (e1 :> ann) @@ (e2 :> bob)
\* Requests are alike, and so are responses and tokens; an address goes with
\* its account.
Alike == Permutations(Hands) \cup Permutations(Replies) \cup Permutations(Links)
=============================================================================
