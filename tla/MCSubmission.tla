----------------------------- MODULE MCSubmission -----------------------------
(* Two names in each place spell the same letters. *)
EXTENDS Submission, TLC

CONSTANTS r1, r2, r3, w1, w2, f1, f2, s1, s2, s3

\* Everybody wants the last letters, so the next ones are the first.
SameLetters == [x \in Workspaces \cup Forms |-> Space - 1]
OneHome == [f \in Forms |-> w1]
TwoEach == s1 :> f1 @@ s2 :> f1 @@ s3 :> f2
==============================================================================
