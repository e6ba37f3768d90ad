----------------------------- MODULE MCRetention -----------------------------
EXTENDS Retention, TLC

CONSTANTS f1, r1, timer, member

MCOf == r1 :> f1
==============================================================================
