-------------------------- MODULE MCFeedbackSession --------------------------
(* A small instance of FeedbackSession for TLC. *)
EXTENDS FeedbackSession, TLC

CONSTANTS t1, t2

TabSymmetry == Permutations(Tabs)
===============================================================================
