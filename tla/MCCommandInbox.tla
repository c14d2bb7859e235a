---------------------------- MODULE MCCommandInbox ----------------------------
(* Instances of CommandInbox.                                              *)
EXTENDS CommandInbox, TLC

Symmetry == Permutations(Calls) \cup Permutations(Loads)
=============================================================================
