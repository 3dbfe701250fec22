---------------------------- MODULE MCQueueSearch ----------------------------
(* Model values and symmetry for checking QueueSearch with TLC.            *)
EXTENDS QueueSearch, TLC

Symmetry == Permutations(Clients) \cup Permutations(Keys)
=============================================================================
