------------------------------ MODULE MCYangKV ------------------------------
(* Model values for checking YangKV with TLC.                              *)
EXTENDS YangKV, TLC

CONSTANTS k1, k2

(* All keys in one partition.                                              *)
OnePartition == [k \in Keys |-> 1]
Symmetry == Permutations(Clients) \cup Permutations(Keys)
=============================================================================
