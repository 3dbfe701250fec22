--------------------------- MODULE MCTableBuilder ---------------------------
(* Every set of one to six out of nine keys: prefixes of one another, keys *)
(* that differ by one and by more, and keys of the largest byte.           *)
EXTENDS TableReader

Keys == {<<0>>, <<1>>, <<2>>, <<0, 0>>, <<0, 2>>, <<1, 0>>, <<1, 1>>, <<2, 0>>, <<2, 2>>}
MCKeySets == {S \in SUBSET Keys : Cardinality(S) \in 1 .. 6}
=============================================================================
