---------------------------- MODULE FrozenLists -----------------------------
(***************************************************************************)
(* What frozen lists and compaction promise (VersionSet::AppendFrozenList, *)
(* Compacter::workRound): a Writer hands over its lists one after the      *)
(* other, and a compaction moves all that are in memory to disk in one     *)
(* step.  A list that is handed over late, while the version is full or    *)
(* gone, may get lost; so may all that one compaction could not save.      *)
(***************************************************************************)
EXTENDS Integers, Sequences, FiniteSets

CONSTANTS Writers, Ranks

VARIABLES
  memory,   \* per Writer, its frozen lists
  disk,     \* per Writer, the lists in tables
  late      \* lists that came late

vars == <<memory, disk, late>>

Nothing == [w \in Writers |-> <<>>]
Init == memory = Nothing /\ disk = Nothing /\ late = {}

Later(n, s) == \A i \in DOMAIN s : s[i] < n

handOver(w, n) ==
  /\ Later(n, disk[w]) /\ Later(n, memory[w])
  /\ memory' = [memory EXCEPT ![w] = Append(@, n)]
  /\ UNCHANGED <<disk, late>>

handOverLate(w, n) ==
  /\ Later(n, disk[w]) /\ Later(n, memory[w])
  /\ memory' \in {memory, [memory EXCEPT ![w] = Append(@, n)]}
  /\ late' = late \cup {<<w, n>>}
  /\ UNCHANGED disk

(* Of the lists in memory the late ones at the end may be left out.        *)
compact ==
  /\ memory' = Nothing
  /\ \E saved \in [Writers -> 0 .. Cardinality(Ranks)] :
       /\ \A w \in Writers :
            /\ saved[w] <= Len(memory[w])
            /\ \A i \in saved[w] + 1 .. Len(memory[w]) : <<w, memory[w][i]>> \in late
       /\ disk' = [w \in Writers |-> disk[w] \o SubSeq(memory[w], 1, saved[w])]
  /\ UNCHANGED late

compactionFails == memory' = Nothing /\ UNCHANGED <<disk, late>>

Next == \/ \E w \in Writers, n \in Ranks : handOver(w, n) \/ handOverLate(w, n)
        \/ compact \/ compactionFails

Spec == Init /\ [][Next]_vars
=============================================================================
