---------------------------- MODULE WriteAheadLog ----------------------------
(***************************************************************************)
(* What one partition promises of the sets it is given, with no ring, lock *)
(* or thread: numbers are drawn, each numbered entry is logged at most     *)
(* once, and the memtable receives the log's entries in the log's order    *)
(* with a bounded lag.  MessageQueue implements this specification.        *)
(***************************************************************************)
EXTENDS Integers, Sequences

CONSTANTS Keys, MaxSets, Backlog

VARIABLES next, log, memtable
vars == <<next, log, memtable>>

Entries(n) == [key : Keys, seq_num : 1 .. n, value_type : BOOLEAN]

Init == next = 1 /\ log = <<>> /\ memtable = <<>>

Draw ==
  /\ next <= MaxSets
  /\ next' = next + 1
  /\ UNCHANGED <<log, memtable>>

Record ==
  /\ Len(log) - Len(memtable) < Backlog
  /\ \E e \in Entries(next - 1) :
       /\ \A i \in DOMAIN log : log[i].seq_num # e.seq_num
       /\ log' = Append(log, e)
  /\ UNCHANGED <<next, memtable>>

Apply ==
  /\ Len(memtable) < Len(log)
  /\ memtable' = Append(memtable, log[Len(memtable) + 1])
  /\ UNCHANGED <<next, log>>

Next == Draw \/ Record \/ Apply

Spec == Init /\ [][Next]_vars
=============================================================================
