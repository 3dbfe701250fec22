------------------------------ MODULE Recovery ------------------------------
(***************************************************************************)
(* What a run of the store leaves in its log files and what the next run   *)
(* makes of it.  Every run opens one new log per partition.  Before that   *)
(* partition's Writer thread exists, the constructor of MessageQueue reads *)
(* all the older logs with log::Reader and pushes their records into the   *)
(* ring; YangkvMain::init then sets idx_ above the numbers it has seen.    *)
(* The process may die between any two steps, in the middle of a record    *)
(* too, or the power may fail.  A record is its key and number; all keys   *)
(* are of one length and so are all values.                                *)
(***************************************************************************)
EXTENDS Integers, Sequences, FiniteSets

CONSTANTS
  kMaxWriter,   \* number of partitions
  Clients,
  Keys,         \* a key is its own strHash
  NoKey,
  kQueueSize,   \* slots of a ring
  Garbage,      \* numbers a torn record may be read as
  MaxSets,      \* bound on the sets of all runs together
  MaxCrashes    \* bound on the number of crashes

ASSUME RecoveryAssumption ==
  /\ kMaxWriter \in Nat \ {0} /\ kQueueSize \in Nat \ {0}
  /\ Keys \subseteq Nat /\ NoKey \notin Keys /\ Garbage \subseteq Nat
  /\ MaxSets \in Nat /\ MaxCrashes \in Nat

VARIABLES
  logs,      \* each partition's files: whole records, and a torn one at the end
  up,        \* "init" while YangkvMain::init runs, then "run"
  cur,       \* the partition init is constructing; kMaxWriter after the last
  file,      \* i of the constructor's loop, 0 before the new log is created
  offset,    \* records of that file read so far
  reading,   \* the entry ReadRecord returned and push has not stored
  buf_,      \* the key left in the buffer of each partition's old logs
  max_id_,   \* the largest number each partition's constructor has read
  queue_,    \* each ring from r_ptr to w_ptr - 1
  list_,     \* the entries each Writer has inserted in this run
  idx_,
  pc,        \* where each client is in setKey
  entry,     \* the record it pushes
  sets,      \* sets begun, all runs together
  crashes

initVars == <<up, cur, file, offset, reading, buf_, max_id_>>
clientVars == <<pc, entry, sets>>
vars == <<logs, initVars, queue_, list_, idx_, clientVars, crashes>>

Partitions == 0 .. kMaxWriter - 1
writerID(k) == k % kMaxWriter

Record == [key : Keys, seq_num : Nat]
NoRecord == [key |-> NoKey, seq_num |-> 0]
EmptyLog == [recs |-> <<>>, torn |-> NoRecord]

(* An entry in memory points to its key: to the client's bytes (buf 0) or  *)
(* into the buffer of the Reader of old log buf.                           *)
Entry == [key : Keys \cup {NoKey}, seq_num : Nat, buf : Nat]
NoEntry == [key |-> NoKey, seq_num |-> 0, buf |-> 0]
keyOf(p, e) == IF e.buf = 0 THEN e.key ELSE buf_[p][e.buf]

Larger(a, b) == IF a >= b THEN a ELSE b

(* The memory of a process at the start of init.                           *)
Init ==
  /\ logs = [p \in Partitions |-> <<>>]
  /\ up = "init" /\ cur = 0 /\ file = 0 /\ offset = 0 /\ reading = NoEntry
  /\ buf_ = [p \in Partitions |-> <<>>]
  /\ max_id_ = [p \in Partitions |-> 0]
  /\ queue_ = [p \in Partitions |-> <<>>]
  /\ list_ = [p \in Partitions |-> {}]
  /\ idx_ = 1
  /\ pc = [c \in Clients |-> "idle"]
  /\ entry = [c \in Clients |-> NoRecord]
  /\ sets = 0 /\ crashes = 0
-----------------------------------------------------------------------------
(* The constructor of partition cur's MessageQueue, called by init.        *)
Constructing(p) == up = "init" /\ cur = p
OldLogs(p) == 1 .. Len(logs[p]) - 1

(* getLogID takes the first number no file has.                            *)
newLog(p) ==
  /\ Constructing(p) /\ file = 0
  /\ logs' = [logs EXCEPT ![p] = Append(@, EmptyLog)]
  /\ buf_' = [buf_ EXCEPT ![p] = [i \in 1 .. Len(logs[p]) |-> NoKey]]
  /\ file' = 1
  /\ UNCHANGED <<up, cur, offset, reading, max_id_, queue_, list_, idx_,
                 clientVars, crashes>>

(* Variant that forgets the larger numbers read before.                    *)
decodeSmallest(p, k, n) ==
  /\ reading' = [key |-> NoKey, seq_num |-> n, buf |-> file]
  /\ buf_' = [buf_ EXCEPT ![p][file] = k]
  /\ max_id_' = [max_id_ EXCEPT ![p] = n]
  /\ offset' = offset + 1

(* ReadRecord decodes in place: key k goes to the buffer, the entry points *)
(* there.                                                                  *)
decode(p, k, n) ==
  /\ reading' = [key |-> NoKey, seq_num |-> n, buf |-> file]
  /\ buf_' = [buf_ EXCEPT ![p][file] = k]
  /\ max_id_' = [max_id_ EXCEPT ![p] = Larger(@, n)]
  /\ offset' = offset + 1

(* What was torn is completed with bytes left in the buffer: the key is    *)
(* the new one or another, the number anything.                            *)
ReadRecord(p) ==
  /\ Constructing(p) /\ file \in OldLogs(p) /\ reading = NoEntry
  /\ LET log == logs[p][file]
     IN \/ /\ offset < Len(log.recs)
           /\ LET r == log.recs[offset + 1] IN decode(p, r.key, r.seq_num)
        \/ /\ offset = Len(log.recs) /\ log.torn # NoRecord
           /\ \E k \in Keys, n \in Garbage \cup {log.torn.seq_num} : decode(p, k, n)
  /\ UNCHANGED <<logs, up, cur, file, queue_, list_, idx_, clientVars, crashes>>

(* Variant that ends a record early; end() is true when at most four bytes *)
(* are left.                                                               *)
endEarly(p) == offset + 1 >= Len(logs[p][file].recs) /\ logs[p][file].torn = NoRecord

end(p) == \/ offset = Len(logs[p][file].recs) /\ logs[p][file].torn = NoRecord
          \/ offset = Len(logs[p][file].recs) + 1

nextLog(p) ==
  /\ Constructing(p) /\ file \in OldLogs(p) /\ reading = NoEntry /\ end(p)
  /\ file' = file + 1 /\ offset' = 0
  /\ UNCHANGED <<logs, up, cur, reading, buf_, max_id_, queue_, list_, idx_,
                 clientVars, crashes>>

(* Variants one entry early and one late.                                  *)
isFullEarly(p) == Len(queue_[p]) >= kQueueSize - 1
isFullLate(p) == Len(queue_[p]) > kQueueSize
isFull(p) == Len(queue_[p]) = kQueueSize

(* push by the constructor logs nothing, ready_ being false, and sleeps    *)
(* while the ring is full.                                                 *)
replay(p) ==
  /\ Constructing(p) /\ reading # NoEntry /\ ~isFull(p)
  /\ queue_' = [queue_ EXCEPT ![p] = Append(@, reading)]
  /\ reading' = NoEntry
  /\ UNCHANGED <<logs, up, cur, file, offset, buf_, max_id_, list_, idx_,
                 clientVars, crashes>>

(* The constructor returns and init starts the partition's Writer.         *)
pthread_create(p) ==
  /\ Constructing(p) /\ file > 0 /\ file \notin OldLogs(p)
  /\ cur' = cur + 1 /\ file' = 0
  /\ UNCHANGED <<logs, up, offset, reading, buf_, max_id_, queue_, list_, idx_,
                 clientVars, crashes>>

(* The maximum init's last loop computes, over partitions that wrote       *)
(* numbers from one counter; a variant leaves the + 1 out.                 *)
nextIdExact(n) ==
  /\ n \in {max_id_[p] : p \in Partitions} \cup {1}
  /\ n >= 1 /\ \A p \in Partitions : n >= max_id_[p]

nextId(n) ==
  /\ n \in {max_id_[p] + 1 : p \in Partitions} \cup {1}
  /\ \A p \in Partitions : n >= max_id_[p] + 1

init ==
  /\ up = "init" /\ cur = kMaxWriter
  /\ nextId(idx_')
  /\ up' = "run"
  /\ UNCHANGED <<logs, cur, file, offset, reading, buf_, max_id_, queue_, list_,
                 clientVars, crashes>>
-----------------------------------------------------------------------------
setKey(c, k) ==
  /\ up = "run" /\ pc[c] = "idle" /\ sets < MaxSets
  /\ entry' = [entry EXCEPT ![c] = [key |-> k, seq_num |-> idx_]]
  /\ idx_' = idx_ + 1
  /\ sets' = sets + 1
  /\ pc' = [pc EXCEPT ![c] = "push"]
  /\ UNCHANGED <<logs, initVars, queue_, list_, crashes>>

(* c can take lock_ of its partition: nobody is between the record and the *)
(* ring.                                                                   *)
Logging(c) ==
  /\ pc[c] = "push"
  /\ \A d \in Clients :
       pc[d] = "store" => writerID(entry[d].key) # writerID(entry[c].key)

AddRecord(c) ==
  /\ Logging(c)
  /\ LET p == writerID(entry[c].key)
     IN logs' = [logs EXCEPT ![p][Len(logs[p])].recs = Append(@, entry[c])]
  /\ pc' = [pc EXCEPT ![c] = "store"]
  /\ UNCHANGED <<initVars, queue_, list_, idx_, entry, sets, crashes>>

push(c) ==
  LET p == writerID(entry[c].key)
  IN /\ pc[c] = "store" /\ ~isFull(p)
     /\ queue_' = [queue_ EXCEPT ![p] =
          Append(@, [key |-> entry[c].key, seq_num |-> entry[c].seq_num, buf |-> 0])]
     /\ pc' = [pc EXCEPT ![c] = "idle"]
     /\ entry' = [entry EXCEPT ![c] = NoRecord]
     /\ UNCHANGED <<logs, initVars, list_, idx_, sets, crashes>>

Started(p) == up = "run" \/ p < cur

(* A step of the Writer: the key is copied from where the entry points.    *)
mayInsertMessage(p) ==
  /\ Started(p) /\ queue_[p] # <<>>
  /\ LET e == Head(queue_[p])
     IN list_' = [list_ EXCEPT ![p] = @ \cup {[key |-> keyOf(p, e), seq_num |-> e.seq_num]}]
  /\ queue_' = [queue_ EXCEPT ![p] = Tail(@)]
  /\ UNCHANGED <<logs, initVars, idx_, clientVars, crashes>>

(* The next process starts with an empty memory.                           *)
restart ==
  /\ up' = "init" /\ cur' = 0 /\ file' = 0 /\ offset' = 0 /\ reading' = NoEntry
  /\ buf_' = [p \in Partitions |-> <<>>]
  /\ max_id_' = [p \in Partitions |-> 0]
  /\ queue_' = [p \in Partitions |-> <<>>]
  /\ list_' = [p \in Partitions |-> {}]
  /\ idx_' = 1
  /\ pc' = [c \in Clients |-> "idle"]
  /\ entry' = [c \in Clients |-> NoRecord]
  /\ crashes < MaxCrashes /\ crashes' = crashes + 1
  /\ UNCHANGED sets

(* The process dies.  Of the records that clients were writing, one per    *)
(* partition can be torn; one cut within its first four bytes is as good   *)
(* as not begun.                                                           *)
TornRecords(p) ==
  {entry[c] : c \in {d \in Clients : Logging(d) /\ writerID(entry[d].key) = p}}

crash ==
  /\ restart
  /\ \E torn \in [Partitions -> UNION {TornRecords(p) : p \in Partitions} \cup {NoRecord}] :
       /\ \A p \in Partitions : torn[p] \in TornRecords(p) \cup {NoRecord}
       /\ logs' = [p \in Partitions |->
            IF torn[p] = NoRecord THEN logs[p]
            ELSE [logs[p] EXCEPT ![Len(logs[p])].torn = torn[p]]]

(* The power fails.  No log is ever synced, so that each of them, those of *)
(* earlier runs too, may lose its end, sets that have returned included.   *)
(* The files themselves stay.                                              *)
Shortened(log) ==
  {log, [log EXCEPT !.torn = NoRecord]}
    \cup UNION {{[recs |-> SubSeq(log.recs, 1, n - 1), torn |-> t] : t \in {NoRecord, log.recs[n]}} :
                  n \in DOMAIN log.recs}
Left(p) ==
  {left \in [DOMAIN logs[p] -> UNION {Shortened(logs[p][i]) : i \in DOMAIN logs[p]}] :
     \A i \in DOMAIN logs[p] : left[i] \in Shortened(logs[p][i])}

powerLoss ==
  /\ restart
  /\ \E left \in [Partitions -> UNION {Left(p) : p \in Partitions}] :
       /\ \A p \in Partitions : left[p] \in Left(p)
       /\ logs' = left

MessageQueue(p) ==
  newLog(p) \/ ReadRecord(p) \/ nextLog(p) \/ replay(p) \/ pthread_create(p)
setting(c) == (\E k \in Keys : setKey(c, k)) \/ AddRecord(c) \/ push(c)

Next ==
  \/ \E p \in Partitions : MessageQueue(p)
  \/ init
  \/ \E c \in Clients : setting(c)
  \/ \E p \in Partitions : mayInsertMessage(p)
  \/ crash \/ powerLoss

Spec == Init /\ [][Next]_vars

(* The threads of a live process run; it need not crash.                   *)
FairSpec ==
  /\ Spec
  /\ WF_vars(init)
  /\ \A p \in Partitions : WF_vars(MessageQueue(p)) /\ WF_vars(mayInsertMessage(p))
-----------------------------------------------------------------------------
TypeOK ==
  /\ logs \in [Partitions -> Seq([recs : Seq(Record), torn : Record \cup {NoRecord}])]
  /\ up \in {"init", "run"}
  /\ cur \in 0 .. kMaxWriter
  /\ file \in Nat /\ offset \in Nat
  /\ reading \in Entry
  /\ buf_ \in [Partitions -> Seq(Keys \cup {NoKey})]
  /\ max_id_ \in [Partitions -> Nat]
  /\ queue_ \in [Partitions -> Seq(Entry)]
  /\ \A p \in Partitions : Len(queue_[p]) <= kQueueSize
  /\ list_ \in [Partitions -> SUBSET Record]
  /\ idx_ \in Nat
  /\ pc \in [Clients -> {"idle", "push", "store"}]
  /\ entry \in [Clients -> Record \cup {NoRecord}]
  /\ sets \in 0 .. MaxSets /\ crashes \in 0 .. MaxCrashes

Positions == {x \in Partitions \X (1 .. MaxCrashes + 1) \X (1 .. MaxSets) :
                x[2] \in DOMAIN logs[x[1]] /\ x[3] \in DOMAIN logs[x[1]][x[2]].recs}
recordAt(x) == logs[x[1]][x[2]].recs[x[3]]

(* No number is given to two records, in whichever runs and partitions     *)
(* they were written: the counter of a new run starts above every number   *)
(* of every log, also when a torn record was read as something else.       *)
NumbersAreUnique ==
  \A x, y \in Positions : recordAt(x).seq_num = recordAt(y).seq_num => x = y

Entries(p) == list_[p] \cup
  {[key |-> keyOf(p, queue_[p][i]), seq_num |-> queue_[p][i].seq_num] :
     i \in DOMAIN queue_[p]}

(* No recovered entry is newer than the snapshot of a get: getEntry would  *)
(* hide it.                                                                *)
RecoveredIsVisible ==
  up = "run" => \A p \in Partitions : \A e \in Entries(p) : e.seq_num < idx_

(* A partition whose Writer runs has an entry with the number of every     *)
(* record of its old logs, and the last record of each whole log under its *)
(* own key.                                                                *)
ReplayIsComplete ==
  \A p \in Partitions : Started(p) =>
    \A i \in 1 .. Len(logs[p]) - 1 :
      /\ \A j \in DOMAIN logs[p][i].recs :
           \E e \in Entries(p) : e.seq_num = logs[p][i].recs[j].seq_num
      /\ logs[p][i].torn = NoRecord /\ logs[p][i].recs # <<>> =>
           logs[p][i].recs[Len(logs[p][i].recs)] \in Entries(p)

(* init comes to its end if no partition's old logs hold more records than *)
(* its ring has slots: nobody empties a ring during its construction.      *)
RecordsToReplay(p) ==
  Cardinality({x \in Positions : x[1] = p}) +
  Cardinality({i \in DOMAIN logs[p] : logs[p][i].torn # NoRecord})
Fits == \A p \in Partitions : RecordsToReplay(p) <= kQueueSize
InitEndsIfFits == up = "init" /\ Fits ~> up = "run"
=============================================================================
