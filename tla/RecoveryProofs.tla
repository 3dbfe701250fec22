--------------------------- MODULE RecoveryProofs ---------------------------
(***************************************************************************)
(* Proofs about Recovery for every number of partitions, clients, slots of *)
(* a ring, sets and crashes, and whatever a torn record is read as.        *)
(***************************************************************************)
EXTENDS Recovery, SequenceTheorems, TLAPS

-----------------------------------------------------------------------------
(* The inductive invariant.                                                *)

LogType == [recs : Seq(Record), torn : Record \cup {NoRecord}]
Recs(p, i) == logs[p][i].recs

(* p has created its new log in this run.                                  *)
Begun(p) == Started(p) \/ (cur = p /\ file > 0)

(* Where the constructors are; until init is over no new log has a record. *)
ProgressInv ==
  /\ up = "run" => cur = kMaxWriter
  /\ file > 0 => up = "init" /\ cur < kMaxWriter
  /\ offset > 0 =>
       /\ cur < kMaxWriter /\ file \in OldLogs(cur)
       /\ logs[cur][file].torn = NoRecord => offset <= Len(Recs(cur, file))
  /\ up = "init" => \A c \in Clients : pc[c] = "idle"
  /\ \A p \in Partitions :
       /\ Begun(p) => Len(logs[p]) >= 1 /\ Len(buf_[p]) = Len(logs[p]) - 1
       /\ Begun(p) /\ up = "init" => Recs(p, Len(logs[p])) = <<>>
       /\ ~Begun(p) => queue_[p] = <<>>
       /\ ~Started(p) => list_[p] = {}

(* What ReadRecord returned and every entry of a ring has a key, its own   *)
(* or that in the buffer it points to.                                     *)
ReadingInv ==
  reading # NoEntry =>
    /\ cur < kMaxWriter /\ file \in OldLogs(cur) /\ offset > 0
    /\ reading.key = NoKey /\ reading.buf = file
    /\ buf_[cur][file] \in Keys
    /\ reading.seq_num <= max_id_[cur]

HasKey(p, e) ==
  IF e.buf = 0 THEN e.key \in Keys
  ELSE e.buf \in 1 .. Len(buf_[p]) /\ buf_[p][e.buf] \in Keys
QueueInv == \A p \in Partitions : \A i \in 1 .. Len(queue_[p]) : HasKey(p, queue_[p][i])

(* No two records of all logs have one number, and clients hold numbers    *)
(* that no record has.                                                     *)
UniqueInv ==
  \A p, q \in Partitions : \A i \in 1 .. Len(logs[p]), k \in 1 .. Len(logs[q]) :
    \A j \in 1 .. Len(Recs(p, i)), l \in 1 .. Len(Recs(q, k)) :
      Recs(p, i)[j].seq_num = Recs(q, k)[l].seq_num => p = q /\ i = k /\ j = l
DrawnInv ==
  up = "run" =>
    \A p \in Partitions : \A i \in 1 .. Len(logs[p]) : \A j \in 1 .. Len(Recs(p, i)) :
      Recs(p, i)[j].seq_num < idx_

Unlogged(c) ==
  \A p \in Partitions : \A i \in 1 .. Len(logs[p]) : \A j \in 1 .. Len(Recs(p, i)) :
    Recs(p, i)[j].seq_num # entry[c].seq_num
ClientInv ==
  \A c \in Clients :
    /\ pc[c] # "idle" => entry[c] \in Record /\ entry[c].seq_num < idx_
    /\ pc[c] = "push" =>
         /\ Unlogged(c)
         /\ \A d \in Clients \ {c} :
              pc[d] = "push" => entry[d].seq_num # entry[c].seq_num

(* During init a partition's max_id_ bounds the records it has read and    *)
(* what it made of them; nextId takes the bound over from it.              *)
WasRead(p, i, j) == Started(p) \/ (cur = p /\ (i < file \/ (i = file /\ j <= offset)))
ReadInv ==
  up = "init" =>
    \A p \in Partitions : \A i \in OldLogs(p) : \A j \in 1 .. Len(Recs(p, i)) :
      WasRead(p, i, j) => Recs(p, i)[j].seq_num <= max_id_[p]

Below(p, n) == IF up = "init" THEN n <= max_id_[p] ELSE n < idx_
VisibleInv ==
  \A p \in Partitions :
    /\ \A i \in 1 .. Len(queue_[p]) : Below(p, queue_[p][i].seq_num)
    /\ \A e \in list_[p] : Below(p, e.seq_num)

(* A constructor has an entry for every record it read, which points to    *)
(* the buffer of its log; and the buffer holds the key read last.          *)
Holds(p, e) == reading = e \/ \E k \in 1 .. Len(queue_[p]) : queue_[p][k] = e
EntryOf(p, i, j) == [key |-> NoKey, seq_num |-> Recs(p, i)[j].seq_num, buf |-> i]
LogHeld(p, i) ==
  /\ \A j \in 1 .. Len(Recs(p, i)) :
       i < file \/ (i = file /\ j <= offset) => Holds(p, EntryOf(p, i, j))
  /\ i < file /\ logs[p][i].torn = NoRecord /\ Recs(p, i) # <<>> =>
       buf_[p][i] = Recs(p, i)[Len(Recs(p, i))].key
  /\ i = file /\ offset \in 1 .. Len(Recs(p, i)) => buf_[p][i] = Recs(p, i)[offset].key
ReplayInv ==
  \A p \in Partitions : Begun(p) /\ ~Started(p) => \A i \in OldLogs(p) : LogHeld(p, i)

IInv == /\ TypeOK /\ ProgressInv /\ ReadingInv /\ QueueInv /\ UniqueInv /\ DrawnInv /\ ClientInv
        /\ ReadInv /\ VisibleInv /\ ReplayInv /\ ReplayIsComplete
-----------------------------------------------------------------------------
(* What the invariant says of one partition.                               *)

LEMMA CurrentPartition ==
  ASSUME TypeOK
  PROVE  /\ kMaxWriter \in Nat \ {0} /\ cur \in Nat /\ file \in Nat /\ offset \in Nat
         /\ cur < kMaxWriter => cur \in Partitions
         /\ \A p \in Partitions : p \in Nat /\ p < kMaxWriter
  BY RecoveryAssumption DEF TypeOK, Partitions

LEMMA LogsAre ==
  ASSUME TypeOK, NEW p \in Partitions
  PROVE  /\ logs[p] \in Seq(LogType) /\ Len(logs[p]) \in Nat
         /\ \A i \in 1 .. Len(logs[p]) :
              /\ logs[p][i] \in LogType
              /\ Recs(p, i) \in Seq(Record) /\ Len(Recs(p, i)) \in Nat
              /\ \A j \in 1 .. Len(Recs(p, i)) :
                   /\ Recs(p, i)[j] \in Record
                   /\ Recs(p, i)[j].seq_num \in Nat /\ Recs(p, i)[j].key \in Keys
<1>1. logs[p] \in Seq(LogType)
  BY DEF TypeOK, LogType
<1>2. Len(logs[p]) \in Nat
  BY <1>1, LenProperties
<1>3. ASSUME NEW i \in 1 .. Len(logs[p])
      PROVE  /\ logs[p][i] \in LogType
             /\ Recs(p, i) \in Seq(Record) /\ Len(Recs(p, i)) \in Nat
             /\ \A j \in 1 .. Len(Recs(p, i)) :
                  /\ Recs(p, i)[j] \in Record
                  /\ Recs(p, i)[j].seq_num \in Nat /\ Recs(p, i)[j].key \in Keys
  <2>1. logs[p][i] \in LogType
    BY <1>1, ElementOfSeq
  <2> DEFINE r == Recs(p, i)
  <2>2. r \in Seq(Record)
    BY <2>1 DEF LogType, Recs
  <2> HIDE DEF r
  <2>3. Len(r) \in Nat /\ \A j \in 1 .. Len(r) : r[j] \in Record
    BY <2>2, LenProperties, ElementOfSeq
  <2>4. \A x \in Record : x.seq_num \in Nat /\ x.key \in Keys
    BY DEF Record
  <2> QED BY <2>1, <2>2, <2>3, <2>4 DEF r
<1> QED BY <1>1, <1>2, <1>3

LEMMA QueueIs ==
  ASSUME TypeOK, NEW p \in Partitions
  PROVE  /\ queue_[p] \in Seq(Entry) /\ Len(queue_[p]) \in Nat
         /\ \A i \in 1 .. Len(queue_[p]) :
              /\ queue_[p][i] \in Entry
              /\ queue_[p][i].seq_num \in Nat /\ queue_[p][i].buf \in Nat
         /\ max_id_[p] \in Nat
         /\ list_[p] \subseteq Record /\ \A e \in list_[p] : e.seq_num \in Nat
         /\ buf_[p] \in Seq(Keys \cup {NoKey}) /\ Len(buf_[p]) \in Nat
<1> DEFINE q == queue_[p]
           b == buf_[p]
<1>1. /\ q \in Seq(Entry) /\ max_id_[p] \in Nat /\ list_[p] \subseteq Record
      /\ b \in Seq(Keys \cup {NoKey})
  BY DEF TypeOK
<1>2. \A e \in list_[p] : e.seq_num \in Nat
  BY <1>1 DEF Record
<1> HIDE DEF q, b
<1>3. Len(q) \in Nat /\ Len(b) \in Nat /\ \A i \in 1 .. Len(q) : q[i] \in Entry
  BY <1>1, LenProperties, ElementOfSeq
<1>4. \A x \in Entry : x.seq_num \in Nat /\ x.buf \in Nat
  BY DEF Entry
<1> QED BY <1>1, <1>2, <1>3, <1>4 DEF q, b

LEMMA InitIInv == ASSUME Init PROVE IInv
<1> USE DEF Init
<1>1. kMaxWriter \in Nat \ {0} /\ \A p \in Partitions : p \in Nat
  BY RecoveryAssumption DEF Partitions
<1>2. NoEntry \in Entry /\ NoRecord.seq_num = 0
  BY DEF NoEntry, Entry, NoRecord
<1>3. TypeOK
  BY <1>1, <1>2, RecoveryAssumption DEF TypeOK
<1>4. \A p \in Partitions : ~Begun(p) /\ ~Started(p)
  BY <1>1 DEF Begun, Started
<1>5. ProgressInv /\ ReadingInv /\ QueueInv /\ VisibleInv
  BY <1>1, <1>4 DEF ProgressInv, ReadingInv, QueueInv, VisibleInv
<1>6. UniqueInv /\ DrawnInv /\ ClientInv /\ ReadInv
  BY DEF UniqueInv, DrawnInv, ClientInv, ReadInv, OldLogs
<1>7. ReplayInv /\ ReplayIsComplete
  BY <1>4 DEF ReplayInv, ReplayIsComplete
<1> QED BY <1>3, <1>5, <1>6, <1>7 DEF IInv

-----------------------------------------------------------------------------
(* Crashes.                                                                *)

(* No record is new, though some may be gone.                              *)
NoNewRecord ==
  \A p \in Partitions : \A i \in 1 .. Len(logs'[p]) : \A j \in 1 .. Len(logs'[p][i].recs) :
    /\ i \in 1 .. Len(logs[p]) /\ j \in 1 .. Len(logs[p][i].recs)
    /\ logs'[p][i].recs[j] = logs[p][i].recs[j]

LEMMA StaysUnique == ASSUME UniqueInv, NoNewRecord PROVE UniqueInv'
<1> SUFFICES ASSUME NEW p \in Partitions, NEW q \in Partitions,
                    NEW i \in 1 .. Len(logs'[p]), NEW k \in 1 .. Len(logs'[q]),
                    NEW j \in 1 .. Len(logs'[p][i].recs), NEW l \in 1 .. Len(logs'[q][k].recs),
                    logs'[p][i].recs[j].seq_num = logs'[q][k].recs[l].seq_num
             PROVE  p = q /\ i = k /\ j = l
  BY DEF UniqueInv, Recs
<1>1. /\ i \in 1 .. Len(logs[p]) /\ j \in 1 .. Len(logs[p][i].recs)
      /\ logs'[p][i].recs[j] = logs[p][i].recs[j]
  BY DEF NoNewRecord
<1>2. /\ k \in 1 .. Len(logs[q]) /\ l \in 1 .. Len(logs[q][k].recs)
      /\ logs'[q][k].recs[l] = logs[q][k].recs[l]
  BY DEF NoNewRecord
<1>3. logs[p][i].recs[j].seq_num = logs[q][k].recs[l].seq_num
  BY <1>1, <1>2
<1>4. /\ i \in 1 .. Len(logs[p]) /\ k \in 1 .. Len(logs[q])
      /\ j \in 1 .. Len(logs[p][i].recs) /\ l \in 1 .. Len(logs[q][k].recs)
  BY <1>1, <1>2
<1>5. \A x \in 1 .. Len(logs[p]), y \in 1 .. Len(logs[q]) :
         \A m \in 1 .. Len(logs[p][x].recs), n \in 1 .. Len(logs[q][y].recs) :
           logs[p][x].recs[m].seq_num = logs[q][y].recs[n].seq_num => p = q /\ x = y /\ m = n
  BY DEF UniqueInv, Recs
<1>6. \A m \in 1 .. Len(logs[p][i].recs), n \in 1 .. Len(logs[q][k].recs) :
           logs[p][i].recs[m].seq_num = logs[q][k].recs[n].seq_num => p = q /\ i = k /\ m = n
  BY ZenonT(40), <1>4, <1>5
<1> QED BY <1>3, <1>4, <1>6

LEMMA RestartIInv ==
  ASSUME IInv, restart, logs' \in [Partitions -> Seq(LogType)], NoNewRecord
  PROVE  IInv'
<1>1. kMaxWriter \in Nat \ {0} /\ \A p \in Partitions : p \in Nat
  BY RecoveryAssumption DEF Partitions
<1>2. TypeOK'
  <2>1. NoEntry \in Entry
    BY DEF NoEntry, Entry
  <2>2. crashes' \in 0 .. MaxCrashes /\ sets' \in 0 .. MaxSets
    BY RecoveryAssumption DEF IInv, TypeOK, restart
  <2>3. /\ buf_' \in [Partitions -> Seq(Keys \cup {NoKey})]
        /\ queue_' \in [Partitions -> Seq(Entry)]
        /\ \A p \in Partitions : Len(queue_'[p]) <= kQueueSize
    BY RecoveryAssumption DEF restart
  <2>4. /\ max_id_' \in [Partitions -> Nat] /\ list_' \in [Partitions -> SUBSET Record]
        /\ pc' \in [Clients -> {"idle", "push", "store"}]
        /\ entry' \in [Clients -> Record \cup {NoRecord}]
    BY DEF restart
  <2>5. /\ up' \in {"init", "run"} /\ cur' \in 0 .. kMaxWriter /\ file' \in Nat /\ offset' \in Nat
        /\ reading' \in Entry /\ idx_' \in Nat
    BY <1>1, <2>1 DEF restart
  <2> QED BY <2>2, <2>3, <2>4, <2>5 DEF TypeOK, LogType
<1>3. \A p \in Partitions : ~(up' = "run" \/ p < cur') /\ ~(cur' = p /\ file' > 0)
  BY <1>1 DEF restart
<1>4. ProgressInv' /\ ReadingInv' /\ QueueInv' /\ VisibleInv'
  BY <1>1, <1>3 DEF restart, ProgressInv, ReadingInv, QueueInv, VisibleInv, Begun, Started
<1>5. UniqueInv' /\ DrawnInv' /\ ClientInv'
  BY StaysUnique DEF IInv, restart, DrawnInv, ClientInv
<1>6. ReadInv' /\ ReplayInv' /\ ReplayIsComplete'
  <2>1. \A p \in Partitions : \A i \in 1 .. Len(logs'[p]) - 1 : i \in Int /\ ~(i < file') /\ i # file'
    BY DEF restart
  <2> QED BY <1>3, <2>1 DEF ReadInv, ReplayInv, ReplayIsComplete, WasRead, OldLogs, Begun, Started
<1> QED BY <1>2, <1>4, <1>5, <1>6 DEF IInv

LEMMA crashStep == ASSUME IInv, crash PROVE IInv'
<1>1. PICK torn \in [Partitions -> UNION {TornRecords(p) : p \in Partitions} \cup {NoRecord}] :
        /\ \A p \in Partitions : torn[p] \in TornRecords(p) \cup {NoRecord}
        /\ logs' = [p \in Partitions |->
             IF torn[p] = NoRecord THEN logs[p]
             ELSE [logs[p] EXCEPT ![Len(logs[p])].torn = torn[p]]]
  BY DEF crash
<1>2. TypeOK /\ restart
  BY DEF IInv, crash
<1>3. ASSUME NEW p \in Partitions
      PROVE  /\ logs'[p] \in Seq(LogType) /\ Len(logs'[p]) = Len(logs[p])
             /\ \A i \in 1 .. Len(logs[p]) : logs'[p][i].recs = logs[p][i].recs
  <2>1. CASE torn[p] = NoRecord
    BY <1>1, <1>2, <2>1, LogsAre
  <2>2. CASE torn[p] # NoRecord
    <3> DEFINE s == logs[p]
               n == Len(logs[p])
               l == [s[n] EXCEPT !.torn = torn[p]]
    <3>1. PICK c \in Clients : Logging(c) /\ torn[p] = entry[c]
      BY <1>1, <2>2 DEF TornRecords
    <3>2. pc[c] = "push" /\ up = "run"
      BY <1>2, <3>1 DEF Logging, IInv, ProgressInv, TypeOK
    <3>3. torn[p] \in Record /\ n \in Nat /\ n >= 1
      BY <1>2, <3>1, <3>2, LogsAre DEF IInv, ClientInv, ProgressInv, Begun, Started
    <3>4. s \in Seq(LogType) /\ n \in 1 .. Len(s) /\ s[n] \in LogType
      BY <1>2, <3>3, LogsAre
    <3>5. logs'[p] = [s EXCEPT ![n] = l]
      BY <1>1, <2>2
    <3>6. l \in LogType /\ l.recs = s[n].recs
      BY <3>3, <3>4 DEF LogType
    <3> HIDE DEF s, n, l
    <3>7. /\ [s EXCEPT ![n] = l] \in Seq(LogType) /\ Len([s EXCEPT ![n] = l]) = Len(s)
          /\ \A i \in 1 .. Len(s) : [s EXCEPT ![n] = l][i] = IF i = n THEN l ELSE s[i]
      BY <3>4, <3>6, ExceptSeq
    <3> QED BY <3>5, <3>6, <3>7 DEF s
  <2> QED BY <2>1, <2>2
<1>4. logs' \in [Partitions -> Seq(LogType)]
  BY <1>1, <1>3
<1>5. NoNewRecord
  BY <1>3 DEF NoNewRecord
<1> QED BY <1>2, <1>4, <1>5, RestartIInv

LEMMA ShortenedIs ==
  ASSUME NEW log \in LogType, NEW x \in Shortened(log)
  PROVE  /\ x \in LogType
         /\ \A j \in 1 .. Len(x.recs) : j \in 1 .. Len(log.recs) /\ x.recs[j] = log.recs[j]
<1> DEFINE r == log.recs
<1>1. r \in Seq(Record) /\ Len(r) \in Nat /\ DOMAIN r = 1 .. Len(r)
  <2>1. r \in Seq(Record)
    BY DEF LogType
  <2> HIDE DEF r
  <2> QED BY <2>1, LenProperties
<1>2. CASE x = log
  BY <1>2
<1>4. CASE x = [log EXCEPT !.torn = NoRecord]
  <2>1. x \in LogType /\ x.recs = log.recs
    BY <1>4 DEF LogType
  <2> QED BY <2>1
<1>3. CASE x # log /\ x # [log EXCEPT !.torn = NoRecord]
  <2>1. PICK n \in DOMAIN r : \E t \in {NoRecord, r[n]} :
          x = [recs |-> SubSeq(r, 1, n - 1), torn |-> t]
    BY <1>3 DEF Shortened
  <2> HIDE DEF r
  <2>2. n \in 1 .. Len(r) /\ r[n] \in Record
    BY <1>1, ElementOfSeq
  <2>3. /\ SubSeq(r, 1, n - 1) \in Seq(Record) /\ Len(SubSeq(r, 1, n - 1)) = n - 1
        /\ \A j \in 1 .. n - 1 : SubSeq(r, 1, n - 1)[j] = r[j]
    BY <1>1, <2>2, SMT
  <2>4. \A j \in 1 .. n - 1 : j \in 1 .. Len(r)
    BY <1>1, <2>2
  <2> QED BY <2>1, <2>2, <2>3, <2>4 DEF LogType, r
<1> QED BY <1>2, <1>3, <1>4

LEMMA powerLossStep == ASSUME IInv, powerLoss PROVE IInv'
<1>1. PICK left \in [Partitions -> UNION {Left(p) : p \in Partitions}] :
        /\ \A p \in Partitions : left[p] \in Left(p)
        /\ logs' = left
  BY DEF powerLoss
<1>2. TypeOK /\ restart
  BY DEF IInv, powerLoss
<1>3. ASSUME NEW p \in Partitions
      PROVE  /\ logs'[p] \in Seq(LogType)
             /\ \A i \in 1 .. Len(logs'[p]) : \A j \in 1 .. Len(logs'[p][i].recs) :
                  /\ i \in 1 .. Len(logs[p]) /\ j \in 1 .. Len(logs[p][i].recs)
                  /\ logs'[p][i].recs[j] = logs[p][i].recs[j]
  <2> DEFINE s == logs[p]
             l == logs'[p]
             n == Len(logs[p])
  <2>1. s \in Seq(LogType) /\ n \in Nat /\ n = Len(s) /\ l \in Left(p)
    BY <1>1, <1>2, LogsAre
  <2>2. DOMAIN s = 1 .. n
    <3> HIDE DEF s, n
    <3> QED BY <2>1, LenProperties
  <2>3. /\ DOMAIN l = 1 .. n /\ l = [i \in 1 .. n |-> l[i]]
        /\ \A i \in 1 .. n : l[i] \in Shortened(s[i])
    BY <2>1, <2>2 DEF Left
  <2>4. \A i \in 1 .. n : s[i] \in LogType
    BY <1>2, LogsAre
  <2> HIDE DEF s, n, l
  <2>5. \A i \in 1 .. n :
          /\ l[i] \in LogType
          /\ \A j \in 1 .. Len(l[i].recs) : j \in 1 .. Len(s[i].recs) /\ l[i].recs[j] = s[i].recs[j]
    BY <2>3, <2>4, ShortenedIs
  <2>6. l \in Seq(LogType) /\ Len(l) = n
    BY <2>1, <2>3, <2>5
  <2> QED BY <2>1, <2>5, <2>6 DEF s, l, n
<1>4. logs' \in [Partitions -> Seq(LogType)]
  <2>1. logs' \in [Partitions -> UNION {Left(p) : p \in Partitions}]
    BY <1>1
  <2> QED BY <1>3, <2>1
<1>5. NoNewRecord
  BY <1>3 DEF NoNewRecord
<1> QED BY <1>2, <1>4, <1>5, RestartIInv

-----------------------------------------------------------------------------
(* The steps of a constructor.                                             *)

(* What the runs property says of one partition, and when it goes on.      *)
Replayed(p) ==
  \A i \in 1 .. Len(logs[p]) - 1 :
    /\ \A j \in DOMAIN logs[p][i].recs :
         \E e \in Entries(p) : e.seq_num = logs[p][i].recs[j].seq_num
    /\ logs[p][i].torn = NoRecord /\ logs[p][i].recs # <<>> =>
         logs[p][i].recs[Len(logs[p][i].recs)] \in Entries(p)

LEMMA StaysReplayed ==
  ASSUME NEW p \in Partitions, Replayed(p), Len(logs'[p]) = Len(logs[p]),
         \A i \in OldLogs(p) : logs'[p][i] = logs[p][i],
         Entries(p) \subseteq Entries(p)'
  PROVE  Replayed(p)'
<1> SUFFICES ASSUME NEW i \in 1 .. Len(logs[p]) - 1
             PROVE  /\ \A j \in DOMAIN logs[p][i].recs :
                         \E e \in Entries(p)' : e.seq_num = logs[p][i].recs[j].seq_num
                    /\ logs[p][i].torn = NoRecord /\ logs[p][i].recs # <<>> =>
                         logs[p][i].recs[Len(logs[p][i].recs)] \in Entries(p)'
  BY DEF Replayed, OldLogs
<1> DEFINE E == Entries(p)
           F == Entries(p)'
           l == logs[p][i]
<1>1. /\ \A j \in DOMAIN l.recs : \E e \in E : e.seq_num = l.recs[j].seq_num
      /\ l.torn = NoRecord /\ l.recs # <<>> => l.recs[Len(l.recs)] \in E
  BY DEF Replayed
<1>2. E \subseteq F
  OBVIOUS
<1> HIDE DEF E, F, l
<1>3. /\ \A j \in DOMAIN l.recs : \E e \in F : e.seq_num = l.recs[j].seq_num
      /\ l.torn = NoRecord /\ l.recs # <<>> => l.recs[Len(l.recs)] \in F
  BY <1>1, <1>2
<1> QED BY <1>3 DEF F, l

LEMMA SameRecords ==
  ASSUME IInv, UNCHANGED <<logs, up, idx_, pc, entry>>
  PROVE  UniqueInv' /\ DrawnInv' /\ ClientInv'
<1>1. NoNewRecord
  BY DEF NoNewRecord
<1>2. UniqueInv'
  BY <1>1, StaysUnique DEF IInv
<1>3. DrawnInv'
  BY DEF IInv, DrawnInv, Recs
<1>4. ClientInv'
  BY DEF IInv, ClientInv, Unlogged, Recs
<1> QED BY <1>2, <1>3, <1>4

LEMMA SameEntries ==
  ASSUME NEW p \in Partitions, queue_'[p] = queue_[p], list_'[p] = list_[p], buf_'[p] = buf_[p]
  PROVE  Entries(p)' = Entries(p)
  BY DEF Entries, keyOf

LEMMA newLogStep == ASSUME IInv, NEW p \in Partitions, newLog(p) PROVE IInv'
<1> DEFINE s == logs[p]
           n == Len(logs[p])
           t == Append(s, EmptyLog)
           b == [i \in 1 .. n |-> NoKey]
<1>1. /\ TypeOK /\ up = "init" /\ cur = p /\ file = 0 /\ offset = 0 /\ reading = NoEntry
      /\ ~Begun(p) /\ ~Started(p) /\ queue_[p] = <<>> /\ list_[p] = {}
  <2>1. TypeOK /\ up = "init" /\ cur = p /\ file = 0
    BY DEF IInv, newLog, Constructing
  <2>2. offset = 0 /\ reading = NoEntry
    BY <2>1, CurrentPartition DEF IInv, ProgressInv, ReadingInv, OldLogs
  <2>3. ~Begun(p) /\ ~Started(p)
    BY <2>1, CurrentPartition DEF Begun, Started
  <2> QED BY <2>1, <2>2, <2>3 DEF IInv, ProgressInv
<1>2. /\ up' = "init" /\ cur' = p /\ file' = 1 /\ offset' = 0 /\ reading' = NoEntry
      /\ logs' = [logs EXCEPT ![p] = t] /\ buf_' = [buf_ EXCEPT ![p] = b]
      /\ UNCHANGED <<max_id_, queue_, list_, idx_, pc, entry, sets, crashes>>
  BY <1>1 DEF newLog, clientVars
<1>3. s \in Seq(LogType) /\ n \in Nat /\ EmptyLog \in LogType
  <2>1. EmptyLog \in LogType
    BY DEF EmptyLog, LogType
  <2> QED BY <1>1, <2>1, LogsAre
<1>4. /\ t \in Seq(LogType) /\ Len(t) = n + 1 /\ t[n + 1] = EmptyLog
      /\ \A i \in 1 .. n : t[i] = s[i]
  BY <1>3, AppendProperties
<1>5. b \in Seq(Keys \cup {NoKey}) /\ Len(b) = n
  BY <1>3
<1>6. /\ \A q \in Partitions \ {p} : logs'[q] = logs[q] /\ buf_'[q] = buf_[q]
      /\ logs'[p] = t /\ buf_'[p] = b
  BY <1>1, <1>2 DEF TypeOK
<1>7. kMaxWriter \in Nat \ {0} /\ \A q \in Partitions : q \in Nat /\ q < kMaxWriter
  BY <1>1, CurrentPartition
<1> HIDE DEF s, t, b
<1>8. TypeOK'
  BY <1>1, <1>2, <1>3, <1>4, <1>5, <1>6, <1>7 DEF TypeOK, LogType
<1>9. \A q \in Partitions : /\ Started(q)' <=> Started(q)
                            /\ Begun(q)' <=> Begun(q) \/ q = p
  BY <1>1, <1>2 DEF Started, Begun
<1>10. ProgressInv'
  <2>1. ASSUME NEW q \in Partitions
        PROVE  /\ Begun(q)' => Len(logs'[q]) >= 1 /\ Len(buf_'[q]) = Len(logs'[q]) - 1
               /\ Begun(q)' /\ up' = "init" => logs'[q][Len(logs'[q])].recs = <<>>
               /\ ~Begun(q)' => queue_'[q] = <<>>
               /\ ~Started(q)' => list_'[q] = {}
    <3>1. CASE q = p
      BY <1>1, <1>2, <1>3, <1>4, <1>5, <1>6, <3>1 DEF EmptyLog
    <3>2. CASE q # p
      BY <1>1, <1>2, <1>6, <1>9, <3>2 DEF IInv, ProgressInv, Recs
    <3> QED BY <3>1, <3>2
  <2>2. up = "init" => \A c \in Clients : pc[c] = "idle"
    BY DEF IInv, ProgressInv
  <2> QED BY <1>1, <1>2, <1>7, <2>1, <2>2 DEF ProgressInv, Recs
<1>11. ReadingInv'
  BY <1>2 DEF ReadingInv
<1>12. QueueInv' /\ VisibleInv'
  <2>1. ASSUME NEW q \in Partitions, NEW i \in 1 .. Len(queue_'[q])
        PROVE  HasKey(q, queue_[q][i])'
    <3>1. q # p
      BY <1>1, <1>2
    <3> QED BY <1>2, <1>6, <2>1, <3>1 DEF IInv, QueueInv, HasKey
  <2>2. VisibleInv'
    BY <1>1, <1>2 DEF IInv, VisibleInv, Below
  <2> QED BY <1>2, <2>1, <2>2 DEF QueueInv
<1>13. UniqueInv' /\ DrawnInv' /\ ClientInv'
  <2>1. NoNewRecord
    <3> SUFFICES ASSUME NEW q \in Partitions, NEW i \in 1 .. Len(logs'[q]),
                        NEW j \in 1 .. Len(logs'[q][i].recs)
                 PROVE  /\ i \in 1 .. Len(logs[q]) /\ j \in 1 .. Len(logs[q][i].recs)
                        /\ logs'[q][i].recs[j] = logs[q][i].recs[j]
      BY DEF NoNewRecord
    <3>1. CASE q # p
      BY <1>6, <3>1
    <3>2. CASE q = p
      <4>1. i # n + 1
        BY <1>4, <1>6, <3>2 DEF EmptyLog
      <4>2. i \in 1 .. n
        BY <1>3, <1>4, <1>6, <3>2, <4>1
      <4> QED BY <1>4, <1>6, <3>2, <4>2 DEF s
    <3> QED BY <3>1, <3>2
  <2>2. \A c \in Clients : pc'[c] = "idle"
    BY <1>1, <1>2 DEF IInv, ProgressInv
  <2> QED BY <1>2, <2>1, <2>2, StaysUnique DEF IInv, DrawnInv, ClientInv
<1>14. ReadInv'
  <2> SUFFICES ASSUME NEW q \in Partitions, NEW i \in 1 .. Len(logs'[q]) - 1,
                      NEW j \in 1 .. Len(logs'[q][i].recs), WasRead(q, i, j)'
               PROVE  logs'[q][i].recs[j].seq_num <= max_id_[q]
    BY <1>2 DEF ReadInv, OldLogs, Recs
  <2>1. q # p
    BY <1>1, <1>2, <1>9 DEF WasRead
  <2>2. WasRead(q, i, j)
    BY <1>1, <1>2, <1>9, <2>1 DEF WasRead
  <2> QED BY <1>1, <1>6, <2>1, <2>2 DEF IInv, ReadInv, OldLogs, Recs
<1>15. ReplayInv'
  <2> SUFFICES ASSUME NEW q \in Partitions, Begun(q)', ~Started(q)', NEW i \in OldLogs(q)'
               PROVE  LogHeld(q, i)'
    BY DEF ReplayInv
  <2>1. i \in Int /\ i >= 1
    BY DEF OldLogs
  <2>2. ~(i < file') /\ \A m : ~(offset' \in 1 .. m)
    BY <1>2, <2>1
  <2>3. \A m : \A j \in 1 .. m : ~(j <= offset')
    BY <1>2
  <2> QED BY <2>2, <2>3 DEF LogHeld
<1>16. ReplayIsComplete'
  <2> SUFFICES ASSUME NEW q \in Partitions, Started(q)'
               PROVE  Replayed(q)'
    BY DEF ReplayIsComplete, Replayed
  <2>1. q # p /\ Replayed(q)
    BY <1>1, <1>9 DEF IInv, ReplayIsComplete, Replayed
  <2>2. Entries(q)' = Entries(q)
    BY <1>2, <1>6, <2>1, SameEntries
  <2> QED BY <1>6, <2>1, <2>2, StaysReplayed
<1> QED BY <1>8, <1>10, <1>11, <1>12, <1>13, <1>14, <1>15, <1>16 DEF IInv

(* The partition a constructor works on.                                   *)
LEMMA Constructed ==
  ASSUME IInv, NEW p \in Partitions, Constructing(p), file > 0
  PROVE  /\ TypeOK /\ up = "init" /\ cur = p /\ Begun(p) /\ ~Started(p) /\ list_[p] = {}
         /\ Len(logs[p]) \in Nat /\ Len(logs[p]) >= 1 /\ Len(buf_[p]) = Len(logs[p]) - 1
         /\ p < kMaxWriter /\ p \in Nat /\ file \in Nat /\ offset \in Nat
         /\ \A q \in Partitions : Begun(q) /\ ~Started(q) => q = p
         /\ \A q \in Partitions : q \in Nat
<1>1. TypeOK /\ up = "init" /\ cur = p
  BY DEF IInv, Constructing
<1>2. p < kMaxWriter /\ p \in Nat /\ file \in Nat /\ offset \in Nat
  BY <1>1, CurrentPartition
<1>3. Begun(p) /\ ~Started(p)
  BY <1>1, <1>2 DEF Begun, Started
<1>4. /\ Len(logs[p]) \in Nat /\ Len(logs[p]) >= 1 /\ Len(buf_[p]) = Len(logs[p]) - 1
      /\ list_[p] = {}
  BY <1>1, <1>3, LogsAre DEF IInv, ProgressInv
<1>5. \A q \in Partitions : q \in Nat /\ (Begun(q) /\ ~Started(q) => q = p)
  BY <1>1, CurrentPartition DEF Begun
<1> QED BY <1>1, <1>2, <1>3, <1>4, <1>5

LEMMA ReadRecordStep == ASSUME IInv, NEW p \in Partitions, ReadRecord(p) PROVE IInv'
<1> DEFINE r == logs[p][file].recs
<1>1. /\ Constructing(p) /\ file \in OldLogs(p) /\ reading = NoEntry
      /\ TypeOK /\ file > 0
  BY DEF IInv, ReadRecord, OldLogs
<1>2. /\ up = "init" /\ cur = p /\ Begun(p) /\ ~Started(p) /\ list_[p] = {}
      /\ Len(logs[p]) \in Nat /\ Len(logs[p]) >= 1 /\ Len(buf_[p]) = Len(logs[p]) - 1
      /\ p < kMaxWriter /\ p \in Nat /\ file \in Nat /\ offset \in Nat
      /\ \A q \in Partitions : Begun(q) /\ ~Started(q) => q = p
  BY <1>1, Constructed
<1>3. file \in 1 .. Len(logs[p]) /\ file \in 1 .. Len(buf_[p]) /\ file # 0
  BY <1>1, <1>2 DEF OldLogs
<1>4. r \in Seq(Record) /\ Len(r) \in Nat /\ logs[p][file] \in LogType /\ r = Recs(p, file)
      /\ \A j \in 1 .. Len(r) : r[j].key \in Keys /\ r[j].seq_num \in Nat
  BY SMTT(30), <1>1, <1>3, LogsAre DEF Recs
<1>5. PICK k \in Keys, n \in Nat :
        /\ decode(p, k, n)
        /\ \/ offset < Len(r) /\ k = r[offset + 1].key /\ n = r[offset + 1].seq_num
           \/ offset = Len(r) /\ logs[p][file].torn # NoRecord
  <2>1. CASE /\ offset < Len(r)
             /\ decode(p, r[offset + 1].key, r[offset + 1].seq_num)
    <3>1. offset + 1 \in 1 .. Len(r)
      BY <1>2, <1>4, <2>1
    <3> HIDE DEF r
    <3> QED BY <1>4, <2>1, <3>1
  <2>2. CASE /\ offset = Len(r) /\ logs[p][file].torn # NoRecord
             /\ \E k \in Keys, n \in Garbage \cup {logs[p][file].torn.seq_num} : decode(p, k, n)
    <3>1. logs[p][file].torn.seq_num \in Nat
      BY <1>4, <2>2 DEF LogType, Record
    <3> QED BY <2>2, <3>1, RecoveryAssumption
  <2> QED BY <2>1, <2>2 DEF ReadRecord
<1> DEFINE e == [key |-> NoKey, seq_num |-> n, buf |-> file]
           b == [buf_[p] EXCEPT ![file] = k]
           m == Larger(max_id_[p], n)
<1>6. /\ reading' = e /\ offset' = offset + 1
      /\ buf_' = [buf_ EXCEPT ![p] = b] /\ max_id_' = [max_id_ EXCEPT ![p] = m]
      /\ UNCHANGED <<logs, up, cur, file, queue_, list_, idx_, pc, entry, sets, crashes>>
  BY <1>1, <1>5 DEF ReadRecord, decode, clientVars, TypeOK
<1>7. max_id_[p] \in Nat /\ m \in Nat /\ max_id_[p] <= m /\ n <= m
  BY <1>1, QueueIs DEF Larger
<1>8. /\ b \in Seq(Keys \cup {NoKey}) /\ Len(b) = Len(buf_[p])
      /\ \A i \in 1 .. Len(b) : b[i] = IF i = file THEN k ELSE buf_[p][i]
  <2> DEFINE x == buf_[p]
             S == Keys \cup {NoKey}
  <2>1. x \in Seq(S) /\ file \in 1 .. Len(x) /\ k \in S
    BY <1>1, <1>3, QueueIs
  <2> HIDE DEF x, S
  <2>2. /\ [x EXCEPT ![file] = k] \in Seq(S) /\ Len([x EXCEPT ![file] = k]) = Len(x)
        /\ \A i \in 1 .. Len(x) : [x EXCEPT ![file] = k][i] = IF i = file THEN k ELSE x[i]
    BY <2>1, ExceptSeq
  <2> QED BY <2>2 DEF x, S
<1>9. e \in Entry
  BY <1>2 DEF Entry
<1>10. /\ \A q \in Partitions \ {p} : buf_'[q] = buf_[q] /\ max_id_'[q] = max_id_[q]
       /\ buf_'[p] = b /\ max_id_'[p] = m
  BY <1>1, <1>6 DEF TypeOK
<1>11. e # NoEntry /\ e.key = NoKey /\ e.buf = file /\ e.seq_num = n
  BY <1>3 DEF NoEntry
<1> HIDE DEF e, b, m, r
<1>12. TypeOK'
  <2>1. buf_' \in [Partitions -> Seq(Keys \cup {NoKey})] /\ max_id_' \in [Partitions -> Nat]
    BY <1>1, <1>6, <1>7, <1>8 DEF TypeOK
  <2>2. /\ queue_' \in [Partitions -> Seq(Entry)] /\ list_' \in [Partitions -> SUBSET Record]
        /\ \A q \in Partitions : Len(queue_'[q]) <= kQueueSize
    BY <1>1, <1>6 DEF TypeOK
  <2>3. reading' \in Entry /\ offset' \in Nat
    BY <1>2, <1>6, <1>9
  <2>4. logs' \in [Partitions -> Seq([recs : Seq(Record), torn : Record \cup {NoRecord}])]
    BY <1>1, <1>6 DEF TypeOK
  <2>5. /\ up' \in {"init", "run"} /\ cur' \in 0 .. kMaxWriter /\ file' \in Nat
        /\ idx_' \in Nat /\ pc' \in [Clients -> {"idle", "push", "store"}]
        /\ entry' \in [Clients -> Record \cup {NoRecord}]
        /\ sets' \in 0 .. MaxSets /\ crashes' \in 0 .. MaxCrashes
    BY <1>1, <1>6 DEF TypeOK
  <2> QED BY <2>1, <2>2, <2>3, <2>4, <2>5 DEF TypeOK
<1>13. \A q \in Partitions : (Started(q)' <=> Started(q)) /\ (Begun(q)' <=> Begun(q))
  BY <1>6 DEF Started, Begun
<1>14. ProgressInv'
  <2>1. logs[p][file].torn = NoRecord => offset + 1 <= Len(r)
    BY <1>2, <1>4, <1>5
  <2>2. /\ up = "init" => \A c \in Clients : pc[c] = "idle"
        /\ \A q \in Partitions :
             /\ Begun(q) => Len(logs[q]) >= 1 /\ Len(buf_'[q]) = Len(logs[q]) - 1
             /\ Begun(q) /\ up = "init" => logs[q][Len(logs[q])].recs = <<>>
             /\ ~Begun(q) => queue_[q] = <<>>
             /\ ~Started(q) => list_[q] = {}
    BY <1>8, <1>10 DEF IInv, ProgressInv, Recs
  <2> QED BY <1>1, <1>2, <1>4, <1>6, <1>13, <2>1, <2>2 DEF ProgressInv, Recs, OldLogs
<1>15. ReadingInv'
  BY <1>1, <1>2, <1>3, <1>6, <1>7, <1>8, <1>10, <1>11 DEF ReadingInv, OldLogs
<1>16. QueueInv'
  <2> SUFFICES ASSUME NEW q \in Partitions, NEW i \in 1 .. Len(queue_[q])
               PROVE  IF queue_[q][i].buf = 0 THEN queue_[q][i].key \in Keys
                      ELSE /\ queue_[q][i].buf \in 1 .. Len(buf_'[q])
                           /\ buf_'[q][queue_[q][i].buf] \in Keys
    BY <1>6 DEF QueueInv, HasKey
  <2>1. HasKey(q, queue_[q][i])
    BY DEF IInv, QueueInv
  <2> QED BY <1>8, <1>10, <2>1 DEF HasKey
<1>17. UniqueInv' /\ DrawnInv' /\ ClientInv'
  BY <1>6, SameRecords
<1>18. ReadInv'
  <2> SUFFICES ASSUME NEW q \in Partitions, NEW i \in OldLogs(q), NEW j \in 1 .. Len(logs[q][i].recs),
                      Started(q) \/ (p = q /\ (i < file \/ (i = file /\ j <= offset + 1)))
               PROVE  logs[q][i].recs[j].seq_num <= max_id_'[q]
    BY <1>2, <1>6, <1>13 DEF ReadInv, OldLogs, Recs, WasRead
  <2>1. CASE WasRead(q, i, j)
    <3>1. logs[q][i].recs[j].seq_num <= max_id_[q]
      BY <1>2, <2>1 DEF IInv, ReadInv, Recs
    <3>2. logs[q][i].recs[j].seq_num \in Nat
      <4>1. i \in 1 .. Len(logs[q])
        BY <1>1, LogsAre DEF OldLogs
      <4> QED BY <1>1, <4>1, LogsAre DEF Recs
    <3> QED BY <1>7, <1>10, <3>1, <3>2
  <2>2. CASE ~WasRead(q, i, j)
    <3>1. q = p /\ i = file /\ j = offset + 1
      BY <1>2, <2>2 DEF WasRead
    <3>2. r[j].seq_num = n
      BY <1>2, <1>4, <1>5, <3>1 DEF r
    <3> QED BY <1>7, <1>10, <3>1, <3>2 DEF r
  <2> QED BY <2>1, <2>2
<1>19. VisibleInv'
  <2> SUFFICES ASSUME NEW q \in Partitions
               PROVE  /\ \A i \in 1 .. Len(queue_[q]) : queue_[q][i].seq_num <= max_id_'[q]
                      /\ \A x \in list_[q] : x.seq_num <= max_id_'[q]
    BY <1>2, <1>6 DEF VisibleInv, Below
  <2>1. /\ \A i \in 1 .. Len(queue_[q]) : queue_[q][i].seq_num <= max_id_[q]
        /\ \A x \in list_[q] : x.seq_num <= max_id_[q]
    BY <1>2 DEF IInv, VisibleInv, Below
  <2>2. /\ \A i \in 1 .. Len(queue_[q]) : queue_[q][i].seq_num \in Nat
        /\ \A x \in list_[q] : x.seq_num \in Nat
    BY <1>1, QueueIs
  <2> QED BY <1>7, <1>10, <2>1, <2>2
<1>20. ReplayInv'
  <2> SUFFICES ASSUME NEW q \in Partitions, Begun(q)', ~Started(q)', NEW i \in OldLogs(q)'
               PROVE  LogHeld(q, i)'
    BY DEF ReplayInv
  <2>1. /\ q = p /\ i \in 1 .. Len(b) /\ i # 0 /\ i \in Nat
        /\ logs'[q] = logs[p] /\ queue_'[q] = queue_[p] /\ buf_'[q] = b /\ LogHeld(p, i)
    <3>1. q = p /\ i \in OldLogs(p)
      BY <1>2, <1>6, <1>13 DEF OldLogs
    <3>2. LogHeld(p, i)
      BY <1>2, <3>1 DEF IInv, ReplayInv
    <3>3. i \in 1 .. Len(b) /\ i # 0 /\ i \in Nat
      BY <1>2, <1>8, <3>1 DEF OldLogs
    <3> QED BY <1>6, <1>10, <3>1, <3>2, <3>3
  <2>2. ASSUME NEW j \in 1 .. Len(logs[p][i].recs), i < file \/ (i = file /\ j <= offset + 1)
        PROVE  reading' = EntryOf(p, i, j) \/ \E x \in 1 .. Len(queue_[p]) : queue_[p][x] = EntryOf(p, i, j)
    <3>1. CASE i < file \/ (i = file /\ j <= offset)
      <4>1. Holds(p, EntryOf(p, i, j))
        BY <2>1, <3>1 DEF LogHeld, Recs
      <4>2. reading # EntryOf(p, i, j)
        BY <1>1, <2>1 DEF NoEntry, EntryOf
      <4> QED BY <4>1, <4>2 DEF Holds
    <3>2. CASE i = file /\ j = offset + 1
      <4>1. r[j].seq_num = n
        BY <1>2, <1>4, <1>5, <2>2, <3>2 DEF r
      <4> QED BY <1>6, <3>2, <4>1 DEF e, r, EntryOf, Recs
    <3> QED BY <1>2, <2>2, <3>1, <3>2
  <2>3. ASSUME i < file, logs[p][i].torn = NoRecord, logs[p][i].recs # <<>>
        PROVE  b[i] = logs[p][i].recs[Len(logs[p][i].recs)].key
    <3>1. b[i] = buf_[p][i]
      BY <1>2, <1>8, <2>1, <2>3
    <3> QED BY <2>1, <2>3, <3>1 DEF LogHeld, Recs
  <2>4. ASSUME i = file, offset + 1 \in 1 .. Len(logs[p][i].recs)
        PROVE  b[i] = logs[p][i].recs[offset + 1].key
    <3>1. r[offset + 1].key = k
      BY <1>2, <1>4, <1>5, <2>4 DEF r
    <3> QED BY <1>8, <2>1, <2>4, <3>1 DEF r
  <2> QED BY <1>6, <2>1, <2>2, <2>3, <2>4 DEF LogHeld, Holds, EntryOf, Recs
<1>21. ReplayIsComplete'
  <2> SUFFICES ASSUME NEW q \in Partitions, Started(q)'
               PROVE  Replayed(q)'
    BY DEF ReplayIsComplete, Replayed
  <2>1. q # p /\ Replayed(q)
    BY <1>2, <1>13 DEF IInv, ReplayIsComplete, Replayed
  <2>2. Entries(q)' = Entries(q)
    BY <1>6, <1>10, <2>1, SameEntries
  <2> QED BY <1>6, <2>1, <2>2, StaysReplayed
<1> QED BY <1>12, <1>14, <1>15, <1>16, <1>17, <1>18, <1>19, <1>20, <1>21 DEF IInv

LEMMA nextLogStep == ASSUME IInv, NEW p \in Partitions, nextLog(p) PROVE IInv'
<1> DEFINE r == logs[p][file].recs
<1>1. /\ Constructing(p) /\ file \in OldLogs(p) /\ reading = NoEntry /\ end(p)
      /\ TypeOK /\ file > 0
      /\ file' = file + 1 /\ offset' = 0
      /\ UNCHANGED <<logs, up, cur, reading, buf_, max_id_, queue_, list_, idx_, pc, entry, sets, crashes>>
  BY DEF IInv, nextLog, OldLogs, clientVars
<1>2. /\ up = "init" /\ cur = p /\ Begun(p) /\ ~Started(p)
      /\ Len(logs[p]) \in Nat /\ p < kMaxWriter /\ p \in Nat /\ file \in Nat /\ offset \in Nat
      /\ \A q \in Partitions : Begun(q) /\ ~Started(q) => q = p
  BY <1>1, Constructed
<1>3. Len(r) \in Nat
  <2>1. file \in 1 .. Len(logs[p])
    BY <1>1, <1>2 DEF OldLogs
  <2> QED BY <1>1, <2>1, LogsAre DEF Recs
<1>4. Len(r) <= offset /\ (logs[p][file].torn = NoRecord /\ r # <<>> => offset = Len(r) /\ offset \in 1 .. Len(r))
  <2>1. logs[p][file].torn = NoRecord /\ offset > 0 => offset <= Len(r)
    BY <1>2 DEF IInv, ProgressInv, Recs
  <2>2. Len(r) <= offset
    BY <1>1, <1>3 DEF end
  <2>3. r # <<>> => Len(r) # 0
    <3>1. r \in Seq(Record)
      <4>1. file \in 1 .. Len(logs[p])
        BY <1>1, <1>2 DEF OldLogs
      <4> QED BY <1>1, <4>1, LogsAre DEF Recs
    <3> HIDE DEF r
    <3> QED BY <3>1, EmptySeq
  <2> HIDE DEF r
  <2> QED BY <1>2, <1>3, <2>1, <2>2, <2>3
<1> HIDE DEF r
<1>5. \A q \in Partitions : (Started(q)' <=> Started(q)) /\ (Begun(q)' <=> Begun(q))
  BY <1>1, <1>2 DEF Started, Begun
<1>6. TypeOK' /\ ProgressInv' /\ ReadingInv' /\ QueueInv' /\ VisibleInv'
  <2>1. TypeOK'
    <3>1. file' \in Nat /\ offset' \in Nat
      BY <1>1, <1>2
    <3>2. UNCHANGED <<logs, up, cur, reading, buf_, max_id_, queue_, list_, idx_, pc, entry, sets, crashes>>
      BY <1>1
    <3>3. TypeOK
      BY <1>1
    <3> QED BY <3>1, <3>2, <3>3 DEF TypeOK
  <2>2. ProgressInv'
    BY <1>1, <1>2, <1>5 DEF IInv, ProgressInv, Recs
  <2>3. ReadingInv' /\ QueueInv' /\ VisibleInv'
    BY <1>1 DEF IInv, ReadingInv, QueueInv, VisibleInv, HasKey, Below
  <2> QED BY <2>1, <2>2, <2>3
<1>7. UniqueInv' /\ DrawnInv' /\ ClientInv'
  BY <1>1, SameRecords
<1>8. ReadInv'
  <2> SUFFICES ASSUME NEW q \in Partitions, NEW i \in OldLogs(q)', NEW j \in 1 .. Len(Recs(q, i)'),
                      WasRead(q, i, j)'
               PROVE  Recs(q, i)'[j].seq_num <= max_id_'[q]
    BY DEF ReadInv
  <2>1. i \in OldLogs(q) /\ i \in Nat /\ j \in 1 .. Len(Recs(q, i)) /\ j \in Nat
    BY <1>1 DEF OldLogs, Recs
  <2>2. Started(q) \/ (p = q /\ (i < file + 1 \/ (i = file + 1 /\ j <= 0)))
    BY <1>1, <1>2, <1>5 DEF WasRead
  <2>3. WasRead(q, i, j)
    BY <1>2, <1>3, <1>4, <2>1, <2>2 DEF WasRead, r, Recs
  <2>4. Recs(q, i)[j].seq_num <= max_id_[q]
    BY <1>2, <2>1, <2>3 DEF IInv, ReadInv
  <2> QED BY <1>1, <2>4 DEF Recs
<1>9. ReplayInv'
  <2> SUFFICES ASSUME NEW q \in Partitions, Begun(q)', ~Started(q)', NEW i \in OldLogs(q)'
               PROVE  LogHeld(q, i)'
    BY DEF ReplayInv
  <2>1. q = p /\ i \in OldLogs(p) /\ i \in Nat /\ i # 0
    BY <1>1, <1>2, <1>5 DEF OldLogs
  <2>2. LogHeld(p, i)
    BY <1>2, <2>1 DEF IInv, ReplayInv
  <2>3. ASSUME NEW j \in 1 .. Len(logs[p][i].recs), i < file + 1 \/ (i = file + 1 /\ j <= 0)
        PROVE  Holds(p, EntryOf(p, i, j))
    <3>1. i < file \/ (i = file /\ j <= offset)
      BY <1>2, <1>3, <1>4, <2>1, <2>3 DEF r
    <3> QED BY <2>2, <3>1 DEF LogHeld, Recs
  <2>4. ASSUME i < file + 1, logs[p][i].torn = NoRecord, logs[p][i].recs # <<>>
        PROVE  buf_[p][i] = logs[p][i].recs[Len(logs[p][i].recs)].key
    <3>1. CASE i < file
      BY <2>2, <2>4, <3>1 DEF LogHeld, Recs
    <3>2. CASE i = file
      BY <1>4, <2>2, <2>4, <3>2 DEF LogHeld, Recs, r
    <3> QED BY <1>2, <2>1, <2>4, <3>1, <3>2
  <2> QED BY <1>1, <2>1, <2>3, <2>4 DEF LogHeld, Holds, EntryOf, Recs
<1>10. ReplayIsComplete'
  <2> SUFFICES ASSUME NEW q \in Partitions, Started(q)'
               PROVE  Replayed(q)'
    BY DEF ReplayIsComplete, Replayed
  <2>1. Replayed(q)
    BY <1>5 DEF IInv, ReplayIsComplete, Replayed
  <2>2. Entries(q)' = Entries(q)
    BY <1>1, SameEntries
  <2> QED BY <1>1, <2>1, <2>2, StaysReplayed
<1> QED BY <1>6, <1>7, <1>8, <1>9, <1>10 DEF IInv

LEMMA replayStep == ASSUME IInv, NEW p \in Partitions, replay(p) PROVE IInv'
<1> DEFINE s == queue_[p]
           t == Append(s, reading)
<1>1. /\ Constructing(p) /\ reading # NoEntry /\ ~isFull(p) /\ TypeOK
      /\ cur = p /\ file \in OldLogs(p) /\ file > 0 /\ offset > 0
      /\ reading.key = NoKey /\ reading.buf = file
      /\ buf_[p][file] \in Keys /\ reading.seq_num <= max_id_[p]
      /\ queue_' = [queue_ EXCEPT ![p] = t] /\ reading' = NoEntry
      /\ UNCHANGED <<logs, up, cur, file, offset, buf_, max_id_, list_, idx_, pc, entry, sets, crashes>>
  BY DEF IInv, ReadingInv, replay, Constructing, OldLogs, clientVars
<1>2. /\ up = "init" /\ Begun(p) /\ ~Started(p)
      /\ Len(logs[p]) \in Nat /\ Len(buf_[p]) = Len(logs[p]) - 1
      /\ \A q \in Partitions : Begun(q) /\ ~Started(q) => q = p
  BY <1>1, Constructed
<1>3. s \in Seq(Entry) /\ Len(s) \in Nat /\ reading \in Entry
  BY <1>1, QueueIs DEF TypeOK
<1>4. /\ t \in Seq(Entry) /\ Len(t) = Len(s) + 1 /\ t[Len(s) + 1] = reading
      /\ \A i \in 1 .. Len(s) : t[i] = s[i]
  BY <1>3, AppendProperties
<1>5. /\ \A q \in Partitions \ {p} : queue_'[q] = queue_[q]
      /\ queue_'[p] = t
  BY <1>1 DEF TypeOK
<1>6. Len(s) + 1 <= kQueueSize
  <2>1. Len(s) <= kQueueSize /\ Len(s) # kQueueSize /\ kQueueSize \in Nat
    BY <1>1, RecoveryAssumption DEF TypeOK, isFull
  <2> QED BY <1>3, <2>1
<1> HIDE DEF s, t
<1>7. TypeOK'
  <2>1. queue_' \in [Partitions -> Seq(Entry)]
    BY <1>1, <1>4 DEF TypeOK
  <2>2. \A q \in Partitions : Len(queue_'[q]) <= kQueueSize
    BY <1>1, <1>4, <1>5, <1>6 DEF TypeOK
  <2>3. reading' \in Entry
    BY <1>1 DEF NoEntry, Entry
  <2> QED BY <1>1, <2>1, <2>2, <2>3 DEF TypeOK
<1>8. \A q \in Partitions : (Started(q)' <=> Started(q)) /\ (Begun(q)' <=> Begun(q))
  BY <1>1 DEF Started, Begun
<1>9. ProgressInv' /\ ReadingInv'
  <2>1. \A q \in Partitions : ~Begun(q) => queue_'[q] = <<>>
    BY <1>2, <1>5 DEF IInv, ProgressInv
  <2>2. ProgressInv'
    BY <1>1, <1>8, <2>1 DEF IInv, ProgressInv, Recs, OldLogs
  <2> QED BY <1>1, <2>2 DEF ReadingInv
<1>10. QueueInv'
  <2> SUFFICES ASSUME NEW q \in Partitions, NEW i \in 1 .. Len(queue_'[q])
               PROVE  HasKey(q, queue_'[q][i])
    BY <1>1 DEF QueueInv, HasKey
  <2>1. CASE q # p
    BY <1>5, <2>1 DEF IInv, QueueInv
  <2>2. CASE q = p /\ i \in 1 .. Len(s)
    BY <1>4, <1>5, <2>2 DEF IInv, QueueInv, s
  <2>3. CASE q = p /\ i = Len(s) + 1
    <3>1. HasKey(p, reading)
      BY <1>1, <1>2 DEF HasKey, OldLogs
    <3> QED BY <1>4, <1>5, <2>3, <3>1
  <2> QED BY <1>3, <1>4, <1>5, <2>1, <2>2, <2>3
<1>11. UniqueInv' /\ DrawnInv' /\ ClientInv' /\ ReadInv'
  BY <1>1, SameRecords DEF IInv, ReadInv, OldLogs, Recs, WasRead, Started
<1>12. VisibleInv'
  <2> SUFFICES ASSUME NEW q \in Partitions
               PROVE  /\ \A i \in 1 .. Len(queue_'[q]) : queue_'[q][i].seq_num <= max_id_[q]
                      /\ \A x \in list_[q] : x.seq_num <= max_id_[q]
    BY <1>1, <1>2 DEF VisibleInv, Below
  <2>1. /\ \A i \in 1 .. Len(queue_[q]) : queue_[q][i].seq_num <= max_id_[q]
        /\ \A x \in list_[q] : x.seq_num <= max_id_[q]
    BY <1>2 DEF IInv, VisibleInv, Below
  <2>2. ASSUME NEW i \in 1 .. Len(queue_'[q])
        PROVE  queue_'[q][i].seq_num <= max_id_[q]
    <3>1. CASE q # p
      BY <1>5, <2>1, <3>1
    <3>2. CASE q = p /\ i \in 1 .. Len(s)
      BY <1>4, <1>5, <2>1, <3>2 DEF s
    <3>3. CASE q = p /\ i = Len(s) + 1
      BY <1>1, <1>4, <1>5, <3>3
    <3> QED BY <1>3, <1>4, <1>5, <3>1, <3>2, <3>3
  <2> QED BY <2>1, <2>2
<1>13. ReplayInv'
  <2> SUFFICES ASSUME NEW q \in Partitions, Begun(q)', ~Started(q)', NEW i \in OldLogs(q)'
               PROVE  LogHeld(q, i)'
    BY DEF ReplayInv
  <2>1. q = p /\ i \in OldLogs(p)
    BY <1>1, <1>2, <1>8 DEF OldLogs
  <2>2. LogHeld(p, i)
    BY <1>2, <2>1 DEF IInv, ReplayInv
  <2>3. ASSUME NEW j \in 1 .. Len(logs[p][i].recs), i < file \/ (i = file /\ j <= offset)
        PROVE  \E k \in 1 .. Len(queue_'[p]) : queue_'[p][k] = EntryOf(p, i, j)
    <3>1. Holds(p, EntryOf(p, i, j))
      BY <2>2, <2>3 DEF LogHeld, Recs
    <3>2. CASE reading = EntryOf(p, i, j)
      <4>1. Len(s) + 1 \in 1 .. Len(t)
        BY <1>3, <1>4
      <4> QED BY <1>4, <1>5, <3>2, <4>1
    <3>3. CASE \E k \in 1 .. Len(s) : s[k] = EntryOf(p, i, j)
      <4>1. \A k \in 1 .. Len(s) : k \in 1 .. Len(t)
        BY <1>3, <1>4
      <4> QED BY <1>4, <1>5, <3>3, <4>1
    <3> QED BY <3>1, <3>2, <3>3 DEF Holds, s
  <2> QED BY <1>1, <2>1, <2>2, <2>3 DEF LogHeld, Holds, EntryOf, Recs
<1>14. ReplayIsComplete'
  <2> SUFFICES ASSUME NEW q \in Partitions, Started(q)'
               PROVE  Replayed(q)'
    BY DEF ReplayIsComplete, Replayed
  <2>1. q # p /\ Replayed(q)
    BY <1>2, <1>8 DEF IInv, ReplayIsComplete, Replayed
  <2>2. Entries(q)' = Entries(q)
    BY <1>1, <1>5, <2>1, SameEntries
  <2> QED BY <1>1, <2>1, <2>2, StaysReplayed
<1> QED BY <1>7, <1>9, <1>10, <1>11, <1>12, <1>13, <1>14 DEF IInv

LEMMA pthread_createStep == ASSUME IInv, NEW p \in Partitions, pthread_create(p) PROVE IInv'
<1>1. /\ Constructing(p) /\ file \notin OldLogs(p) /\ file > 0
      /\ cur' = cur + 1 /\ file' = 0
      /\ UNCHANGED <<logs, up, offset, reading, buf_, max_id_, queue_, list_, idx_, pc, entry, sets, crashes>>
  BY DEF pthread_create, clientVars
<1>2. /\ TypeOK /\ up = "init" /\ cur = p /\ Begun(p) /\ ~Started(p)
      /\ Len(logs[p]) \in Nat /\ p < kMaxWriter /\ p \in Nat /\ file \in Nat /\ offset \in Nat
      /\ \A q \in Partitions : Begun(q) /\ ~Started(q) => q = p
      /\ \A q \in Partitions : q \in Nat
  BY <1>1, Constructed
<1>3. kMaxWriter \in Nat
  BY RecoveryAssumption
<1>4. offset = 0 /\ reading = NoEntry /\ \A i \in OldLogs(p) : i < file /\ i \in Nat
  <2>1. offset = 0 /\ reading = NoEntry
    BY <1>1, <1>2 DEF IInv, ProgressInv, ReadingInv
  <2>2. \A i \in OldLogs(p) : i < file /\ i \in Nat
    BY <1>1, <1>2 DEF OldLogs
  <2> QED BY <2>1, <2>2
<1>5. \A q \in Partitions : (Started(q)' <=> Started(q) \/ q = p) /\ (Begun(q)' <=> Begun(q))
                            /\ (Begun(q)' <=> Started(q)')
  BY <1>1, <1>2 DEF Started, Begun
<1>6. TypeOK'
  <2>1. cur' \in 0 .. kMaxWriter /\ file' \in Nat
    BY <1>1, <1>2, <1>3
  <2>2. UNCHANGED <<logs, up, offset, reading, buf_, max_id_, queue_, list_, idx_, pc, entry, sets, crashes>>
    BY <1>1
  <2>3. TypeOK
    BY <1>2
  <2> QED BY <2>1, <2>2, <2>3 DEF TypeOK
<1>7. ProgressInv'
  <2>1. /\ up = "init" => \A c \in Clients : pc[c] = "idle"
        /\ \A q \in Partitions :
             /\ Begun(q) => Len(logs[q]) >= 1 /\ Len(buf_[q]) = Len(logs[q]) - 1
             /\ Begun(q) /\ up = "init" => Recs(q, Len(logs[q])) = <<>>
             /\ ~Begun(q) => queue_[q] = <<>>
             /\ ~Started(q) => list_[q] = {}
    BY DEF IInv, ProgressInv
  <2>2. up' = "init" /\ ~(file' > 0) /\ ~(offset' > 0)
    BY <1>1, <1>2, <1>4
  <2>3. \A c \in Clients : pc'[c] = "idle"
    BY <1>1, <1>2, <2>1
  <2>4. \A q \in Partitions :
          Begun(q)' => Len(logs'[q]) >= 1 /\ Len(buf_'[q]) = Len(logs'[q]) - 1
    BY <1>1, <1>5, <2>1
  <2>5. \A q \in Partitions : Begun(q)' => logs'[q][Len(logs'[q])].recs = <<>>
    BY <1>1, <1>2, <1>5, <2>1 DEF Recs
  <2>6. \A q \in Partitions : /\ ~Begun(q)' => queue_'[q] = <<>>
                              /\ ~Started(q)' => list_'[q] = {}
    BY <1>1, <1>5, <2>1
  <2>7. up' = "run" => cur' = kMaxWriter
    BY <2>2
  <2>8. file' > 0 => up' = "init" /\ cur' < kMaxWriter
    BY <2>2
  <2>9. ASSUME NEW q \in Partitions
        PROVE  /\ Begun(q)' => Len(logs'[q]) >= 1 /\ Len(buf_'[q]) = Len(logs'[q]) - 1
               /\ Begun(q)' /\ up' = "init" => logs'[q][Len(logs'[q])].recs = <<>>
               /\ ~Begun(q)' => queue_'[q] = <<>>
               /\ ~Started(q)' => list_'[q] = {}
    BY <2>4, <2>5, <2>6
  <2> QED BY <2>2, <2>3, <2>7, <2>8, <2>9 DEF ProgressInv, Recs
<1>8. ReadingInv' /\ QueueInv' /\ VisibleInv'
  BY <1>1, <1>4 DEF IInv, ReadingInv, QueueInv, VisibleInv, HasKey, Below
<1>9. UniqueInv' /\ DrawnInv' /\ ClientInv'
  BY <1>1, SameRecords
<1>10. ReadInv'
  <2> SUFFICES ASSUME NEW q \in Partitions, NEW i \in OldLogs(q)', NEW j \in 1 .. Len(Recs(q, i)'),
                      WasRead(q, i, j)'
               PROVE  Recs(q, i)'[j].seq_num <= max_id_'[q]
    BY DEF ReadInv
  <2>1. i \in OldLogs(q) /\ i \in Nat /\ i > 0 /\ j \in 1 .. Len(Recs(q, i)) /\ j \in Nat
    BY <1>1 DEF OldLogs, Recs
  <2>2. Started(q) \/ q = p
    BY <1>1, <1>5, <2>1 DEF WasRead
  <2>3. WasRead(q, i, j)
    BY <1>2, <1>4, <2>1, <2>2 DEF WasRead
  <2>4. Recs(q, i)[j].seq_num <= max_id_[q]
    BY <1>2, <2>1, <2>3 DEF IInv, ReadInv
  <2> QED BY <1>1, <2>4 DEF Recs
<1>11. ReplayInv'
  BY <1>5 DEF ReplayInv
<1>12. Replayed(p)
  <2> SUFFICES ASSUME NEW i \in 1 .. Len(logs[p]) - 1
               PROVE  /\ \A j \in DOMAIN logs[p][i].recs :
                           \E e \in Entries(p) : e.seq_num = logs[p][i].recs[j].seq_num
                      /\ logs[p][i].torn = NoRecord /\ logs[p][i].recs # <<>> =>
                           logs[p][i].recs[Len(logs[p][i].recs)] \in Entries(p)
    BY DEF Replayed
  <2> DEFINE r == logs[p][i].recs
  <2>1. i \in OldLogs(p) /\ i < file /\ i \in Nat /\ i # 0 /\ i \in 1 .. Len(logs[p])
    BY <1>2, <1>4 DEF OldLogs
  <2>2. LogHeld(p, i)
    BY <1>2, <2>1 DEF IInv, ReplayInv
  <2>3. r \in Seq(Record) /\ Len(r) \in Nat /\ r = Recs(p, i)
    BY <1>2, <2>1, LogsAre DEF Recs
  <2>4. ASSUME NEW j \in 1 .. Len(r)
        PROVE  [key |-> buf_[p][i], seq_num |-> r[j].seq_num] \in Entries(p)
    <3> DEFINE x == EntryOf(p, i, j)
    <3>1. Holds(p, x)
      BY <2>1, <2>2, <2>4 DEF LogHeld, Recs
    <3>2. x.buf = i /\ x.seq_num = r[j].seq_num
      BY DEF EntryOf, Recs
    <3>3. reading # x
      BY <1>4, <2>1, <3>2 DEF NoEntry
    <3>4. PICK k \in 1 .. Len(queue_[p]) : queue_[p][k] = x
      BY <3>1, <3>3 DEF Holds
    <3>5. k \in DOMAIN queue_[p]
      <4> DEFINE s == queue_[p]
      <4>1. s \in Seq(Entry) /\ k \in 1 .. Len(s)
        BY <1>2, QueueIs
      <4> HIDE DEF s
      <4>2. k \in DOMAIN s
        BY <4>1, LenProperties
      <4> QED BY <4>2 DEF s
    <3>6. keyOf(p, queue_[p][k]) = buf_[p][i]
      BY <2>1, <3>2, <3>4 DEF keyOf
    <3> QED BY <3>2, <3>4, <3>5, <3>6 DEF Entries
  <2>5. DOMAIN r = 1 .. Len(r) /\ (r # <<>> => Len(r) \in 1 .. Len(r))
    <3> HIDE DEF r
    <3> QED BY <2>3, LenProperties, EmptySeq
  <2>6. \A j \in DOMAIN r : \E e \in Entries(p) : e.seq_num = r[j].seq_num
    <3> SUFFICES ASSUME NEW j \in DOMAIN r PROVE \E e \in Entries(p) : e.seq_num = r[j].seq_num
      OBVIOUS
    <3> DEFINE x == [key |-> buf_[p][i], seq_num |-> r[j].seq_num]
    <3>1. x \in Entries(p)
      BY <2>4, <2>5
    <3> QED BY <3>1
  <2>7. ASSUME logs[p][i].torn = NoRecord, r # <<>> PROVE r[Len(r)] \in Entries(p)
    <3>1. r[Len(r)] \in Record
      <4> HIDE DEF r
      <4> QED BY <2>3, <2>5, <2>7, ElementOfSeq
    <3>2. r[Len(r)].key = buf_[p][i]
      BY <2>1, <2>2, <2>7 DEF LogHeld, Recs
    <3>3. [key |-> buf_[p][i], seq_num |-> r[Len(r)].seq_num] \in Entries(p)
      BY <2>4, <2>5, <2>7
    <3> DEFINE y == r[Len(r)]
    <3>4. y = [key |-> y.key, seq_num |-> y.seq_num]
      <4>1. y \in Record
        BY <3>1
      <4> HIDE DEF y
      <4> QED BY <4>1 DEF Record
    <3> QED BY <3>2, <3>3, <3>4
  <2> QED BY <2>6, <2>7
<1>13. ReplayIsComplete'
  <2> SUFFICES ASSUME NEW q \in Partitions, Started(q)'
               PROVE  Replayed(q)'
    BY DEF ReplayIsComplete, Replayed
  <2>1. Replayed(q)
    <3>1. Started(q) => Replayed(q)
      BY DEF IInv, ReplayIsComplete, Replayed
    <3> QED BY <1>5, <1>12, <3>1
  <2>2. Entries(q)' = Entries(q)
    BY <1>1, SameEntries
  <2> QED BY <1>1, <2>1, <2>2, StaysReplayed
<1> QED BY <1>6, <1>7, <1>8, <1>9, <1>10, <1>11, <1>13 DEF IInv

(* Every old record is at most its partition's max_id_ when init is over,  *)
(* and no new log has one yet: what nextId chooses is above them all.      *)
LEMMA initStep == ASSUME IInv, init PROVE IInv'
<1>1. /\ TypeOK /\ up = "init" /\ cur = kMaxWriter /\ up' = "run" /\ nextId(idx_')
      /\ UNCHANGED <<logs, cur, file, offset, reading, buf_, max_id_, queue_, list_, pc, entry, sets, crashes>>
  BY DEF IInv, init, clientVars
<1>2. kMaxWriter \in Nat /\ \A p \in Partitions : p \in Nat /\ p < kMaxWriter
  BY <1>1, CurrentPartition
<1>3. \A p \in Partitions : Started(p) /\ Started(p)' /\ Begun(p) /\ Begun(p)'
  BY <1>1, <1>2 DEF Started, Begun
<1>4. idx_' \in Nat /\ \A p \in Partitions : max_id_[p] \in Nat /\ max_id_[p] < idx_'
  <2>1. \A p \in Partitions : max_id_[p] \in Nat
    BY <1>1 DEF TypeOK
  <2>2. idx_' \in {max_id_[p] + 1 : p \in Partitions} \cup {1}
    BY <1>1 DEF nextId
  <2>3. idx_' \in Nat
    BY <2>1, <2>2
  <2>4. \A p \in Partitions : idx_' >= max_id_[p] + 1
    BY <1>1 DEF nextId
  <2> QED BY <2>1, <2>3, <2>4
<1>5. TypeOK'
  <2>1. TypeOK /\ up' = "run" /\ idx_' \in Nat
    BY <1>1, <1>4
  <2>2. UNCHANGED <<logs, cur, file, offset, reading, buf_, max_id_, queue_, list_, pc, entry, sets, crashes>>
    BY <1>1
  <2> QED BY <2>1, <2>2 DEF TypeOK
<1>6. ProgressInv' /\ ReadingInv'
  <2>1. ProgressInv /\ ReadingInv /\ ~(cur < kMaxWriter) /\ file \in Nat /\ offset \in Nat
    BY <1>1, <1>2 DEF IInv, TypeOK
  <2>2. ~(file > 0) /\ ~(offset > 0) /\ reading = NoEntry
    BY <2>1 DEF ProgressInv, ReadingInv
  <2>3. \A p \in Partitions : Len(logs[p]) >= 1 /\ Len(buf_[p]) = Len(logs[p]) - 1
    BY <1>3, <2>1 DEF ProgressInv
  <2> QED BY <1>1, <1>3, <2>2, <2>3 DEF ProgressInv, ReadingInv
<1>7. QueueInv'
  BY <1>1 DEF IInv, QueueInv, HasKey
<1>8. UniqueInv'
  <2>1. NoNewRecord
    BY <1>1 DEF NoNewRecord
  <2> QED BY <2>1, StaysUnique DEF IInv
<1>9. DrawnInv'
  <2> SUFFICES ASSUME NEW p \in Partitions, NEW i \in 1 .. Len(logs[p]), NEW j \in 1 .. Len(Recs(p, i))
               PROVE  Recs(p, i)[j].seq_num < idx_'
    BY <1>1 DEF DrawnInv, Recs
  <2>1. /\ Len(logs[p]) \in Nat /\ Recs(p, i)[j].seq_num \in Nat
    BY <1>1, LogsAre
  <2>2. i # Len(logs[p])
    BY <1>1, <1>3 DEF IInv, ProgressInv
  <2>3. i \in OldLogs(p) /\ WasRead(p, i, j)
    BY <1>3, <2>1, <2>2 DEF OldLogs, WasRead
  <2>4. Recs(p, i)[j].seq_num <= max_id_[p]
    BY <1>1, <2>3 DEF IInv, ReadInv
  <2> QED BY <1>4, <2>1, <2>4
<1>10. ClientInv'
  BY <1>1 DEF IInv, ProgressInv, ClientInv
<1>11. ReadInv' /\ ReplayInv'
  BY <1>1, <1>3 DEF ReadInv, ReplayInv
<1>12. VisibleInv'
  <2> SUFFICES ASSUME NEW p \in Partitions
               PROVE  /\ \A i \in 1 .. Len(queue_[p]) : queue_[p][i].seq_num < idx_'
                      /\ \A e \in list_[p] : e.seq_num < idx_'
    BY <1>1 DEF VisibleInv, Below
  <2>1. /\ \A i \in 1 .. Len(queue_[p]) : queue_[p][i].seq_num <= max_id_[p]
        /\ \A e \in list_[p] : e.seq_num <= max_id_[p]
    BY <1>1 DEF IInv, VisibleInv, Below
  <2>2. /\ \A i \in 1 .. Len(queue_[p]) : queue_[p][i].seq_num \in Nat
        /\ \A e \in list_[p] : e.seq_num \in Nat
    BY <1>1, QueueIs
  <2> QED BY <1>4, <2>1, <2>2
<1>13. ReplayIsComplete'
  <2> SUFFICES ASSUME NEW q \in Partitions
               PROVE  Replayed(q)'
    BY DEF ReplayIsComplete, Replayed
  <2>1. Replayed(q)
    BY <1>3 DEF IInv, ReplayIsComplete, Replayed
  <2>2. Entries(q)' = Entries(q)
    BY <1>1, SameEntries
  <2> QED BY <1>1, <2>1, <2>2, StaysReplayed
<1> QED BY <1>5, <1>6, <1>7, <1>8, <1>9, <1>10, <1>11, <1>12, <1>13 DEF IInv

-----------------------------------------------------------------------------
(* The steps of clients and Writers.                                       *)

LEMMA PartitionOf == ASSUME NEW k \in Keys PROVE writerID(k) \in Partitions
<1>1. k \in Nat /\ kMaxWriter \in Nat \ {0}
  BY RecoveryAssumption
<1>2. k % kMaxWriter \in 0 .. kMaxWriter - 1
  BY <1>1, SMT
<1> QED BY <1>2 DEF writerID, Partitions

(* After init every constructor is done.                                   *)
LEMMA Running ==
  ASSUME IInv, up = "run"
  PROVE  /\ TypeOK /\ cur = kMaxWriter /\ ~(cur < kMaxWriter) /\ ~(file > 0) /\ ~(offset > 0)
         /\ reading = NoEntry
         /\ \A p \in Partitions : Started(p) /\ Begun(p) /\ Replayed(p)
         /\ \A p \in Partitions : Len(logs[p]) >= 1 /\ Len(buf_[p]) = Len(logs[p]) - 1
<1>1. TypeOK /\ cur = kMaxWriter /\ \A p \in Partitions : Started(p) /\ Begun(p)
  BY DEF IInv, ProgressInv, Started, Begun
<1>2. ~(cur < kMaxWriter) /\ ~(file > 0) /\ ~(offset > 0) /\ reading = NoEntry
  <2>1. ~(cur < kMaxWriter)
    BY <1>1, CurrentPartition
  <2> QED BY <2>1 DEF IInv, ProgressInv, ReadingInv
<1>3. \A p \in Partitions : Replayed(p)
  BY <1>1 DEF IInv, ReplayIsComplete, Replayed
<1> QED BY <1>1, <1>2, <1>3 DEF IInv, ProgressInv

LEMMA setKeyStep == ASSUME IInv, NEW c \in Clients, NEW k \in Keys, setKey(c, k) PROVE IInv'
<1> DEFINE e == [key |-> k, seq_num |-> idx_]
<1>1. /\ up = "run" /\ pc[c] = "idle" /\ sets < MaxSets /\ TypeOK
      /\ entry' = [entry EXCEPT ![c] = e] /\ idx_' = idx_ + 1 /\ sets' = sets + 1
      /\ pc' = [pc EXCEPT ![c] = "push"]
      /\ UNCHANGED <<logs, up, cur, file, offset, reading, buf_, max_id_, queue_, list_, crashes>>
  BY DEF IInv, setKey, initVars
<1>2. idx_ \in Nat /\ sets \in 0 .. MaxSets /\ MaxSets \in Nat /\ e \in Record /\ e.seq_num = idx_
  BY <1>1, RecoveryAssumption DEF TypeOK, Record
<1>3. /\ \A d \in Clients \ {c} : pc'[d] = pc[d] /\ entry'[d] = entry[d]
      /\ pc'[c] = "push" /\ entry'[c] = e
  BY <1>1 DEF TypeOK
<1> HIDE DEF e
<1>4. TypeOK'
  <2>1. /\ idx_' \in Nat /\ sets' \in 0 .. MaxSets
        /\ pc' \in [Clients -> {"idle", "push", "store"}]
        /\ entry' \in [Clients -> Record \cup {NoRecord}]
    BY <1>1, <1>2 DEF TypeOK
  <2>2. TypeOK /\ UNCHANGED <<logs, up, cur, file, offset, reading, buf_, max_id_, queue_, list_, crashes>>
    BY <1>1
  <2> QED BY <2>1, <2>2 DEF TypeOK
<1>5. ProgressInv'
  BY <1>1, Running DEF ProgressInv, IInv, Recs, Begun, Started
<1>6. ReadingInv' /\ QueueInv' /\ ReadInv' /\ ReplayInv'
  BY <1>1, Running DEF IInv, ReadingInv, QueueInv, HasKey, ReadInv, ReplayInv, Started
<1>7. UniqueInv'
  <2>1. NoNewRecord
    BY <1>1 DEF NoNewRecord
  <2> QED BY <2>1, StaysUnique DEF IInv
<1>8. \A p \in Partitions : \A i \in 1 .. Len(logs[p]) : \A j \in 1 .. Len(Recs(p, i)) :
        Recs(p, i)[j].seq_num \in Nat /\ Recs(p, i)[j].seq_num < idx_
  BY <1>1, LogsAre DEF IInv, DrawnInv
<1>9. DrawnInv'
  <2> SUFFICES ASSUME NEW p \in Partitions, NEW i \in 1 .. Len(logs'[p]), NEW j \in 1 .. Len(logs'[p][i].recs)
               PROVE  logs'[p][i].recs[j].seq_num < idx_'
    BY DEF DrawnInv, Recs
  <2>1. /\ i \in 1 .. Len(logs[p]) /\ j \in 1 .. Len(Recs(p, i))
        /\ logs'[p][i].recs[j] = Recs(p, i)[j]
    BY <1>1 DEF Recs
  <2> DEFINE m == Recs(p, i)[j].seq_num
  <2>2. m \in Nat /\ m < idx_
    BY <1>8, <2>1
  <2>3. logs'[p][i].recs[j].seq_num = m
    BY <2>1
  <2> HIDE DEF m
  <2>4. m < idx_ + 1
    BY <1>2, <2>2
  <2> QED BY <1>1, <2>3, <2>4
<1>10. \A d \in Clients : pc[d] # "idle" =>
         entry[d] \in Record /\ entry[d].seq_num \in Nat /\ entry[d].seq_num < idx_
  BY DEF IInv, ClientInv, Record
<1>11. ClientInv'
  <2> SUFFICES ASSUME NEW d \in Clients, pc'[d] # "idle"
               PROVE  /\ entry'[d] \in Record /\ entry'[d].seq_num < idx_'
                      /\ pc'[d] = "push" =>
                           /\ Unlogged(d)'
                           /\ \A f \in Clients \ {d} :
                                pc'[f] = "push" => entry'[f].seq_num # entry'[d].seq_num
    BY DEF ClientInv
  <2>1. CASE d = c
    <3>1. \A f \in Clients \ {c} : pc'[f] = "push" => entry'[f].seq_num # idx_
      BY <1>2, <1>3, <1>10
    <3>2. Unlogged(c)'
      <4> SUFFICES ASSUME NEW p \in Partitions, NEW i \in 1 .. Len(logs'[p]), NEW j \in 1 .. Len(logs'[p][i].recs)
                   PROVE  logs'[p][i].recs[j].seq_num # entry'[c].seq_num
        BY DEF Unlogged, Recs
      <4>1. /\ i \in 1 .. Len(logs[p]) /\ j \in 1 .. Len(Recs(p, i))
            /\ logs'[p][i].recs[j] = Recs(p, i)[j]
        BY <1>1 DEF Recs
      <4> DEFINE m == Recs(p, i)[j].seq_num
      <4>2. m \in Nat /\ m < idx_
        BY <1>8, <4>1
      <4>3. logs'[p][i].recs[j].seq_num = m /\ entry'[c].seq_num = idx_
        BY <1>2, <1>3, <4>1
      <4> HIDE DEF m
      <4>4. m # idx_
        BY <1>2, <4>2
      <4> QED BY <4>3, <4>4
    <3> QED BY <1>1, <1>2, <1>3, <2>1, <3>1, <3>2
  <2>2. CASE d # c
    <3>1. entry'[d] \in Record /\ entry'[d].seq_num < idx_ + 1 /\ pc'[d] = pc[d] /\ entry'[d] = entry[d]
      BY <1>2, <1>3, <1>10, <2>2
    <3>2. ASSUME pc[d] = "push", NEW f \in Clients \ {d}, pc'[f] = "push"
          PROVE  entry'[f].seq_num # entry[d].seq_num
      <4>1. CASE f = c
        BY <1>2, <1>3, <1>10, <3>2, <4>1
      <4>2. CASE f # c
        BY <1>3, <3>2, <4>2 DEF IInv, ClientInv
      <4> QED BY <4>1, <4>2
    <3>3. ASSUME pc[d] = "push" PROVE Unlogged(d)'
      <4>1. Unlogged(d)
        BY <3>3 DEF IInv, ClientInv
      <4> QED BY <1>1, <3>1, <4>1 DEF Unlogged, Recs
    <3> QED BY <1>1, <3>1, <3>2, <3>3
  <2> QED BY <2>1, <2>2
<1>12. VisibleInv'
  <2> SUFFICES ASSUME NEW p \in Partitions
               PROVE  /\ \A i \in 1 .. Len(queue_[p]) : queue_[p][i].seq_num < idx_ + 1
                      /\ \A x \in list_[p] : x.seq_num < idx_ + 1
    BY <1>1 DEF VisibleInv, Below
  <2>1. /\ \A i \in 1 .. Len(queue_[p]) : queue_[p][i].seq_num < idx_
        /\ \A x \in list_[p] : x.seq_num < idx_
    BY <1>1 DEF IInv, VisibleInv, Below
  <2>2. /\ \A i \in 1 .. Len(queue_[p]) : queue_[p][i].seq_num \in Nat
        /\ \A x \in list_[p] : x.seq_num \in Nat
    BY <1>1, QueueIs
  <2> QED BY <1>2, <2>1, <2>2
<1>13. ReplayIsComplete'
  <2> SUFFICES ASSUME NEW q \in Partitions
               PROVE  Replayed(q)'
    BY DEF ReplayIsComplete, Replayed
  <2>1. Replayed(q) /\ Entries(q)' = Entries(q)
    BY <1>1, SameEntries, Running
  <2> QED BY <1>1, <2>1, StaysReplayed
<1> QED BY <1>4, <1>5, <1>6, <1>7, <1>9, <1>11, <1>12, <1>13 DEF IInv

LEMMA AddRecordStep == ASSUME IInv, NEW c \in Clients, AddRecord(c) PROVE IInv'
<1> DEFINE p == writerID(entry[c].key)
           e == entry[c]
           s == logs[p]
           n == Len(s)
           r == s[n].recs
           l == [s[n] EXCEPT !.recs = Append(r, e)]
<1>1. /\ pc[c] = "push" /\ up = "run" /\ TypeOK /\ e \in Record /\ p \in Partitions /\ n >= 1
      /\ pc' = [pc EXCEPT ![c] = "store"]
      /\ UNCHANGED <<up, cur, file, offset, reading, buf_, max_id_, queue_, list_, idx_, entry, sets, crashes>>
  <2>1. /\ pc[c] = "push" /\ TypeOK
        /\ pc' = [pc EXCEPT ![c] = "store"]
        /\ UNCHANGED <<up, cur, file, offset, reading, buf_, max_id_, queue_, list_, idx_, entry, sets, crashes>>
    BY DEF IInv, AddRecord, Logging, initVars
  <2>2. up = "run" /\ e \in Record
    BY <2>1 DEF IInv, ProgressInv, ClientInv, TypeOK
  <2>3. p \in Partitions
    BY <2>2, PartitionOf DEF Record
  <2> QED BY <2>1, <2>2, <2>3, Running
<1>2. /\ s \in Seq(LogType) /\ n \in Nat /\ n \in 1 .. Len(s) /\ s[n] \in LogType
      /\ r \in Seq(Record) /\ Len(r) \in Nat
  <2>1. s \in Seq(LogType) /\ n \in Nat
    BY <1>1, LogsAre
  <2>2. n \in 1 .. n
    BY <1>1, <2>1
  <2>3. s[n] \in LogType /\ r \in Seq(Record) /\ Len(r) \in Nat
    BY <1>1, <2>2, LogsAre DEF Recs
  <2> QED BY <2>1, <2>2, <2>3
<1>3. logs' = [logs EXCEPT ![p] = [s EXCEPT ![n] = l]]
  BY <1>1, <1>2 DEF AddRecord, TypeOK
<1>4. /\ Append(r, e) \in Seq(Record) /\ Len(Append(r, e)) = Len(r) + 1
      /\ Append(r, e)[Len(r) + 1] = e
      /\ \A j \in 1 .. Len(r) : Append(r, e)[j] = r[j]
  <2> HIDE DEF e, r
  <2> QED BY <1>1, <1>2, AppendProperties
<1>5. l \in LogType /\ l.recs = Append(r, e)
  <2> HIDE DEF e, r
  <2>1. s[n] \in LogType /\ Append(r, e) \in Seq(Record)
    BY <1>2, <1>4
  <2> QED BY <2>1 DEF LogType
<1> HIDE DEF l
<1>6. /\ [s EXCEPT ![n] = l] \in Seq(LogType) /\ Len([s EXCEPT ![n] = l]) = n
      /\ \A i \in 1 .. n : [s EXCEPT ![n] = l][i] = IF i = n THEN l ELSE s[i]
  <2> HIDE DEF s
  <2> QED BY <1>2, <1>5, ExceptSeq
<1>7. /\ \A q \in Partitions \ {p} : logs'[q] = logs[q]
      /\ Len(logs'[p]) = n /\ logs'[p][n].recs = Append(r, e)
      /\ \A i \in 1 .. n : i # n => logs'[p][i] = logs[p][i]
      /\ logs' \in [Partitions -> Seq(LogType)]
  <2> DEFINE z == [s EXCEPT ![n] = l]
  <2>1. logs' = [logs EXCEPT ![p] = z] /\ logs \in [Partitions -> Seq(LogType)] /\ z \in Seq(LogType)
    BY <1>1, <1>3, <1>6 DEF TypeOK, LogType
  <2>2. Len(z) = n /\ z[n] = l /\ \A i \in 1 .. n : i # n => z[i] = s[i]
    BY <1>2, <1>6
  <2> HIDE DEF z, p
  <2>3. logs'[p] = z /\ \A q \in Partitions \ {p} : logs'[q] = logs[q]
    BY <1>1, <2>1
  <2>4. logs' \in [Partitions -> Seq(LogType)]
    BY Zenon, <2>1
  <2> QED BY <1>5, <2>2, <2>3, <2>4
<1>8. \A q \in Partitions : Len(logs'[q]) = Len(logs[q]) /\ \A i \in OldLogs(q) : logs'[q][i] = logs[q][i]
  <2>1. ASSUME NEW i \in OldLogs(p) PROVE i \in 1 .. n /\ i # n
    BY <1>2 DEF OldLogs
  <2> QED BY Zenon, <1>7, <2>1
(* Every record of a log is an old one or the new one.                     *)
<1>9. ASSUME NEW q \in Partitions, NEW i \in 1 .. Len(logs'[q]), NEW j \in 1 .. Len(logs'[q][i].recs)
      PROVE  /\ i \in 1 .. Len(logs[q])
             /\ \/ j \in 1 .. Len(Recs(q, i)) /\ logs'[q][i].recs[j] = Recs(q, i)[j]
                \/ q = p /\ i = n /\ j = Len(r) + 1 /\ logs'[q][i].recs[j] = e
  <2>1. CASE q # p \/ i # n
    BY Zenon, <1>7, <1>9, <2>1 DEF Recs
  <2>2. CASE q = p /\ i = n
    <3>1. j \in 1 .. Len(r) + 1
      BY Zenon, <1>4, <1>7, <1>9, <2>2
    <3>2. logs'[q][i].recs[j] = Append(r, e)[j] /\ Recs(q, i) = r
      BY Zenon, <1>7, <2>2 DEF Recs
    <3>3. i \in 1 .. Len(logs[q])
      BY <1>2, <2>2
    <3>4. CASE j = Len(r) + 1
      BY Zenon, <1>4, <2>2, <3>2, <3>3, <3>4
    <3>5. CASE j # Len(r) + 1
      <4>1. j \in 1 .. Len(r)
        <5> DEFINE m == Len(r)
        <5>1. m \in Nat /\ j \in 1 .. m + 1 /\ j # m + 1
          BY <1>2, <3>1, <3>5
        <5> HIDE DEF m
        <5>2. j \in 1 .. m
          BY <5>1
        <5> QED BY <5>2 DEF m
      <4>2. Append(r, e)[j] = r[j]
        BY Zenon, <1>4, <4>1
      <4> QED BY <3>2, <3>3, <4>1, <4>2
    <3> QED BY <3>4, <3>5
  <2> QED BY <2>1, <2>2
<1>10. \A q \in Partitions : \A i \in 1 .. Len(logs[q]) : \A j \in 1 .. Len(Recs(q, i)) :
         Recs(q, i)[j].seq_num # e.seq_num
  BY <1>1 DEF IInv, ClientInv, Unlogged
<1> HIDE DEF p, e, s, r
<1>11. TypeOK'
  <2>1. pc' \in [Clients -> {"idle", "push", "store"}]
    BY <1>1 DEF TypeOK
  <2>2. logs' \in [Partitions -> Seq(LogType)]
    BY <1>7
  <2> QED BY <1>1, <2>1, <2>2 DEF TypeOK, LogType
<1>12. ProgressInv'
  <2>1. \A q \in Partitions : /\ Begun(q)' /\ Started(q)'
                              /\ Len(logs'[q]) >= 1 /\ Len(buf_'[q]) = Len(logs'[q]) - 1
    BY <1>1, <1>8, Running DEF Begun, Started
  <2>2. up' = "run" /\ cur' = kMaxWriter /\ ~(file' > 0) /\ ~(offset' > 0)
    BY <1>1, Running
  <2> QED BY <2>1, <2>2 DEF ProgressInv
<1>13. ReadingInv' /\ QueueInv' /\ ReadInv' /\ ReplayInv' /\ VisibleInv'
  BY <1>1, Running DEF IInv, ReadingInv, QueueInv, HasKey, ReadInv, ReplayInv, Started, VisibleInv, Below
<1>14. UniqueInv'
  <2> SUFFICES ASSUME NEW x \in Partitions, NEW y \in Partitions,
                      NEW i \in 1 .. Len(logs'[x]), NEW k \in 1 .. Len(logs'[y]),
                      NEW j \in 1 .. Len(logs'[x][i].recs), NEW m \in 1 .. Len(logs'[y][k].recs),
                      logs'[x][i].recs[j].seq_num = logs'[y][k].recs[m].seq_num
               PROVE  x = y /\ i = k /\ j = m
    BY DEF UniqueInv, Recs
  <2>1. i \in 1 .. Len(logs[x]) /\ k \in 1 .. Len(logs[y])
    BY <1>9
  <2>2. CASE /\ j \in 1 .. Len(Recs(x, i)) /\ logs'[x][i].recs[j] = Recs(x, i)[j]
             /\ m \in 1 .. Len(Recs(y, k)) /\ logs'[y][k].recs[m] = Recs(y, k)[m]
    <3>1. Recs(x, i)[j].seq_num = Recs(y, k)[m].seq_num
      BY <2>2
    <3>2. \A a \in 1 .. Len(logs[x]), b \in 1 .. Len(logs[y]) :
            \A f \in 1 .. Len(Recs(x, a)), g \in 1 .. Len(Recs(y, b)) :
              Recs(x, a)[f].seq_num = Recs(y, b)[g].seq_num => x = y /\ a = b /\ f = g
      BY DEF IInv, UniqueInv
    <3>3. \A f \in 1 .. Len(Recs(x, i)), g \in 1 .. Len(Recs(y, k)) :
            Recs(x, i)[f].seq_num = Recs(y, k)[g].seq_num => x = y /\ i = k /\ f = g
      BY SMTT(30), <2>1, <3>2
    <3> QED BY <2>2, <3>1, <3>3
  <2>3. CASE /\ j \in 1 .. Len(Recs(x, i)) /\ logs'[x][i].recs[j] = Recs(x, i)[j]
             /\ logs'[y][k].recs[m] = e
    BY <1>10, <2>1, <2>3
  <2>4. CASE /\ logs'[x][i].recs[j] = e
             /\ m \in 1 .. Len(Recs(y, k)) /\ logs'[y][k].recs[m] = Recs(y, k)[m]
    BY <1>10, <2>1, <2>4
  <2>5. CASE /\ x = p /\ i = n /\ j = Len(r) + 1
             /\ y = p /\ k = n /\ m = Len(r) + 1
    BY <2>5
  <2>6. \/ j \in 1 .. Len(Recs(x, i)) /\ logs'[x][i].recs[j] = Recs(x, i)[j]
        \/ x = p /\ i = n /\ j = Len(r) + 1 /\ logs'[x][i].recs[j] = e
    BY <1>9
  <2>7. \/ m \in 1 .. Len(Recs(y, k)) /\ logs'[y][k].recs[m] = Recs(y, k)[m]
        \/ y = p /\ k = n /\ m = Len(r) + 1 /\ logs'[y][k].recs[m] = e
    BY <1>9
  <2> QED BY <2>2, <2>3, <2>4, <2>5, <2>6, <2>7
<1>15. DrawnInv'
  <2> SUFFICES ASSUME NEW q \in Partitions, NEW i \in 1 .. Len(logs'[q]), NEW j \in 1 .. Len(logs'[q][i].recs)
               PROVE  logs'[q][i].recs[j].seq_num < idx_
    BY <1>1 DEF DrawnInv, Recs
  <2>1. e.seq_num < idx_
    BY <1>1 DEF IInv, ClientInv, e
  <2>2. i \in 1 .. Len(logs[q]) /\ \A k \in 1 .. Len(Recs(q, i)) : Recs(q, i)[k].seq_num < idx_
    BY <1>1, <1>9 DEF IInv, DrawnInv
  <2> QED BY <1>9, <2>1, <2>2
<1>16. ClientInv'
  <2>1. \A d \in Clients : pc'[d] = "push" => d # c /\ pc[d] = "push" /\ entry[d].seq_num # e.seq_num
    BY <1>1 DEF IInv, ClientInv, TypeOK, e
  <2>2. ASSUME NEW d \in Clients, pc'[d] = "push",
               NEW q \in Partitions, NEW i \in 1 .. Len(logs'[q]), NEW j \in 1 .. Len(logs'[q][i].recs)
        PROVE  logs'[q][i].recs[j].seq_num # entry[d].seq_num
    <3>1. pc[d] = "push" /\ entry[d].seq_num # e.seq_num
      BY <2>1, <2>2
    <3>2. i \in 1 .. Len(logs[q]) /\ \A k \in 1 .. Len(Recs(q, i)) : Recs(q, i)[k].seq_num # entry[d].seq_num
      BY <1>9, <3>1 DEF IInv, ClientInv, Unlogged
    <3> QED BY <1>9, <3>1, <3>2
  <2>3. \A d \in Clients : /\ pc'[d] # "idle" => entry[d] \in Record /\ entry[d].seq_num < idx_
                           /\ pc'[d] = "push" => \A f \in Clients \ {d} :
                                pc'[f] = "push" => entry[f].seq_num # entry[d].seq_num
    BY <1>1, <2>1 DEF IInv, ClientInv, TypeOK
  <2> QED BY <1>1, <2>2, <2>3 DEF ClientInv, Unlogged, Recs
<1>17. ReplayIsComplete'
  <2> SUFFICES ASSUME NEW q \in Partitions
               PROVE  Replayed(q)'
    BY DEF ReplayIsComplete, Replayed
  <2>1. Replayed(q) /\ Entries(q)' = Entries(q)
    BY <1>1, SameEntries, Running
  <2> QED BY <1>8, <2>1, StaysReplayed
<1> QED BY <1>11, <1>12, <1>13, <1>14, <1>15, <1>16, <1>17 DEF IInv

LEMMA pushStep == ASSUME IInv, NEW c \in Clients, push(c) PROVE IInv'
<1> DEFINE p == writerID(entry[c].key)
           e == [key |-> entry[c].key, seq_num |-> entry[c].seq_num, buf |-> 0]
           s == queue_[p]
           t == Append(s, e)
<1>1. /\ pc[c] = "store" /\ ~isFull(p) /\ up = "run" /\ TypeOK /\ entry[c] \in Record
      /\ entry[c].seq_num < idx_ /\ p \in Partitions
      /\ queue_' = [queue_ EXCEPT ![p] = t]
      /\ pc' = [pc EXCEPT ![c] = "idle"] /\ entry' = [entry EXCEPT ![c] = NoRecord]
      /\ UNCHANGED <<logs, up, cur, file, offset, reading, buf_, max_id_, list_, idx_, sets, crashes>>
  <2>1. /\ pc[c] = "store" /\ ~isFull(p) /\ TypeOK
        /\ queue_' = [queue_ EXCEPT ![p] = t]
        /\ pc' = [pc EXCEPT ![c] = "idle"] /\ entry' = [entry EXCEPT ![c] = NoRecord]
        /\ UNCHANGED <<logs, up, cur, file, offset, reading, buf_, max_id_, list_, idx_, sets, crashes>>
    BY DEF IInv, push, initVars
  <2>2. up = "run" /\ entry[c] \in Record /\ entry[c].seq_num < idx_
    BY <2>1 DEF IInv, ProgressInv, ClientInv, TypeOK
  <2>3. p \in Partitions
    BY <2>2, PartitionOf DEF Record
  <2> QED BY <2>1, <2>2, <2>3
<1>2. /\ s \in Seq(Entry) /\ Len(s) \in Nat /\ e \in Entry
      /\ e.buf = 0 /\ e.key \in Keys /\ e.seq_num = entry[c].seq_num
  BY <1>1, QueueIs DEF Entry, Record
<1> HIDE DEF e
<1>3. /\ t \in Seq(Entry) /\ Len(t) = Len(s) + 1 /\ t[Len(s) + 1] = e
      /\ \A i \in 1 .. Len(s) : t[i] = s[i]
  BY <1>2, AppendProperties
<1>4. /\ \A q \in Partitions \ {p} : queue_'[q] = queue_[q]
      /\ queue_'[p] = t
  BY <1>1 DEF TypeOK
<1>5. Len(s) + 1 <= kQueueSize
  <2>1. Len(s) <= kQueueSize /\ Len(s) # kQueueSize /\ kQueueSize \in Nat
    BY <1>1, RecoveryAssumption DEF TypeOK, isFull
  <2> QED BY <1>2, <2>1
<1>6. \A q \in Partitions : \A i \in 1 .. Len(queue_'[q]) :
        \/ i \in 1 .. Len(queue_[q]) /\ queue_'[q][i] = queue_[q][i]
        \/ queue_'[q][i] = e
  <2> SUFFICES ASSUME NEW q \in Partitions, NEW i \in 1 .. Len(queue_'[q])
               PROVE  \/ i \in 1 .. Len(queue_[q]) /\ queue_'[q][i] = queue_[q][i]
                      \/ queue_'[q][i] = e
    OBVIOUS
  <2>1. CASE q # p
    BY <1>4, <2>1
  <2>2. CASE q = p
    <3> DEFINE m == Len(s)
    <3>1. m \in Nat /\ i \in 1 .. m + 1
      BY <1>2, <1>3, <1>4, <2>2
    <3> HIDE DEF m
    <3>2. i \in 1 .. m \/ i = m + 1
      BY <3>1
    <3> QED BY <1>3, <1>4, <2>2, <3>2 DEF m
  <2> QED BY <2>1, <2>2
<1>7. \A q \in Partitions : \A i \in 1 .. Len(queue_[q]) :
        i \in 1 .. Len(queue_'[q]) /\ queue_'[q][i] = queue_[q][i]
  <2>1. \A i \in 1 .. Len(s) : i \in 1 .. Len(t)
    BY <1>2, <1>3
  <2> QED BY <1>3, <1>4, <2>1
<1> HIDE DEF t
<1>8. TypeOK'
  <2>1. queue_' \in [Partitions -> Seq(Entry)]
    BY <1>1, <1>3 DEF TypeOK
  <2>2. \A q \in Partitions : Len(queue_'[q]) <= kQueueSize
    BY <1>1, <1>3, <1>4, <1>5 DEF TypeOK
  <2>3. pc' \in [Clients -> {"idle", "push", "store"}] /\ entry' \in [Clients -> Record \cup {NoRecord}]
    BY <1>1 DEF TypeOK
  <2> HIDE DEF p
  <2>4. TypeOK /\ UNCHANGED <<logs, up, cur, file, offset, reading, buf_, max_id_, list_, idx_, sets, crashes>>
    BY <1>1
  <2> QED BY <2>1, <2>2, <2>3, <2>4 DEF TypeOK
<1>9. ProgressInv'
  <2>1. \A q \in Partitions : /\ Begun(q)' /\ Started(q)'
                              /\ Len(logs'[q]) >= 1 /\ Len(buf_'[q]) = Len(logs'[q]) - 1
    BY <1>1, Running DEF Begun, Started
  <2>2. up' = "run" /\ cur' = kMaxWriter /\ ~(file' > 0) /\ ~(offset' > 0)
    BY <1>1, Running
  <2> QED BY <2>1, <2>2 DEF ProgressInv
<1>10. ReadingInv' /\ ReadInv' /\ ReplayInv'
  BY <1>1, Running DEF IInv, ReadingInv, ReadInv, ReplayInv, Started
<1>11. QueueInv'
  <2> SUFFICES ASSUME NEW q \in Partitions, NEW i \in 1 .. Len(queue_'[q])
               PROVE  HasKey(q, queue_'[q][i])
    BY <1>1 DEF QueueInv, HasKey
  <2> QED BY <1>2, <1>6 DEF IInv, QueueInv, HasKey
<1>12. UniqueInv'
  <2>1. NoNewRecord
    BY <1>1 DEF NoNewRecord
  <2> QED BY <2>1, StaysUnique DEF IInv
<1>13. DrawnInv'
  BY <1>1 DEF IInv, DrawnInv, Recs
<1>14. ClientInv'
  <2>1. \A d \in Clients : pc'[d] # "idle" => d # c /\ pc'[d] = pc[d] /\ entry'[d] = entry[d]
    BY <1>1 DEF TypeOK
  <2>2. ASSUME NEW d \in Clients, pc'[d] = "push" PROVE Unlogged(d)'
    <3>1. Unlogged(d) /\ entry'[d] = entry[d]
      BY <2>1, <2>2 DEF IInv, ClientInv
    <3>2. logs' = logs
      BY <1>1
    <3> QED BY <3>1, <3>2 DEF Unlogged, Recs
  <2>3. \A d \in Clients : pc'[d] # "idle" => entry'[d] \in Record /\ entry'[d].seq_num < idx_'
    BY <1>1, <2>1 DEF IInv, ClientInv
  <2>4. \A d, f \in Clients : d # f /\ pc'[d] = "push" /\ pc'[f] = "push" =>
          entry'[f].seq_num # entry'[d].seq_num
    <3>1. \A d, f \in Clients : d # f /\ pc[d] = "push" /\ pc[f] = "push" =>
            entry[f].seq_num # entry[d].seq_num
      BY DEF IInv, ClientInv
    <3> QED BY <2>1, <3>1
  <2> QED BY <2>2, <2>3, <2>4 DEF ClientInv
<1>15. VisibleInv'
  <2> SUFFICES ASSUME NEW q \in Partitions
               PROVE  /\ \A i \in 1 .. Len(queue_'[q]) : queue_'[q][i].seq_num < idx_
                      /\ \A x \in list_[q] : x.seq_num < idx_
    BY <1>1 DEF VisibleInv, Below
  <2>1. /\ \A i \in 1 .. Len(queue_[q]) : queue_[q][i].seq_num < idx_
        /\ \A x \in list_[q] : x.seq_num < idx_
    BY <1>1 DEF IInv, VisibleInv, Below
  <2> QED BY <1>1, <1>2, <1>6, <2>1
<1>16. ReplayIsComplete'
  <2> SUFFICES ASSUME NEW q \in Partitions
               PROVE  Replayed(q)'
    BY DEF ReplayIsComplete, Replayed
  <2>1. Replayed(q)
    BY <1>1, Running
  <2>2. Entries(q) \subseteq Entries(q)'
    <3>1. \A i \in DOMAIN queue_[q] : i \in DOMAIN queue_'[q] /\ queue_'[q][i] = queue_[q][i]
      <4> DEFINE a == queue_[q]
                 b == queue_'[q]
      <4>1. a \in Seq(Entry) /\ b \in Seq(Entry) /\ \A i \in 1 .. Len(a) : i \in 1 .. Len(b) /\ b[i] = a[i]
        BY <1>1, <1>7, <1>8, QueueIs DEF TypeOK
      <4> HIDE DEF a, b
      <4>2. \A i \in DOMAIN a : i \in DOMAIN b /\ b[i] = a[i]
        BY <4>1, LenProperties
      <4> QED BY <4>2 DEF a, b
    <3> QED BY <1>1, <3>1 DEF Entries, keyOf
  <2> QED BY <1>1, <2>1, <2>2, StaysReplayed
<1> QED BY <1>8, <1>9, <1>10, <1>11, <1>12, <1>13, <1>14, <1>15, <1>16 DEF IInv

(* The entry a Writer takes leaves the ring for the list with the key it   *)
(* had there.                                                              *)
LEMMA mayInsertMessageStep == ASSUME IInv, NEW p \in Partitions, mayInsertMessage(p) PROVE IInv'
<1> DEFINE s == queue_[p]
           e == Head(s)
           x == [key |-> keyOf(p, e), seq_num |-> e.seq_num]
           t == Tail(s)
<1>1. /\ Started(p) /\ s # <<>> /\ TypeOK
      /\ list_' = [list_ EXCEPT ![p] = @ \cup {x}]
      /\ queue_' = [queue_ EXCEPT ![p] = t]
      /\ UNCHANGED <<logs, up, cur, file, offset, reading, buf_, max_id_, idx_, pc, entry, sets, crashes>>
  BY DEF IInv, mayInsertMessage, initVars, clientVars
<1>2. s \in Seq(Entry) /\ Len(s) \in Nat /\ Len(s) >= 1
  <2>1. s \in Seq(Entry)
    BY <1>1, QueueIs
  <2> HIDE DEF s
  <2> QED BY <1>1, <2>1, EmptySeq, LenProperties
<1>3. /\ t \in Seq(Entry) /\ Len(t) = Len(s) - 1 /\ \A i \in 1 .. Len(s) - 1 : t[i] = s[i + 1]
      /\ e = s[1] /\ e \in Entry /\ 1 \in 1 .. Len(s)
  <2> HIDE DEF s
  <2> QED BY <1>1, <1>2, HeadTailProperties, SMT
<1>4. HasKey(p, e) /\ x \in Record
  <2>1. HasKey(p, e)
    BY <1>3 DEF IInv, QueueInv
  <2>2. e.seq_num \in Nat
    BY <1>3 DEF Entry
  <2>3. keyOf(p, e) \in Keys
    <3> HIDE DEF e
    <3> QED BY <2>1 DEF HasKey, keyOf
  <2> QED BY <2>1, <2>2, <2>3 DEF Record
<1>5. /\ \A q \in Partitions \ {p} : queue_'[q] = queue_[q] /\ list_'[q] = list_[q]
      /\ queue_'[p] = t /\ list_'[p] = list_[p] \cup {x}
  BY <1>1 DEF TypeOK
<1>6. \A q \in Partitions : \A i \in 1 .. Len(queue_'[q]) :
        \E k \in 1 .. Len(queue_[q]) : queue_'[q][i] = queue_[q][k]
  <2> SUFFICES ASSUME NEW q \in Partitions, NEW i \in 1 .. Len(queue_'[q])
               PROVE  \E k \in 1 .. Len(queue_[q]) : queue_'[q][i] = queue_[q][k]
    OBVIOUS
  <2>1. CASE q # p
    BY <1>5, <2>1
  <2>2. CASE q = p
    <3>1. i \in 1 .. Len(s) - 1
      BY <1>3, <1>5, <2>2
    <3>2. i + 1 \in 1 .. Len(s)
      BY <1>2, <3>1
    <3>3. queue_'[q][i] = s[i + 1]
      BY <1>3, <1>5, <2>2, <3>1
    <3> QED BY <2>2, <3>2, <3>3
  <2> QED BY <2>1, <2>2
<1> HIDE DEF t
<1>7. TypeOK'
  <2>1. queue_' \in [Partitions -> Seq(Entry)] /\ list_' \in [Partitions -> SUBSET Record]
    BY <1>1, <1>3, <1>4 DEF TypeOK
  <2>2. \A q \in Partitions : Len(queue_'[q]) <= kQueueSize
    <3>1. Len(s) <= kQueueSize /\ kQueueSize \in Nat
      BY <1>1, RecoveryAssumption DEF TypeOK
    <3>2. Len(t) <= kQueueSize
      BY <1>2, <1>3, <3>1
    <3> QED BY <1>1, <1>5, <3>2 DEF TypeOK
  <2>3. TypeOK /\ UNCHANGED <<logs, up, cur, file, offset, reading, buf_, max_id_, idx_, pc, entry, sets, crashes>>
    BY <1>1
  <2> QED BY <2>1, <2>2, <2>3 DEF TypeOK
<1>8. \A q \in Partitions : (Started(q)' <=> Started(q)) /\ (Begun(q)' <=> Begun(q))
  BY <1>1 DEF Started, Begun
<1>9. ProgressInv' /\ ReadingInv'
  <2>1. \A q \in Partitions : (~Begun(q) => queue_'[q] = <<>>) /\ (~Started(q) => list_'[q] = {})
    BY <1>1, <1>5 DEF IInv, ProgressInv, Begun
  <2>2. ProgressInv'
    BY <1>1, <1>8, <2>1 DEF IInv, ProgressInv, Recs, OldLogs
  <2> QED BY <1>1, <2>2 DEF IInv, ReadingInv, OldLogs
<1>10. QueueInv'
  <2> SUFFICES ASSUME NEW q \in Partitions, NEW i \in 1 .. Len(queue_'[q])
               PROVE  HasKey(q, queue_'[q][i])
    BY <1>1 DEF QueueInv, HasKey
  <2>1. PICK k \in 1 .. Len(queue_[q]) : queue_'[q][i] = queue_[q][k]
    BY <1>6
  <2> QED BY <2>1 DEF IInv, QueueInv
<1>11. UniqueInv' /\ DrawnInv' /\ ClientInv' /\ ReadInv'
  BY <1>1, SameRecords DEF IInv, ReadInv, OldLogs, Recs, WasRead, Started
<1>12. VisibleInv'
  <2>1. ASSUME NEW q \in Partitions
        PROVE  /\ \A i \in 1 .. Len(queue_'[q]) : Below(q, queue_'[q][i].seq_num)
               /\ \A y \in list_'[q] : Below(q, y.seq_num)
    <3>1. /\ \A i \in 1 .. Len(queue_[q]) : Below(q, queue_[q][i].seq_num)
          /\ \A y \in list_[q] : Below(q, y.seq_num)
      BY DEF IInv, VisibleInv
    <3>2. \A i \in 1 .. Len(queue_'[q]) : Below(q, queue_'[q][i].seq_num)
      BY <1>6, <3>1
    <3>3. q = p => Below(q, x.seq_num)
      BY <1>3, <3>1
    <3> QED BY <1>5, <3>1, <3>2, <3>3
  <2> QED BY <1>1, <2>1 DEF VisibleInv, Below
<1>13. ReplayInv'
  <2> SUFFICES ASSUME NEW q \in Partitions, Begun(q)', ~Started(q)', NEW i \in OldLogs(q)'
               PROVE  LogHeld(q, i)'
    BY DEF ReplayInv
  <2>1. q # p /\ i \in OldLogs(q) /\ LogHeld(q, i)
    BY <1>1, <1>8 DEF IInv, ReplayInv, OldLogs
  <2>2. queue_'[q] = queue_[q]
    BY <1>5, <2>1
  <2> QED BY <1>1, <2>1, <2>2 DEF LogHeld, Holds, EntryOf, Recs
<1>14. ReplayIsComplete'
  <2> SUFFICES ASSUME NEW q \in Partitions, Started(q)'
               PROVE  Replayed(q)'
    BY DEF ReplayIsComplete, Replayed
  <2>1. Replayed(q)
    BY <1>8 DEF IInv, ReplayIsComplete, Replayed
  <2>2. Entries(q) \subseteq Entries(q)'
    <3>1. CASE q # p
      <4>1. Entries(q)' = Entries(q)
        BY <1>1, <1>5, <3>1, SameEntries
      <4> QED BY <4>1
    <3>2. CASE q = p
      <4> SUFFICES ASSUME NEW y \in Entries(p) PROVE y \in Entries(p)'
        BY <3>2
      <4>1. CASE y \in list_[p]
        BY <1>5, <4>1 DEF Entries
      <4>2. CASE \E i \in DOMAIN s : y = [key |-> keyOf(p, s[i]), seq_num |-> s[i].seq_num]
        <5>1. PICK i \in DOMAIN s : y = [key |-> keyOf(p, s[i]), seq_num |-> s[i].seq_num]
          BY <4>2
        <5>2. i \in 1 .. Len(s) /\ DOMAIN t = 1 .. Len(t)
          BY SMTT(30), <1>2, <1>3, <5>1, LenProperties
        <5>3. CASE i = 1
          <6>1. y \in list_'[p]
            BY SMTT(30), <1>3, <1>5, <5>1, <5>3
          <6> QED BY <6>1 DEF Entries
        <5>4. CASE i # 1
          <6>1. i - 1 \in 1 .. Len(s) - 1 /\ i = (i - 1) + 1
            BY <1>2, <5>2, <5>4
          <6>2. i - 1 \in DOMAIN t /\ t[i - 1] = s[i]
            BY <1>3, <5>2, <6>1
          <6>3. /\ i - 1 \in DOMAIN queue_'[p]
                /\ y = [key |-> keyOf(p, queue_'[p][i - 1]), seq_num |-> queue_'[p][i - 1].seq_num]
            BY <1>5, <5>1, <6>2
          <6> QED BY <1>1, <6>3 DEF Entries, keyOf
        <5> QED BY <5>3, <5>4
      <4> QED BY <4>1, <4>2 DEF Entries
    <3> QED BY <3>1, <3>2
  <2> QED BY <1>1, <2>1, <2>2, StaysReplayed
<1> QED BY <1>7, <1>9, <1>10, <1>11, <1>12, <1>13, <1>14 DEF IInv

LEMMA NextIInv == ASSUME IInv, [Next]_vars PROVE IInv'
<1>1. ASSUME NEW p \in Partitions, MessageQueue(p) PROVE IInv'
  BY <1>1, newLogStep, ReadRecordStep, nextLogStep, replayStep, pthread_createStep DEF MessageQueue
<1>2. ASSUME init PROVE IInv'
  BY <1>2, initStep
<1>3. ASSUME NEW c \in Clients, setting(c) PROVE IInv'
  BY <1>3, setKeyStep, AddRecordStep, pushStep DEF setting
<1>4. ASSUME NEW p \in Partitions, mayInsertMessage(p) PROVE IInv'
  BY <1>4, mayInsertMessageStep
<1>5. ASSUME crash \/ powerLoss PROVE IInv'
  BY <1>5, crashStep, powerLossStep
<1>6. ASSUME UNCHANGED vars PROVE IInv'
  <2>1. UNCHANGED <<logs, up, cur, file, offset, reading, buf_, max_id_, queue_, list_, idx_, pc, entry, sets, crashes>>
    BY <1>6 DEF vars, initVars, clientVars
  <2>2. UniqueInv' /\ DrawnInv' /\ ClientInv'
    BY <2>1, SameRecords
  <2>3. TypeOK' /\ ProgressInv'
    BY <2>1 DEF IInv, TypeOK, ProgressInv, Begun, Started, Recs, OldLogs
  <2>4. ReadingInv' /\ QueueInv' /\ VisibleInv'
    BY <2>1 DEF IInv, ReadingInv, QueueInv, HasKey, VisibleInv, Below, OldLogs
  <2>5. ReadInv'
    BY <2>1 DEF IInv, ReadInv, WasRead, Started, Recs, OldLogs
  <2>6. ReplayInv'
    <3> SUFFICES ASSUME NEW q \in Partitions, Begun(q)', ~Started(q)', NEW i \in OldLogs(q)'
                 PROVE  LogHeld(q, i)'
      BY DEF ReplayInv
    <3>1. Begun(q) /\ ~Started(q) /\ i \in OldLogs(q)
      BY <2>1 DEF Begun, Started, OldLogs
    <3>2. LogHeld(q, i)
      BY <3>1 DEF IInv, ReplayInv
    <3> QED BY <2>1, <3>2 DEF LogHeld, Holds, EntryOf, Recs
  <2>7. ReplayIsComplete'
    <3> SUFFICES ASSUME NEW q \in Partitions, Started(q)'
                 PROVE  Replayed(q)'
      BY DEF ReplayIsComplete, Replayed
    <3>1. Replayed(q)
      BY <2>1 DEF IInv, ReplayIsComplete, Replayed, Started
    <3>2. Entries(q)' = Entries(q)
      BY <2>1, SameEntries
    <3> QED BY <2>1, <3>1, <3>2, StaysReplayed
  <2> QED BY <2>2, <2>3, <2>4, <2>5, <2>6, <2>7 DEF IInv
<1> QED BY <1>1, <1>2, <1>3, <1>4, <1>5, <1>6 DEF Next

-----------------------------------------------------------------------------
(* The invariant holds however the constructors, the clients, the Writers  *)
(* and the crashes of all runs follow each other.                          *)
THEOREM RecoveryInductive == Spec => []IInv
<1>1. Init => IInv
  BY InitIInv
<1>2. IInv /\ [Next]_vars => IInv'
  BY NextIInv
<1> QED BY <1>1, <1>2, PTL DEF Spec

(* The state keeps its type; no ring holds more than kQueueSize entries,   *)
(* those of the constructor's push included.                               *)
THEOREM RecoveryTypeCorrect == Spec => []TypeOK
<1>1. IInv => TypeOK
  BY DEF IInv
<1> QED BY <1>1, RecoveryInductive, PTL

(* No number is given to two records, whatever number of runs and of       *)
(* crashes in them the logs have seen.                                     *)
THEOREM NumbersCorrect == Spec => []NumbersAreUnique
<1>1. ASSUME IInv PROVE NumbersAreUnique
  <2> SUFFICES ASSUME NEW x \in Positions, NEW y \in Positions,
                      recordAt(x).seq_num = recordAt(y).seq_num
               PROVE  x = y
    BY DEF NumbersAreUnique
  <2>1. ASSUME NEW z \in Positions
        PROVE  /\ z[1] \in Partitions /\ z[2] \in 1 .. Len(logs[z[1]])
               /\ z[3] \in 1 .. Len(Recs(z[1], z[2]))
               /\ recordAt(z) = Recs(z[1], z[2])[z[3]]
    <3> DEFINE p == z[1]
               s == logs[p]
               r == Recs(p, z[2])
    <3>1. p \in Partitions /\ z[2] \in DOMAIN s /\ z[3] \in DOMAIN r
      BY DEF Positions, Recs
    <3>2. TypeOK
      BY <1>1 DEF IInv
    <3>3. s \in Seq(LogType)
      BY <3>1, <3>2, LogsAre
    <3>4. z[2] \in 1 .. Len(s)
      <4> HIDE DEF s
      <4> QED BY <3>1, <3>3, LenProperties
    <3>5. r \in Seq(Record)
      BY <3>1, <3>2, <3>4, LogsAre
    <3>6. z[3] \in 1 .. Len(r)
      <4> HIDE DEF r
      <4> QED BY <3>1, <3>5, LenProperties
    <3> QED BY <3>1, <3>4, <3>6 DEF recordAt, Recs
  <2>2. \A p, q \in Partitions : \A i \in 1 .. Len(logs[p]), k \in 1 .. Len(logs[q]) :
          \A j \in 1 .. Len(Recs(p, i)), l \in 1 .. Len(Recs(q, k)) :
            Recs(p, i)[j].seq_num = Recs(q, k)[l].seq_num => p = q /\ i = k /\ j = l
    BY <1>1 DEF IInv, UniqueInv
  <2> DEFINE p == x[1]
             q == y[1]
             i == x[2]
             k == y[2]
  <2>3. /\ p \in Partitions /\ i \in 1 .. Len(logs[p]) /\ x[3] \in 1 .. Len(Recs(p, i))
        /\ q \in Partitions /\ k \in 1 .. Len(logs[q]) /\ y[3] \in 1 .. Len(Recs(q, k))
        /\ Recs(p, i)[x[3]].seq_num = Recs(q, k)[y[3]].seq_num
    BY <2>1
  <2>4. x = <<x[1], x[2], x[3]>> /\ y = <<y[1], y[2], y[3]>>
    BY DEF Positions
  <2> HIDE DEF p, q, i, k
  <2>5. \A a \in 1 .. Len(logs[p]), b \in 1 .. Len(logs[q]) :
          \A j \in 1 .. Len(Recs(p, a)), l \in 1 .. Len(Recs(q, b)) :
            Recs(p, a)[j].seq_num = Recs(q, b)[l].seq_num => p = q /\ a = b /\ j = l
    BY <2>2, <2>3
  <2>6. \A j \in 1 .. Len(Recs(p, i)), l \in 1 .. Len(Recs(q, k)) :
          Recs(p, i)[j].seq_num = Recs(q, k)[l].seq_num => p = q /\ i = k /\ j = l
    BY <2>3, <2>5
  <2>7. p = q /\ i = k /\ x[3] = y[3]
    BY <2>3, <2>6
  <2> QED BY <2>4, <2>7 DEF p, q, i, k
<1> QED BY <1>1, RecoveryInductive, PTL

(* What a run recovered is below the number its first get reads at, though *)
(* each partition bounds only what it read itself: nextId is above them    *)
(* all, and what a set adds later is numbered before it is in a ring.      *)
THEOREM VisibleCorrect == Spec => []RecoveredIsVisible
<1>1. ASSUME IInv PROVE RecoveredIsVisible
  <2> SUFFICES ASSUME up = "run", NEW p \in Partitions, NEW e \in Entries(p)
               PROVE  e.seq_num < idx_
    BY DEF RecoveredIsVisible
  <2>1. /\ \A i \in 1 .. Len(queue_[p]) : queue_[p][i].seq_num < idx_
        /\ \A x \in list_[p] : x.seq_num < idx_
    BY <1>1 DEF IInv, VisibleInv, Below
  <2>2. DOMAIN queue_[p] = 1 .. Len(queue_[p])
    <3> DEFINE s == queue_[p]
    <3>1. s \in Seq(Entry)
      BY <1>1, QueueIs DEF IInv
    <3> HIDE DEF s
    <3>2. DOMAIN s = 1 .. Len(s)
      BY <3>1, LenProperties
    <3> QED BY <3>2 DEF s
  <2>3. CASE e \in list_[p]
    BY <2>1, <2>3
  <2>4. CASE \E i \in DOMAIN queue_[p] :
               e = [key |-> keyOf(p, queue_[p][i]), seq_num |-> queue_[p][i].seq_num]
    BY <2>1, <2>2, <2>4
  <2> QED BY <2>3, <2>4 DEF Entries
<1> QED BY <1>1, RecoveryInductive, PTL

(* When a partition's Writer runs, every record of its old logs is in its  *)
(* list or its ring, and of a whole log the last record has its own key.   *)
THEOREM ReplayCorrect == Spec => []ReplayIsComplete
<1>1. IInv => ReplayIsComplete
  BY DEF IInv
<1> QED BY <1>1, RecoveryInductive, PTL
=============================================================================
