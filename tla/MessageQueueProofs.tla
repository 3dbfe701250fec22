------------------------- MODULE MessageQueueProofs -------------------------
(***************************************************************************)
(* Proofs about MessageQueue for every number of clients, every capacity   *)
(* and every bound; then about QueueSearch, a search that takes no lock,   *)
(* for every number of readers too: it stands on the invariant of the      *)
(* queue and on that slots are overwritten a whole round later.            *)
(***************************************************************************)
EXTENDS QueueSearch, FiniteSetTheorems, TLAPS

-----------------------------------------------------------------------------
(* The arithmetic of the ring.                                             *)

(* The quotient and the remainder of a division by a positive number.      *)
LEMMA DivMod ==
  ASSUME NEW K \in Nat \ {0}, NEW i \in Nat
  PROVE  i \div K \in Nat /\ i % K \in 0 .. K - 1 /\ i = K * (i \div K) + (i % K)
  BY SMT

(* Distinct multiples of a number differ by at least that number.          *)
LEMMA MultiplesApart ==
  ASSUME NEW K \in Nat \ {0}, NEW a \in Int, NEW b \in Int, a < b
  PROVE  K * b >= K * a + K
  BY SMT

(* Two positions less than kQueueSize apart never share a slot of the ring *)
(* (queue_[i % kQueueSize] in push, getFront and search).                  *)
LEMMA SlotsDiffer ==
  ASSUME NEW i \in Nat, NEW j \in Nat, i < j, j < i + kQueueSize
  PROVE  Slot(i) # Slot(j)
<1> DEFINE K == kQueueSize
           p == i \div K
           q == j \div K
<1>1. K \in Nat \ {0}
  BY QueueAssumption
<1>2. p \in Nat /\ i = K * p + (i % K) /\ i % K \in 0 .. K - 1
  BY <1>1, DivMod
<1>3. q \in Nat /\ j = K * q + (j % K) /\ j % K \in 0 .. K - 1
  BY <1>1, DivMod
<1>4. SUFFICES ASSUME i % K = j % K PROVE FALSE
  BY DEF Slot
<1>5. K * p \in Nat /\ K * q \in Nat
  BY <1>1, <1>2, <1>3
<1>6. K * p < K * q /\ K * q < K * p + K
  BY <1>1, <1>2, <1>3, <1>4, <1>5
<1> HIDE DEF p, q, K
<1>7. CASE p < q BY <1>1, <1>2, <1>3, <1>5, <1>6, <1>7, MultiplesApart
<1>8. CASE q < p BY <1>1, <1>2, <1>3, <1>5, <1>6, <1>8, MultiplesApart
<1>9. CASE p = q BY <1>5, <1>6, <1>9
<1> QED BY <1>2, <1>3, <1>7, <1>8, <1>9

(* A position's slot is one of the ring's.                                 *)
LEMMA SlotType == ASSUME NEW i \in Nat PROVE Slot(i) \in 0 .. kQueueSize - 1
  BY QueueAssumption, DivMod DEF Slot

(* What Append does to a sequence.                                         *)
LEMMA AppendFacts ==
  ASSUME NEW S, NEW s \in Seq(S), NEW e \in S
  PROVE  /\ Append(s, e) \in Seq(S)
         /\ Len(s) \in Nat /\ Len(Append(s, e)) = Len(s) + 1
         /\ DOMAIN s = 1 .. Len(s)
         /\ DOMAIN Append(s, e) = 1 .. Len(s) + 1
         /\ \A i \in 1 .. Len(s) : Append(s, e)[i] = s[i]
         /\ Append(s, e)[Len(s) + 1] = e
  BY SMT

(* Facts on a sequence over S.                                             *)
LEMMA SeqFacts ==
  ASSUME NEW S, NEW s \in Seq(S)
  PROVE  /\ Len(s) \in Nat /\ DOMAIN s = 1 .. Len(s)
         /\ \A i \in 1 .. Len(s) : s[i] \in S
  BY SMT

-----------------------------------------------------------------------------
(* The inductive invariant.                                                *)

(* lock_ is held exactly by the client that is inside push's body.         *)
MutexInv == \A c \in Clients : pc[c] \in Critical <=> lock_ = c

(* A client that found the ring not full leaves it not full until it       *)
(* advances w_ptr, because only the Writer moves the other cursor.         *)
CursorInv ==
  /\ r_ptr <= w_ptr /\ w_ptr <= r_ptr + kQueueSize
  /\ \A c \in Clients : pc[c] \in {"store", "publish"} => w_ptr < r_ptr + kQueueSize

(* The log is one record ahead of the ring while a client is between       *)
(* AddRecord and w_ptr++, and that record is the client's entry.           *)
LogInv ==
  /\ Len(log_) = IF \E c \in Clients : pc[c] \in {"wait", "store", "publish"}
                 THEN w_ptr ELSE w_ptr - 1
  /\ \A c \in Clients :
       pc[c] \in {"wait", "store", "publish"} => log_[w_ptr] = entry[c]

StoredInv == \A c \in Clients : pc[c] = "publish" => queue_[Slot(w_ptr)] = entry[c]

RingInv == \A i \in r_ptr .. w_ptr - 1 : queue_[Slot(i)] = log_[i]

(* The Writer has inserted what it has popped, and the front entry as well *)
(* between the insertion and the pop.                                      *)
WriterInv ==
  /\ Len(inserted) = IF wpc = "pop" THEN r_ptr ELSE r_ptr - 1
  /\ wpc \in {"insert", "pop"} => r_ptr < w_ptr
  /\ \A i \in 1 .. Len(inserted) : inserted[i] = log_[i]

(* Numbers are drawn once and are logged at most once.                     *)
SeqInv ==
  /\ \A c \in Clients : pc[c] # "idle" => entry[c] \in MemEntry
  /\ \A i \in 1 .. Len(log_) : log_[i].seq_num < idx_
  /\ \A i, j \in 1 .. Len(log_) : log_[i].seq_num = log_[j].seq_num => i = j
  /\ \A c \in Clients : pc[c] \in {"lock", "log"} =>
       /\ entry[c].seq_num < idx_
       /\ \A i \in 1 .. Len(log_) : log_[i].seq_num # entry[c].seq_num
       /\ \A d \in Clients \ {c} :
            pc[d] \in {"lock", "log"} => entry[d].seq_num # entry[c].seq_num

(* A returned set is at a published position.                              *)
ReturnedInv ==
  \A c \in Clients : pc[c] = "idle" /\ entry[c] # EmptySlot =>
    \E i \in 1 .. w_ptr - 1 : log_[i] = entry[c]

IInv == /\ TypeOK /\ MutexInv /\ CursorInv /\ LogInv /\ StoredInv /\ RingInv
        /\ WriterInv /\ SeqInv /\ ReturnedInv

LEMMA InitIInv == ASSUME Init PROVE IInv
<1> USE QueueAssumption DEF Init
<1>1. TypeOK
  <2>1. EmptySlot \in [key : Keys \cup {NoKey}, seq_num : Nat, value_type : BOOLEAN]
    BY DEF EmptySlot
  <2>2. queue_ \in [0 .. kQueueSize - 1 ->
                      [key : Keys \cup {NoKey}, seq_num : Nat, value_type : BOOLEAN]]
    BY <2>1
  <2>3. log_ \in Seq(MemEntry) /\ inserted \in Seq(MemEntry)
    OBVIOUS
  <2>4. idx_ \in 1 .. MaxSets + 1
    OBVIOUS
  <2>5. entry \in [Clients -> MemEntry \cup {EmptySlot}]
    OBVIOUS
  <2>6. pc \in [Clients -> {"idle", "lock"} \cup Critical]
    OBVIOUS
  <2>7. lock_ \in Clients \cup {NoClient} /\ w_ptr \in Nat \ {0} /\ r_ptr \in Nat \ {0}
        /\ wpc \in {"round", "lock", "check", "insert", "pop", "append", "quit"}
    OBVIOUS
  <2>8. stopFLAG \in BOOLEAN /\ list_ \subseteq Keys
    OBVIOUS
  <2> HIDE DEF Init
  <2> QED BY <2>2, <2>3, <2>4, <2>5, <2>6, <2>7, <2>8 DEF TypeOK
<1>2. MutexInv /\ CursorInv BY DEF MutexInv, CursorInv, Critical
<1>3. LogInv /\ StoredInv /\ RingInv BY DEF LogInv, StoredInv, RingInv
<1>4. WriterInv /\ SeqInv /\ ReturnedInv BY DEF WriterInv, SeqInv, ReturnedInv
<1> QED BY <1>1, <1>2, <1>3, <1>4 DEF IInv

-----------------------------------------------------------------------------
(* Each action preserves the invariant.                                    *)

(* Every number in use is below idx_, which is a natural number.           *)
LEMMA SeqNumbers ==
  ASSUME IInv
  PROVE  /\ idx_ \in Nat
         /\ \A i \in 1 .. Len(log_) : log_[i].seq_num \in Nat /\ log_[i].seq_num < idx_
         /\ \A c \in Clients : pc[c] \in {"lock", "log"} =>
              entry[c].seq_num \in Nat /\ entry[c].seq_num < idx_
<1>1. \A i \in 1 .. Len(log_) : log_[i] \in MemEntry
  BY SeqFacts DEF IInv, TypeOK
<1>2. \A c \in Clients : pc[c] \in {"lock", "log"} => entry[c] \in MemEntry
  BY DEF IInv, SeqInv
<1> QED BY <1>1, <1>2, QueueAssumption DEF IInv, TypeOK, SeqInv, MemEntry

LEMMA setKeyStep ==
  ASSUME IInv, NEW c \in Clients, NEW k \in Keys, NEW del \in DelFlags, setKey(c, k, del)
  PROVE  IInv'
<1> USE QueueAssumption DEF IInv
<1> DEFINE e == [key |-> k, seq_num |-> idx_, value_type |-> del]
<1>1. e \in MemEntry
  BY DEF TypeOK, MemEntry
<1>2. TypeOK'
  BY <1>1 DEF TypeOK, setKey, writerVars, Critical
<1>3. MutexInv' /\ CursorInv' /\ StoredInv'
  BY DEF TypeOK, MutexInv, CursorInv, StoredInv, setKey, writerVars, Critical, Slot
<1>4. LogInv'
  BY DEF TypeOK, LogInv, setKey, writerVars, Critical
<1>5. RingInv' /\ WriterInv'
  BY DEF TypeOK, RingInv, WriterInv, setKey, writerVars, Slot
<1>6. SeqInv'
  <2>1. \A d \in Clients : d # c => pc'[d] = pc[d] /\ entry'[d] = entry[d]
    BY DEF setKey, TypeOK
  <2>2. pc'[c] = "lock" /\ entry'[c] = e /\ log_' = log_ /\ idx_' = idx_ + 1
    BY DEF setKey, TypeOK
  <2>3. e.seq_num = idx_
    OBVIOUS
  <2> HIDE DEF e, IInv
  <2>4. \A d \in Clients : pc'[d] # "idle" => entry'[d] \in MemEntry
    BY <1>1, <2>1, <2>2 DEF IInv, SeqInv
  <2>5. \A i \in 1 .. Len(log_) : log_[i].seq_num < idx_ + 1
    BY SeqNumbers
  <2>6. \A d \in Clients : pc'[d] \in {"lock", "log"} =>
          /\ entry'[d].seq_num < idx_ + 1
          /\ \A i \in 1 .. Len(log_) : log_[i].seq_num # entry'[d].seq_num
    <3> SUFFICES ASSUME NEW d \in Clients, pc'[d] \in {"lock", "log"}
                 PROVE  /\ entry'[d].seq_num < idx_ + 1
                        /\ \A i \in 1 .. Len(log_) : log_[i].seq_num # entry'[d].seq_num
      OBVIOUS
    <3>1. CASE d = c BY <3>1, <2>2, <2>3, SeqNumbers
    <3>2. CASE d # c BY <3>2, <2>1, SeqNumbers DEF IInv, SeqInv
    <3> QED BY <3>1, <3>2
  <2>7. \A d \in Clients : \A f \in Clients \ {d} :
          pc'[d] \in {"lock", "log"} /\ pc'[f] \in {"lock", "log"}
            => entry'[f].seq_num # entry'[d].seq_num
    <3> SUFFICES ASSUME NEW d \in Clients, NEW f \in Clients \ {d},
                        pc'[d] \in {"lock", "log"}, pc'[f] \in {"lock", "log"}
                 PROVE  entry'[f].seq_num # entry'[d].seq_num
      OBVIOUS
    <3>1. CASE d = c BY <3>1, <2>1, <2>2, <2>3, SeqNumbers
    <3>2. CASE f = c BY <3>2, <2>1, <2>2, <2>3, SeqNumbers
    <3>3. CASE d # c /\ f # c BY <3>3, <2>1 DEF IInv, SeqInv
    <3> QED BY <3>1, <3>2, <3>3
  <2> QED BY <2>2, <2>4, <2>5, <2>6, <2>7 DEF IInv, SeqInv
<1>7. ReturnedInv'
  BY DEF TypeOK, ReturnedInv, setKey, writerVars
<1> QED BY <1>2, <1>3, <1>4, <1>5, <1>6, <1>7

LEMMA setElsewhereStep == ASSUME IInv, setElsewhere PROVE IInv'
<1> USE QueueAssumption DEF IInv, setElsewhere, writerVars
<1>1. TypeOK' BY DEF TypeOK
<1>2. MutexInv' /\ CursorInv' /\ LogInv' /\ StoredInv' /\ RingInv' /\ WriterInv' /\ ReturnedInv'
  BY DEF MutexInv, CursorInv, LogInv, StoredInv, RingInv, WriterInv, ReturnedInv, Slot
<1>3. SeqInv'
  <2>1. /\ \A i \in 1 .. Len(log_) : log_[i].seq_num < idx_'
        /\ \A c \in Clients : pc[c] \in {"lock", "log"} => entry[c].seq_num < idx_'
    BY SeqNumbers
  <2> QED BY <2>1 DEF SeqInv
<1> QED BY <1>1, <1>2, <1>3

LEMMA pushLockStep == ASSUME IInv, NEW c \in Clients, pushLock(c) PROVE IInv'
<1> USE QueueAssumption DEF IInv, pushLock, writerVars
<1>1. TypeOK' BY DEF TypeOK, Critical
<1>2. MutexInv' BY DEF MutexInv, Critical, TypeOK
<1>3. CursorInv' /\ StoredInv' /\ RingInv' /\ WriterInv'
  BY DEF CursorInv, StoredInv, RingInv, WriterInv, TypeOK, Slot
<1>4. LogInv' BY DEF LogInv, TypeOK
<1>5. SeqInv' BY DEF SeqInv, TypeOK
<1>6. ReturnedInv' BY DEF ReturnedInv, TypeOK
<1> QED BY <1>1, <1>2, <1>3, <1>4, <1>5, <1>6

LEMMA AddRecordStep == ASSUME IInv, NEW c \in Clients, AddRecord(c) PROVE IInv'
<1> USE QueueAssumption DEF IInv
<1>1. /\ entry[c] \in MemEntry /\ log_' = Append(log_, entry[c])
      /\ pc[c] = "log" /\ pc'[c] = "wait"
      /\ \A d \in Clients : d # c => pc'[d] = pc[d]
      /\ \A d \in Clients : d # c => pc[d] \notin Critical
      /\ UNCHANGED <<idx_, lock_, queue_, w_ptr, r_ptr, entry, wpc, inserted, list_, stopFLAG>>
  BY DEF AddRecord, writerVars, TypeOK, SeqInv, MutexInv, Critical
<1>2. /\ log_' \in Seq(MemEntry)
      /\ Len(log_) = w_ptr - 1 /\ Len(log_') = w_ptr
      /\ \A i \in 1 .. Len(log_) : log_'[i] = log_[i]
      /\ log_'[w_ptr] = entry[c]
  <2>1. log_ \in Seq(MemEntry) /\ w_ptr \in Nat \ {0}
    BY DEF TypeOK
  <2>2. Len(log_) = w_ptr - 1
    BY <1>1 DEF LogInv, Critical
  <2> QED BY <1>1, <2>1, <2>2, AppendFacts
<1>3. TypeOK' BY <1>1, <1>2 DEF AddRecord, TypeOK, Critical
<1>4. MutexInv' /\ CursorInv' /\ StoredInv' BY <1>1 DEF MutexInv, CursorInv, StoredInv, Critical, Slot
<1>5. LogInv' BY <1>1, <1>2 DEF LogInv, Critical
<1>6. RingInv' /\ WriterInv'
  <2> HIDE DEF IInv
  <2>1. w_ptr \in Nat \ {0} /\ r_ptr \in Nat \ {0}
    BY DEF IInv, TypeOK
  <2>2. \A i \in r_ptr .. w_ptr - 1 : log_'[i] = log_[i]
    BY <1>2, <2>1
  <2>3. RingInv' BY <1>1, <2>2 DEF IInv, RingInv, Slot
  <2>4. Len(inserted) \in Nat /\ Len(inserted) <= w_ptr - 1
    BY <2>1 DEF IInv, WriterInv, CursorInv
  <2>5. \A i \in 1 .. Len(inserted) : log_'[i] = log_[i]
    BY <1>2, <2>1, <2>4
  <2>6. WriterInv' BY <1>1, <2>5 DEF IInv, WriterInv
  <2> QED BY <2>3, <2>6
<1>7. SeqInv'
  <2> HIDE DEF IInv
  <2>1. w_ptr \in Nat \ {0}
    BY DEF IInv, TypeOK
  <2>2. \A i \in 1 .. Len(log_') : log_'[i] = IF i = w_ptr THEN entry[c] ELSE log_[i]
    BY <1>2, <2>1
  <2>3. \A i \in 1 .. Len(log_') : i = w_ptr \/ i \in 1 .. Len(log_)
    BY <1>2, <2>1
  <2>4. \A i \in 1 .. Len(log_) : log_[i].seq_num # entry[c].seq_num
    BY <1>1 DEF IInv, SeqInv
  <2>5. \A i, j \in 1 .. Len(log_') : log_'[i].seq_num = log_'[j].seq_num => i = j
    <3> SUFFICES ASSUME NEW i \in 1 .. Len(log_'), NEW j \in 1 .. Len(log_'),
                        log_'[i].seq_num = log_'[j].seq_num
                 PROVE  i = j
      OBVIOUS
    <3>1. CASE i = w_ptr BY <3>1, <2>2, <2>3, <2>4
    <3>2. CASE j = w_ptr BY <3>2, <2>2, <2>3, <2>4
    <3>3. CASE i # w_ptr /\ j # w_ptr BY <3>3, <2>2, <2>3 DEF IInv, SeqInv
    <3> QED BY <3>1, <3>2, <3>3
  <2>6. \A i \in 1 .. Len(log_') : log_'[i].seq_num < idx_
    BY <1>1, <2>2, <2>3, SeqNumbers
  <2>7. \A d \in Clients : pc'[d] \in {"lock", "log"} =>
          d # c /\ pc[d] \in {"lock", "log"} /\ entry[d].seq_num # entry[c].seq_num
    BY <1>1 DEF IInv, SeqInv
  <2>8. \A d \in Clients : pc'[d] \in {"lock", "log"} =>
          \A i \in 1 .. Len(log_') : log_'[i].seq_num # entry[d].seq_num
    BY <2>2, <2>3, <2>7 DEF IInv, SeqInv
  <2>9. \A d \in Clients : pc'[d] # "idle" => entry[d] \in MemEntry
    BY <1>1 DEF IInv, SeqInv
  <2> QED BY <1>1, <2>5, <2>6, <2>7, <2>8, <2>9 DEF IInv, SeqInv
<1>8. ReturnedInv'
  <2> HIDE DEF IInv
  <2>1. \A i \in 1 .. w_ptr - 1 : log_'[i] = log_[i]
    BY <1>2
  <2>2. \A d \in Clients : pc'[d] = "idle" => pc[d] = "idle"
    BY <1>1
  <2> SUFFICES ASSUME NEW d \in Clients, pc'[d] = "idle", entry'[d] # EmptySlot
               PROVE  \E i \in 1 .. w_ptr' - 1 : log_'[i] = entry'[d]
    BY DEF ReturnedInv
  <2>3. w_ptr' = w_ptr /\ entry'[d] = entry[d]
    BY <1>1
  <2>4. PICK i \in 1 .. w_ptr - 1 : log_[i] = entry[d]
    BY <2>2, <2>3 DEF IInv, ReturnedInv
  <2> QED BY <2>1, <2>3, <2>4
<1> QED BY <1>3, <1>4, <1>5, <1>6, <1>7, <1>8

LEMMA pushStoreKeyStep == ASSUME IInv, NEW c \in Clients, pushStoreKey(c) PROVE IInv'
<1> USE QueueAssumption DEF IInv
<1>1. /\ pc[c] = "wait" /\ pc'[c] = "store" /\ w_ptr - r_ptr # kQueueSize
      /\ \A d \in Clients : d # c => pc'[d] = pc[d]
      /\ \A d \in Clients : d # c => pc[d] \notin Critical
      /\ entry[c] \in MemEntry
      /\ UNCHANGED <<idx_, lock_, log_, w_ptr, r_ptr, entry, wpc, inserted, list_, stopFLAG>>
  BY DEF pushStoreKey, writerVars, TypeOK, SeqInv, MutexInv, Critical, isFull
<1>2. w_ptr < r_ptr + kQueueSize
  BY <1>1 DEF CursorInv, TypeOK
<1>3. \A i \in r_ptr .. w_ptr - 1 : queue_'[Slot(i)] = queue_[Slot(i)]
  <2>1. \A i \in r_ptr .. w_ptr - 1 : Slot(i) # Slot(w_ptr)
    BY <1>2, SlotsDiffer DEF TypeOK
  <2>2. \A i \in r_ptr .. w_ptr - 1 : Slot(i) \in 0 .. kQueueSize - 1
    <3>1. \A i \in r_ptr .. w_ptr - 1 : i \in Nat BY DEF TypeOK
    <3> QED BY <3>1, SlotType
  <2> QED BY <2>1, <2>2 DEF pushStoreKey, TypeOK
<1>4. TypeOK'
  <2>1. queue_' \in [0 .. kQueueSize - 1 ->
                       [key : Keys \cup {NoKey}, seq_num : Nat, value_type : BOOLEAN]]
    <3>1. Slot(w_ptr) \in 0 .. kQueueSize - 1
      BY SlotType DEF TypeOK
    <3> DEFINE S == [key : Keys \cup {NoKey}, seq_num : Nat, value_type : BOOLEAN]
    <3>2. entry[c].key \in Keys
      BY <1>1 DEF MemEntry
    <3>3. queue_ \in [0 .. kQueueSize - 1 -> S]
      BY DEF TypeOK
    <3>4. [queue_[Slot(w_ptr)] EXCEPT !.key = entry[c].key] \in S
      BY <3>1, <3>2, <3>3
    <3>5. queue_' = [queue_ EXCEPT ![Slot(w_ptr)] =
                       [queue_[Slot(w_ptr)] EXCEPT !.key = entry[c].key]]
      BY <3>1, <3>3 DEF pushStoreKey
    <3> HIDE DEF S
    <3>6. queue_' \in [0 .. kQueueSize - 1 -> S]
      BY <3>1, <3>3, <3>4, <3>5
    <3> QED BY <3>6 DEF S
  <2> QED BY <1>1, <2>1 DEF pushStoreKey, TypeOK, Critical
<1>5. MutexInv' /\ CursorInv' BY <1>1, <1>2 DEF MutexInv, CursorInv, Critical
<1>6. LogInv' BY <1>1 DEF LogInv, Critical
<1>7. StoredInv' BY <1>1 DEF StoredInv, Critical
<1>8. RingInv' /\ WriterInv' BY <1>1, <1>3 DEF RingInv, WriterInv, Slot
<1>9. SeqInv' /\ ReturnedInv' BY <1>1 DEF SeqInv, ReturnedInv
<1> QED BY <1>4, <1>5, <1>6, <1>7, <1>8, <1>9

LEMMA pushStoreRestStep == ASSUME IInv, NEW c \in Clients, pushStoreRest(c) PROVE IInv'
<1> USE QueueAssumption DEF IInv
<1>1. /\ pc[c] = "store" /\ pc'[c] = "publish"
      /\ \A d \in Clients : d # c => pc'[d] = pc[d]
      /\ \A d \in Clients : d # c => pc[d] \notin Critical
      /\ entry[c] \in MemEntry
      /\ UNCHANGED <<idx_, lock_, log_, w_ptr, r_ptr, entry, wpc, inserted, list_, stopFLAG>>
  BY DEF pushStoreRest, writerVars, TypeOK, SeqInv, MutexInv, Critical
<1>2. w_ptr < r_ptr + kQueueSize
  BY <1>1 DEF CursorInv, TypeOK
<1>3. Slot(w_ptr) \in 0 .. kQueueSize - 1 /\ queue_'[Slot(w_ptr)] = entry[c]
  BY SlotType DEF TypeOK, pushStoreRest
<1>4. \A i \in r_ptr .. w_ptr - 1 : queue_'[Slot(i)] = queue_[Slot(i)]
  <2>1. \A i \in r_ptr .. w_ptr - 1 : Slot(i) # Slot(w_ptr)
    BY <1>2, SlotsDiffer DEF TypeOK
  <2>2. \A i \in r_ptr .. w_ptr - 1 : Slot(i) \in 0 .. kQueueSize - 1
    <3>1. \A i \in r_ptr .. w_ptr - 1 : i \in Nat BY DEF TypeOK
    <3> QED BY <3>1, SlotType
  <2> QED BY <2>1, <2>2 DEF pushStoreRest, TypeOK
<1>5. TypeOK'
  <2>1. queue_' \in [0 .. kQueueSize - 1 ->
                       [key : Keys \cup {NoKey}, seq_num : Nat, value_type : BOOLEAN]]
    BY <1>1, <1>3 DEF pushStoreRest, TypeOK, MemEntry
  <2> QED BY <1>1, <2>1 DEF pushStoreRest, TypeOK, Critical
<1>6. MutexInv' /\ CursorInv' BY <1>1, <1>2 DEF MutexInv, CursorInv, Critical
<1>7. LogInv' BY <1>1 DEF LogInv, Critical
<1>8. StoredInv' BY <1>1, <1>3 DEF StoredInv, Critical, Slot
<1>9. RingInv' /\ WriterInv' BY <1>1, <1>4 DEF RingInv, WriterInv, Slot
<1>10. SeqInv' /\ ReturnedInv' BY <1>1 DEF SeqInv, ReturnedInv
<1> QED BY <1>5, <1>6, <1>7, <1>8, <1>9, <1>10

LEMMA pushPublishStep == ASSUME IInv, NEW c \in Clients, pushPublish(c) PROVE IInv'
<1> USE QueueAssumption DEF IInv
<1>1. /\ pc[c] = "publish" /\ pc'[c] = "idle" /\ w_ptr' = w_ptr + 1
      /\ \A d \in Clients : d # c => pc'[d] = pc[d]
      /\ \A d \in Clients : d # c => pc[d] \notin Critical
      /\ w_ptr \in Nat \ {0} /\ r_ptr \in Nat \ {0}
      /\ UNCHANGED <<idx_, log_, queue_, r_ptr, entry, wpc, inserted, list_, stopFLAG>>
  BY DEF pushPublish, writerVars, TypeOK, MutexInv, Critical
<1>2. Len(log_) = w_ptr /\ log_[w_ptr] = entry[c] /\ queue_[Slot(w_ptr)] = entry[c]
  BY <1>1 DEF LogInv, StoredInv
<1>3. TypeOK' BY <1>1 DEF pushPublish, TypeOK, Critical
<1>4. MutexInv' BY <1>1 DEF pushPublish, MutexInv, Critical
<1>5. CursorInv' BY <1>1 DEF CursorInv, Critical
<1>6. LogInv' /\ StoredInv' BY <1>1, <1>2 DEF LogInv, StoredInv, Critical
<1>7. RingInv'
  <2>1. \A i \in r_ptr .. w_ptr : i \in r_ptr .. w_ptr - 1 \/ i = w_ptr
    BY <1>1
  <2>2. \A i \in r_ptr .. w_ptr : queue_[Slot(i)] = log_[i]
    BY <1>2, <2>1 DEF RingInv
  <2>3. r_ptr' = r_ptr /\ w_ptr' - 1 = w_ptr /\ queue_' = queue_ /\ log_' = log_
    BY <1>1
  <2> QED BY <2>2, <2>3 DEF RingInv, Slot
<1>8. WriterInv' BY <1>1 DEF WriterInv
<1>9. SeqInv' BY <1>1 DEF SeqInv
<1>10. ReturnedInv' BY <1>1, <1>2 DEF ReturnedInv
<1> QED BY <1>3, <1>4, <1>5, <1>6, <1>7, <1>8, <1>9, <1>10

LEMMA workRoundStep ==
  ASSUME IInv, workRound \/ wrlock \/ mayInsertMessage \/ AppendFrozenList \/ stop
  PROVE  IInv'
<1> USE QueueAssumption
<1>1. /\ UNCHANGED <<idx_, lock_, log_, queue_, w_ptr, r_ptr, pc, entry, inserted>>
      /\ wpc' \in {"round", "lock", "check", "insert", "quit"} \/ wpc' = wpc
      /\ wpc' = "insert" => wpc = "insert" \/ w_ptr # r_ptr
      /\ wpc' = "pop" <=> wpc = "pop"
  BY DEF workRound, wrlock, mayInsertMessage, AppendFrozenList, stop, clientVars, writerVars,
     isEmpty
<1>2. stopFLAG' \in BOOLEAN /\ list_' \subseteq Keys
  BY DEF workRound, wrlock, mayInsertMessage, AppendFrozenList, stop, writerVars, IInv, TypeOK
<1>3. TypeOK' BY <1>1, <1>2 DEF IInv, TypeOK
<1>4. MutexInv' /\ CursorInv' BY <1>1 DEF IInv, MutexInv, CursorInv
<1>5. LogInv' /\ StoredInv' BY <1>1 DEF IInv, LogInv, StoredInv, Slot
<1>6. RingInv' BY <1>1 DEF IInv, RingInv, Slot
<1>7. SeqInv' /\ ReturnedInv' BY <1>1 DEF IInv, SeqInv, ReturnedInv
<1>8. WriterInv'
  <2>1. r_ptr \in Nat /\ w_ptr \in Nat /\ r_ptr <= w_ptr
    BY DEF IInv, TypeOK, CursorInv
  <2> QED BY <1>1, <2>1 DEF IInv, WriterInv
<1> QED BY <1>3, <1>4, <1>5, <1>6, <1>7, <1>8 DEF IInv

(* The front of the ring is the record after those already inserted.       *)
LEMMA insertFrontStep == ASSUME IInv, insertFront PROVE IInv'
<1> USE QueueAssumption DEF IInv
<1>1. /\ wpc = "insert" /\ wpc' = "pop" /\ inserted' = Append(inserted, queue_[Slot(r_ptr)])
      /\ UNCHANGED <<clientVars, r_ptr, stopFLAG>>
      /\ inserted \in Seq(MemEntry) /\ log_ \in Seq(MemEntry)
      /\ r_ptr \in Nat \ {0} /\ w_ptr \in Nat \ {0}
  BY DEF insertFront, TypeOK
<1>2. r_ptr < w_ptr /\ Len(inserted) = r_ptr - 1
  BY <1>1 DEF WriterInv
<1>3. Len(log_) >= w_ptr - 1
  BY <1>1 DEF LogInv
<1>4. queue_[Slot(r_ptr)] = log_[r_ptr] /\ log_[r_ptr] \in MemEntry
  BY <1>1, <1>2, <1>3, SeqFacts DEF RingInv
<1>5. /\ inserted' \in Seq(MemEntry) /\ Len(inserted') = r_ptr
      /\ \A i \in 1 .. r_ptr : inserted'[i] = log_[i]
  BY <1>1, <1>2, <1>4, AppendFacts DEF WriterInv
<1>6. TypeOK'
  <2>1. list_' \subseteq Keys
    BY <1>4 DEF insertFront, TypeOK, MemEntry
  <2> QED BY <1>1, <1>5, <2>1 DEF TypeOK, clientVars
<1>7. MutexInv' /\ CursorInv' /\ LogInv' /\ StoredInv' /\ RingInv' /\ SeqInv' /\ ReturnedInv'
  BY <1>1 DEF MutexInv, CursorInv, LogInv, StoredInv, RingInv, SeqInv, ReturnedInv, Slot, clientVars
<1>8. WriterInv' BY <1>1, <1>2, <1>5 DEF WriterInv, clientVars
<1> QED BY <1>6, <1>7, <1>8

LEMMA popStep == ASSUME IInv, pop PROVE IInv'
<1> USE QueueAssumption DEF IInv
<1>1. /\ wpc = "pop" /\ wpc' \in {"append", "check"} /\ r_ptr' = r_ptr + 1
      /\ UNCHANGED <<clientVars, inserted, list_, stopFLAG>>
      /\ r_ptr \in Nat \ {0} /\ w_ptr \in Nat \ {0} /\ r_ptr < w_ptr
  BY DEF pop, TypeOK, WriterInv
<1>2. TypeOK' BY <1>1 DEF TypeOK, clientVars
<1>3. MutexInv' /\ LogInv' /\ StoredInv' /\ SeqInv' /\ ReturnedInv'
  BY <1>1 DEF MutexInv, LogInv, StoredInv, SeqInv, ReturnedInv, Slot, clientVars
<1>4. CursorInv' /\ RingInv' BY <1>1 DEF CursorInv, RingInv, Slot, clientVars
<1>5. WriterInv' BY <1>1 DEF WriterInv, clientVars
<1> QED BY <1>2, <1>3, <1>4, <1>5

LEMMA NextIInv == ASSUME IInv, [Next]_vars PROVE IInv'
<1>1. CASE \E c \in Clients, k \in Keys, del \in DelFlags : setKey(c, k, del)
  BY <1>1, setKeyStep
<1>2. CASE setElsewhere BY <1>2, setElsewhereStep
<1>3. CASE \E c \in Clients : push(c)
  BY <1>3, pushLockStep, AddRecordStep, pushStoreKeyStep, pushStoreRestStep,
     pushPublishStep DEF push
<1>4. CASE writer
  BY <1>4, workRoundStep, insertFrontStep, popStep DEF writer, writerRuns
<1>5. CASE stop BY <1>5, workRoundStep
<1>6. CASE UNCHANGED vars
  BY <1>6 DEF vars, IInv, TypeOK, MutexInv, CursorInv, LogInv, StoredInv, RingInv,
     WriterInv, SeqInv, ReturnedInv, Slot
<1> QED BY <1>1, <1>2, <1>3, <1>4, <1>5, <1>6 DEF Next

-----------------------------------------------------------------------------
(* Results.                                                                *)

(* The strengthened invariant holds throughout every behaviour: it is true *)
(* at the start and each step of clients, Writer and stop keeps it.        *)
THEOREM Inductive == Spec => []IInv
  BY InitIInv, NextIInv, PTL DEF Spec

(* Every variable stays in its set; in particular what the Writer takes    *)
(* out of the ring is always an entry, never a slot nobody wrote (getFront *)
(* and pop on a ring that is not empty).                                   *)
THEOREM TypeCorrect == Spec => []TypeOK
<1>1. IInv => TypeOK BY DEF IInv
<1> QED BY <1>1, Inductive, PTL

(* No push overwrites an entry the Writer has not popped, and positions    *)
(* are published in log order, for every capacity and number of clients.   *)
THEOREM RingCorrect == Spec => []RingHoldsLog
<1>1. ASSUME IInv PROVE RingHoldsLog
  <2>1. Len(log_) \in Nat /\ DOMAIN log_ = 1 .. Len(log_)
    BY <1>1, SeqFacts DEF IInv, TypeOK
  <2>2. w_ptr \in Nat \ {0} /\ r_ptr \in Nat \ {0}
    BY <1>1 DEF IInv, TypeOK
  <2>3. Len(log_) >= w_ptr - 1
    BY <1>1, <2>2 DEF IInv, LogInv
  <2>4. \A i \in r_ptr .. w_ptr - 1 : i \in DOMAIN log_
    BY <2>1, <2>2, <2>3
  <2> QED BY <1>1, <2>4 DEF IInv, CursorInv, RingInv, RingHoldsLog
<1> QED BY <1>1, Inductive, PTL

(* The Writer inserts the records of the log in order, without gap or      *)
(* repetition, and never one that is not logged.                           *)
THEOREM PrefixCorrect == Spec => []InsertedIsLogPrefix
<1>1. ASSUME IInv PROVE InsertedIsLogPrefix
  <2>1. w_ptr \in Nat \ {0} /\ r_ptr \in Nat \ {0}
    BY <1>1 DEF IInv, TypeOK
  <2>2. Len(log_) >= w_ptr - 1 /\ Len(log_) \in Nat
    BY <1>1, <2>1, SeqFacts DEF IInv, LogInv, TypeOK
  <2>3. Len(inserted) <= w_ptr - 1 /\ Len(inserted) \in Nat
    BY <1>1, <2>1, SeqFacts DEF IInv, WriterInv, CursorInv, TypeOK
  <2>4. Len(inserted) <= Len(log_)
    BY <2>1, <2>2, <2>3
  <2>5. \A i \in 1 .. Len(inserted) : inserted[i] = log_[i]
    BY <1>1 DEF IInv, WriterInv
  <2> QED BY <2>4, <2>5 DEF InsertedIsLogPrefix
<1> QED BY <1>1, Inductive, PTL

(* A set that has returned is in the log exactly once and published.       *)
THEOREM ReturnedCorrect == Spec => []ReturnedSetIsLogged
<1>1. ASSUME IInv PROVE ReturnedSetIsLogged
  <2>1. Len(log_) \in Nat /\ DOMAIN log_ = 1 .. Len(log_)
    BY <1>1, SeqFacts DEF IInv, TypeOK
  <2>2. w_ptr \in Nat \ {0} /\ Len(log_) >= w_ptr - 1
    BY <1>1 DEF IInv, TypeOK, LogInv
  <2>3. \A i, j \in DOMAIN log_ : log_[i].seq_num = log_[j].seq_num => i = j
    BY <1>1, <2>1 DEF IInv, SeqInv
  <2>4. \A i \in Positions : i \in DOMAIN log_
    BY <2>1, <2>2 DEF Positions
  <2> QED BY <1>1, <2>3, <2>4 DEF IInv, ReturnedInv, ReturnedSetIsLogged, Positions
<1> QED BY <1>1, Inductive, PTL

(* The threads and the ring implement the write-ahead log: each step is a  *)
(* step of WriteAheadLog or leaves its variables alone.                    *)
THEOREM Implements == Spec => Refinement
<1>1. Init => WAL!Init
  BY DEF Init, WAL!Init
<1>2. ASSUME IInv, [Next]_vars PROVE [WAL!Next]_(WAL!vars)
  <2> USE DEF WAL!vars, clientVars, writerVars
  <2>1. CASE \E c \in Clients, k \in Keys, del \in DelFlags : setKey(c, k, del)
    BY <2>1 DEF setKey, WAL!Next, WAL!Draw
  <2>2. CASE setElsewhere
    BY <2>2 DEF setElsewhere, WAL!Next, WAL!Draw
  <2>3. ASSUME NEW c \in Clients, AddRecord(c) PROVE WAL!Record
    <3>1. entry[c] \in MemEntry /\ entry[c].seq_num < idx_ /\ idx_ \in Nat
      BY <1>2, <2>3, SeqNumbers DEF AddRecord, IInv, SeqInv
    <3>2. entry[c] \in WAL!Entries(idx_ - 1)
      BY <3>1 DEF MemEntry, WAL!Entries
    <3>3. \A i \in DOMAIN log_ : log_[i].seq_num # entry[c].seq_num
      BY <1>2, <2>3, SeqFacts DEF AddRecord, IInv, SeqInv, TypeOK
    <3>4. Len(log_) - Len(inserted) < kQueueSize + 1
      <4>1. \A d \in Clients : pc[d] \in {"wait", "store", "publish"} => FALSE
        BY <1>2, <2>3 DEF AddRecord, IInv, MutexInv, Critical
      <4>2. Len(log_) = w_ptr - 1
        BY <1>2, <4>1 DEF IInv, LogInv
      <4> QED BY <1>2, <4>2, QueueAssumption DEF IInv, WriterInv, CursorInv, TypeOK
    <3> QED BY <2>3, <3>2, <3>3, <3>4 DEF AddRecord, WAL!Record
  <2>4. ASSUME NEW c \in Clients, push(c) PROVE [WAL!Next]_(WAL!vars)
    <3>1. CASE AddRecord(c) BY <3>1, <2>3 DEF WAL!Next
    <3>2. CASE pushLock(c) \/ pushStoreKey(c) \/ pushStoreRest(c) \/ pushPublish(c)
      BY <3>2 DEF pushLock, pushStoreKey, pushStoreRest, pushPublish
    <3> QED BY <2>4, <3>1, <3>2 DEF push
  <2>5. ASSUME insertFront PROVE WAL!Apply
    <3>1. r_ptr < w_ptr /\ Len(inserted) = r_ptr - 1 /\ r_ptr \in Nat \ {0} /\ w_ptr \in Nat \ {0}
      BY <1>2, <2>5 DEF insertFront, IInv, WriterInv, TypeOK
    <3>2. Len(log_) >= w_ptr - 1 /\ Len(log_) \in Nat
      BY <1>2, <3>1, SeqFacts DEF IInv, LogInv, TypeOK
    <3>3. queue_[Slot(r_ptr)] = log_[Len(inserted) + 1]
      BY <1>2, <3>1 DEF IInv, RingInv
    <3> QED BY <2>5, <3>1, <3>2, <3>3 DEF insertFront, WAL!Apply
  <2>6. CASE writer
    <3>1. CASE insertFront BY <3>1, <2>5 DEF WAL!Next
    <3>2. CASE workRound \/ wrlock \/ mayInsertMessage \/ pop \/ AppendFrozenList
      BY <3>2 DEF workRound, wrlock, mayInsertMessage, pop, AppendFrozenList
    <3> QED BY <2>6, <3>1, <3>2 DEF writer, writerRuns
  <2>7. CASE stop BY <2>7 DEF stop
  <2>8. CASE UNCHANGED vars BY <2>8 DEF vars
  <2> QED BY <1>2, <2>1, <2>2, <2>4, <2>6, <2>7, <2>8 DEF Next
<1> QED BY <1>1, <1>2, Inductive, PTL DEF Spec, Refinement, WAL!Spec
-----------------------------------------------------------------------------
(* How far the log is from the order of the numbers.                       *)

(* The numbers record i went ahead of: those below its own which are       *)
(* logged after it or drawn and not yet logged.  When record i is written  *)
(* they belong to clients other than its own; later ones are drawn above   *)
(* it, so that the set only loses members.                                 *)
Drawn == {c \in Clients : pc[c] \in {"lock", "log"}}
Smaller(i) ==
  {n \in Nat : /\ n < log_[i].seq_num
               /\ \/ \E j \in i .. Len(log_) : log_[j].seq_num = n
                  \/ \E c \in Drawn : entry[c].seq_num = n}

AheadInv == \A i \in 1 .. Len(log_) : Cardinality(Smaller(i)) < Cardinality(Clients)

(* Only AddRecord writes to the log, and only setKey draws a number.       *)
LEMMA LogAndDrawnStep ==
  ASSUME IInv, [Next]_vars
  PROVE  /\ \/ log_' = log_
            \/ \E c \in Clients :
                 /\ pc[c] = "log" /\ log_' = Append(log_, entry[c])
                 /\ pc'[c] = "wait" /\ entry' = entry
         /\ \A d \in Clients : pc'[d] \in {"lock", "log"} =>
              \/ pc[d] \in {"lock", "log"} /\ entry'[d] = entry[d]
              \/ entry'[d].seq_num = idx_ /\ log_' = log_
<1> USE DEF IInv, TypeOK, clientVars, writerVars
<1>1. CASE \E c \in Clients, k \in Keys, del \in DelFlags : setKey(c, k, del)
  <2>1. PICK c \in Clients, k \in Keys, del \in DelFlags : setKey(c, k, del)
    BY <1>1
  <2>2. /\ log_' = log_ /\ entry'[c].seq_num = idx_
        /\ \A d \in Clients \ {c} : pc'[d] = pc[d] /\ entry'[d] = entry[d]
    BY <2>1 DEF setKey
  <2> QED BY <2>2
<1>2. CASE setElsewhere BY <1>2 DEF setElsewhere
<1>3. ASSUME NEW c \in Clients, pushLock(c) \/ pushStoreKey(c) \/ pushStoreRest(c) \/ pushPublish(c)
      PROVE  /\ log_' = log_ /\ entry' = entry
             /\ \A d \in Clients : pc'[d] \in {"lock", "log"} => pc[d] \in {"lock", "log"}
  BY <1>3 DEF pushLock, pushStoreKey, pushStoreRest, pushPublish
<1>4. ASSUME NEW c \in Clients, AddRecord(c)
      PROVE  /\ pc[c] = "log" /\ log_' = Append(log_, entry[c])
             /\ pc'[c] = "wait" /\ entry' = entry
             /\ \A d \in Clients : pc'[d] \in {"lock", "log"} => pc[d] \in {"lock", "log"}
  BY <1>4 DEF AddRecord
<1>5. CASE \E c \in Clients : push(c)
  BY <1>3, <1>4, <1>5 DEF push
<1>6. CASE writer \/ stop
  BY <1>6 DEF writer, writerRuns, workRound, wrlock, mayInsertMessage, insertFront, pop,
     AppendFrozenList, stop
<1>7. CASE UNCHANGED vars BY <1>7 DEF vars
<1> QED BY <1>1, <1>2, <1>5, <1>6, <1>7 DEF Next

LEMMA SmallerIsFinite ==
  ASSUME IInv, NEW i \in 1 .. Len(log_)
  PROVE  IsFiniteSet(Smaller(i)) /\ Cardinality(Smaller(i)) \in Nat
<1> DEFINE S == Smaller(i)
           m == log_[i].seq_num
<1>1. m \in Nat
  BY SeqNumbers
<1>2. S \in SUBSET Nat /\ \A n \in S : n <= m
  BY <1>1 DEF Smaller
<1> HIDE DEF S, m
<1>3. IsFiniteSet(S)
  BY <1>1, <1>2, FS_BoundedSetOfNaturals
<1>4. Cardinality(S) \in Nat
  BY <1>3, FS_CardinalityType
<1> QED BY <1>3, <1>4 DEF S

LEMMA NextAheadInv ==
  ASSUME IInv, AheadInv, [Next]_vars
  PROVE  AheadInv'
<1> DEFINE Next_(i) ==
             {n \in Nat : /\ n < log_'[i].seq_num
                          /\ \/ \E j \in i .. Len(log_') : log_'[j].seq_num = n
                             \/ \E c \in Clients :
                                  pc'[c] \in {"lock", "log"} /\ entry'[c].seq_num = n}
<1>1. SUFFICES ASSUME NEW i \in 1 .. Len(log_')
               PROVE  Cardinality(Next_(i)) < Cardinality(Clients)
  <2>1. AheadInv' <=> \A i \in 1 .. Len(log_') : Cardinality(Next_(i)) < Cardinality(Clients)
    BY DEF AheadInv, Smaller, Drawn
  <2> QED BY <2>1
<1>2. /\ log_ \in Seq(MemEntry) /\ Len(log_) \in Nat /\ IsFiniteSet(Clients)
      /\ Cardinality(Clients) \in Nat
  BY SeqFacts, ClientsAssumption, FS_CardinalityType DEF IInv, TypeOK
<1>3. \/ log_' = log_
      \/ /\ Len(log_') = Len(log_) + 1
         /\ \A j \in 1 .. Len(log_) : log_'[j] = log_[j]
         /\ \E c \in Clients : /\ pc[c] = "log" /\ pc'[c] = "wait" /\ entry' = entry
                               /\ log_'[Len(log_) + 1] = entry[c]
  <2>1. CASE log_' = log_
    BY <2>1
  <2>2. ASSUME NEW c \in Clients, pc[c] = "log", log_' = Append(log_, entry[c]),
               pc'[c] = "wait", entry' = entry
        PROVE  /\ Len(log_') = Len(log_) + 1
               /\ \A j \in 1 .. Len(log_) : log_'[j] = log_[j]
               /\ log_'[Len(log_) + 1] = entry[c]
    <3>1. entry[c] \in MemEntry
      BY <2>2 DEF IInv, SeqInv
    <3> QED BY <1>2, <2>2, <3>1, AppendFacts
  <2> QED BY <2>1, <2>2, LogAndDrawnStep
<1>4. CASE i \in 1 .. Len(log_)
  <2>1. log_'[i] = log_[i] /\ log_[i].seq_num \in Nat /\ log_[i].seq_num < idx_ /\ idx_ \in Nat
    BY <1>3, <1>4, SeqNumbers
  <2>2. Next_(i) \subseteq Smaller(i)
    <3> SUFFICES ASSUME NEW n \in Next_(i) PROVE n \in Smaller(i)
      OBVIOUS
    <3>1. n \in Nat /\ n < log_[i].seq_num /\ n < idx_
      BY <2>1
    <3>2. ASSUME NEW j \in i .. Len(log_'), log_'[j].seq_num = n
          PROVE  n \in Smaller(i)
      <4>1. CASE j \in i .. Len(log_)
        <5>1. log_'[j] = log_[j]
          BY <1>2, <1>3, <1>4, <4>1
        <5> QED BY <3>1, <3>2, <4>1, <5>1 DEF Smaller
      <4>2. CASE j \notin i .. Len(log_)
        <5>1. Len(log_') = Len(log_) + 1 /\ j = Len(log_) + 1
          BY <1>2, <1>3, <1>4, <4>2
        <5>2. PICK c \in Clients : pc[c] = "log" /\ log_'[Len(log_) + 1] = entry[c]
          BY <1>2, <1>3, <5>1
        <5>3. c \in Drawn /\ entry[c].seq_num = n
          BY <3>2, <5>1, <5>2 DEF Drawn
        <5> QED BY <3>1, <5>3 DEF Smaller
      <4> QED BY <4>1, <4>2
    <3>3. ASSUME NEW c \in Clients, pc'[c] \in {"lock", "log"}, entry'[c].seq_num = n
          PROVE  n \in Smaller(i)
      <4>1. entry'[c].seq_num # idx_
        BY <2>1, <3>1, <3>3
      <4>2. c \in Drawn /\ entry[c].seq_num = n
        BY <3>3, <4>1, LogAndDrawnStep DEF Drawn
      <4> QED BY <3>1, <4>2 DEF Smaller
    <3> QED BY <3>2, <3>3
  <2>3. IsFiniteSet(Smaller(i)) /\ Cardinality(Smaller(i)) \in Nat
    BY <1>4, SmallerIsFinite
  <2>4. Cardinality(Smaller(i)) < Cardinality(Clients)
    BY <1>4 DEF AheadInv
  <2> DEFINE S == Next_(i)
             T == Smaller(i)
  <2> HIDE DEF Next_, S, T
  <2>5. IsFiniteSet(T) /\ S \in SUBSET T
    BY <2>2, <2>3 DEF S, T
  <2>6. IsFiniteSet(S) /\ Cardinality(S) <= Cardinality(T)
    BY <2>5, FS_Subset
  <2>7. Cardinality(S) \in Nat
    BY <2>6, FS_CardinalityType
  <2>8. Cardinality(S) < Cardinality(Clients)
    BY <1>2, <2>3, <2>4, <2>6, <2>7 DEF T
  <2> QED BY <2>8 DEF S
<1>5. CASE i \notin 1 .. Len(log_)
  <2>1. Len(log_') = Len(log_) + 1 /\ i = Len(log_) + 1
    BY <1>2, <1>3, <1>5
  <2>2. PICK c \in Clients : /\ pc[c] = "log" /\ pc'[c] = "wait" /\ entry' = entry
                             /\ log_'[i] = entry[c]
    BY <1>2, <1>3, <2>1
  <2> DEFINE Others == Clients \ {c}
             f == [d \in Others |-> entry[d].seq_num]
             T == {entry[d].seq_num : d \in Others}
             S == Next_(i)
  <2>3. S \subseteq T
    <3> SUFFICES ASSUME NEW n \in S PROVE n \in T
      OBVIOUS
    <3>1. /\ n < log_'[i].seq_num /\ log_'[i].seq_num \in Nat /\ n \in Nat
      BY <2>2, SeqNumbers
    <3>2. ASSUME NEW j \in i .. Len(log_'), log_'[j].seq_num = n PROVE FALSE
      <4>1. j = i
        BY <1>2, <2>1, <3>2
      <4> QED BY <3>1, <3>2, <4>1
    <3>3. PICK d \in Clients : pc'[d] \in {"lock", "log"} /\ entry'[d].seq_num = n
      BY <3>2
    <3>4. d \in Others /\ entry[d].seq_num = n
      BY <2>2, <3>3
    <3> QED BY <3>4
  <2>4. IsFiniteSet(Others) /\ Cardinality(Others) = Cardinality(Clients) - 1
    BY <1>2, FS_RemoveElement
  <2>5. f \in Surjection(Others, T)
    BY DEF Surjection
  <2> HIDE DEF Next_, Others, f, T, S
  <2>6. IsFiniteSet(T) /\ Cardinality(T) <= Cardinality(Others)
    BY <2>4, <2>5, FS_Surjection
  <2>7. IsFiniteSet(S) /\ Cardinality(S) <= Cardinality(T)
    BY <2>3, <2>6, FS_Subset
  <2>8. Cardinality(S) \in Nat /\ Cardinality(T) \in Nat
    BY <2>6, <2>7, FS_CardinalityType
  <2>9. Cardinality(S) < Cardinality(Clients)
    BY <1>2, <2>4, <2>6, <2>7, <2>8
  <2> QED BY <2>9 DEF S
<1> QED BY <1>4, <1>5

(* Numbers are drawn outside lock_, so the log is not in their order; but  *)
(* a record goes ahead of at most one smaller number of each other client, *)
(* the one that client held when the record was written.  How many records *)
(* go ahead of one waiting number has no bound.                            *)
THEOREM InversionIsBounded == Spec => []BoundedSeqInversion
<1>1. Init => AheadInv
  BY DEF Init, AheadInv
<1>2. IInv /\ AheadInv /\ [Next]_vars => AheadInv'
  BY NextAheadInv
<1>3. ASSUME IInv, AheadInv PROVE BoundedSeqInversion
  <2> SUFFICES ASSUME NEW i \in DOMAIN log_
               PROVE  Cardinality({j \in i .. Len(log_) : log_[j].seq_num < log_[i].seq_num})
                        < Cardinality(Clients)
    BY DEF BoundedSeqInversion
  <2> DEFINE J == {j \in i .. Len(log_) : log_[j].seq_num < log_[i].seq_num}
             f == [j \in J |-> log_[j].seq_num]
             T == Smaller(i)
  <2>1. Len(log_) \in Nat /\ i \in 1 .. Len(log_) /\ Cardinality(Clients) \in Nat
    BY <1>3, SeqFacts, ClientsAssumption, FS_CardinalityType DEF IInv, TypeOK
  <2>2. \A j \in J : j \in 1 .. Len(log_) /\ log_[j].seq_num \in Nat
    BY <1>3, <2>1, SeqNumbers
  <2>3. \A j \in J : log_[j].seq_num \in T
    BY <2>2 DEF Smaller
  <2>4. \A j, k \in J : log_[j].seq_num = log_[k].seq_num => j = k
    BY <1>3, <2>2 DEF IInv, SeqInv
  <2>5. f \in Injection(J, T)
    <3> HIDE DEF J, T
    <3>1. f \in [J -> T]
      BY <2>3
    <3>2. \A j, k \in J : f[j] = f[k] => j = k
      BY <2>4
    <3> QED BY <3>1, <3>2 DEF Injection, IsInjective
  <2>6. IsFiniteSet(T) /\ Cardinality(T) \in Nat /\ Cardinality(T) < Cardinality(Clients)
    BY <1>3, <2>1, SmallerIsFinite DEF AheadInv
  <2> HIDE DEF J, f, T
  <2>7. IsFiniteSet(J) /\ Cardinality(J) <= Cardinality(T)
    BY <2>5, <2>6, FS_Injection
  <2>8. Cardinality(J) \in Nat
    BY <2>7, FS_CardinalityType
  <2>9. Cardinality(J) < Cardinality(Clients)
    BY <2>1, <2>6, <2>7, <2>8
  <2> QED BY <2>9 DEF J
<1> QED BY <1>1, <1>2, <1>3, Inductive, PTL DEF Spec
-----------------------------------------------------------------------------
(* The inductive invariant of QueueSearch.                                 *)

(* A slot holds the entry of a published position, popped or not, until a  *)
(* push one round later begins to store there.                             *)
KeptInv == \A i \in 1 .. w_ptr - 1 :
             LastStored < i + kQueueSize => queue_[Slot(i)] = log_[i]

(* A search looks only at published positions, and below its end at popped *)
(* ones; what it has of a slot that was not overwritten is the entry's.    *)
Bounds(r) ==
  /\ rpc[r] = "end" => begin[r] < w_ptr
  /\ rpc[r] \in {"loop", "slot", "hit", "miss"} =>
       /\ begin[r] < w_ptr /\ end[r] <= r_ptr
       /\ pos[r] <= begin[r]
  /\ rpc[r] \in {"slot", "hit"} => pos[r] >= end[r]
  /\ rpc[r] = "miss" => pos[r] < end[r]

Copy(r) ==
  LastStored < pos[r] + kQueueSize =>
    /\ rpc[r] = "slot" => slot[r].key = log_[pos[r]].key
    /\ rpc[r] = "hit" => found[r] = log_[pos[r]]

Passed(r) ==
  rpc[r] \in {"loop", "slot", "hit", "miss"} =>
    \A i \in pos[r] + 1 .. begin[r] :
      matches(r, log_[i]) => \E j \in 1 .. Len(inserted) : inserted[j] = log_[i]

BoundsInv == \A r \in Readers : Bounds(r)
CopyInv == \A r \in Readers : Copy(r)
PassedInv == \A r \in Readers : Passed(r)

SInv == IInv /\ SearchTypeOK /\ KeptInv /\ BoundsInv /\ CopyInv /\ PassedInv

-----------------------------------------------------------------------------
(* What the steps of clients and Writer mean to a reader.                  *)

(* Numbers the lemmas below reckon with: a store that is under way is of   *)
(* the position after the published ones, and that slot was popped.        *)
LEMMA Numbers ==
  ASSUME IInv
  PROVE  /\ kQueueSize \in Nat \ {0}
         /\ w_ptr \in Nat \ {0} /\ r_ptr \in Nat \ {0}
         /\ Len(log_) \in Nat /\ Len(log_) >= w_ptr - 1
         /\ DOMAIN log_ = 1 .. Len(log_)
         /\ LastStored \in {w_ptr - 1, w_ptr}
         /\ LastStored < r_ptr + kQueueSize
<1>1. /\ kQueueSize \in Nat \ {0} /\ w_ptr \in Nat \ {0} /\ r_ptr \in Nat \ {0}
      /\ w_ptr <= r_ptr + kQueueSize
  BY QueueAssumption DEF IInv, TypeOK, CursorInv
<1>2. Len(log_) \in Nat /\ DOMAIN log_ = 1 .. Len(log_)
  BY SeqFacts DEF IInv, TypeOK
<1>3. Len(log_) >= w_ptr - 1
  BY <1>1 DEF IInv, LogInv
<1>4. LastStored \in {w_ptr - 1, w_ptr}
  BY DEF LastStored
<1>5. LastStored < r_ptr + kQueueSize
  <2>1. CASE \E c \in Clients : pc[c] \in {"store", "publish"}
    BY <1>1, <2>1 DEF LastStored, IInv, CursorInv
  <2>2. CASE ~ \E c \in Clients : pc[c] \in {"store", "publish"}
    BY <1>1, <2>2 DEF LastStored
  <2> QED BY <2>1, <2>2
<1> QED BY <1>1, <1>2, <1>3, <1>4, <1>5

LEMMA Predecessor == ASSUME NEW n \in Nat \ {0} PROVE n \in Nat /\ n - 1 \in Nat
  OBVIOUS

(* What is popped is inserted.                                             *)
LEMMA PoppedIsInserted ==
  ASSUME IInv, NEW i \in 1 .. r_ptr - 1
  PROVE  \E j \in 1 .. Len(inserted) : inserted[j] = log_[i]
<1>1. r_ptr \in Nat \ {0} /\ Len(inserted) \in {r_ptr - 1, r_ptr}
  BY DEF IInv, TypeOK, WriterInv
<1>2. i \in 1 .. Len(inserted)
  BY <1>1
<1> QED BY <1>2 DEF IInv, WriterInv

(* The cursors, the log and what is inserted only grow.                    *)
LEMMA Growth ==
  ASSUME IInv, [Next]_vars
  PROVE  /\ w_ptr' >= w_ptr /\ r_ptr' >= r_ptr /\ LastStored' >= LastStored
         /\ \A i \in 1 .. Len(log_) : log_'[i] = log_[i]
         /\ Len(inserted') >= Len(inserted)
         /\ \A i \in 1 .. Len(inserted) : inserted'[i] = inserted[i]
<1>1. /\ w_ptr \in Nat /\ r_ptr \in Nat /\ inserted \in Seq(MemEntry) /\ log_ \in Seq(MemEntry)
      /\ Len(inserted) \in Nat
  BY SeqFacts DEF IInv, TypeOK
<1>2. CASE \E c \in Clients, k \in Keys, del \in DelFlags : setKey(c, k, del)
  <2>1. PICK c \in Clients : pc[c] = "idle" /\ pc' = [pc EXCEPT ![c] = "lock"]
    BY <1>2 DEF setKey
  <2>2. UNCHANGED <<w_ptr, r_ptr, log_, inserted>>
    BY <1>2 DEF setKey, writerVars
  <2>3. LastStored' = LastStored
    BY <2>1, <2>2 DEF LastStored, IInv, TypeOK
  <2> QED BY <1>1, <2>2, <2>3, Numbers
<1>3. CASE \/ setElsewhere \/ stop \/ UNCHANGED vars
           \/ workRound \/ wrlock \/ mayInsertMessage \/ AppendFrozenList
  <2>1. UNCHANGED <<w_ptr, r_ptr, log_, inserted, pc>>
    BY <1>3 DEF setElsewhere, stop, vars, workRound, wrlock, mayInsertMessage, AppendFrozenList,
       clientVars, writerVars
  <2> QED BY <1>1, <2>1, Numbers DEF LastStored
<1>4. ASSUME NEW c \in Clients, push(c)
      PROVE  /\ w_ptr' >= w_ptr /\ LastStored' >= LastStored
             /\ \A i \in 1 .. Len(log_) : log_'[i] = log_[i]
             /\ UNCHANGED <<r_ptr, inserted>>
  <2>1. UNCHANGED <<r_ptr, inserted>>
    BY <1>4 DEF push, pushLock, AddRecord, pushStoreKey, pushStoreRest, pushPublish, writerVars
  <2>2. CASE pushLock(c)
    BY <1>1, <2>1, <2>2, Numbers DEF pushLock, LastStored, IInv, TypeOK
  <2>3. CASE AddRecord(c)
    <3>1. entry[c] \in MemEntry
      BY <2>3 DEF AddRecord, IInv, SeqInv
    <3>2. \A i \in 1 .. Len(log_) : log_'[i] = log_[i]
      BY <1>1, <2>3, <3>1, AppendFacts DEF AddRecord
    <3> QED BY <1>1, <2>1, <2>3, <3>2, Numbers DEF AddRecord, LastStored, IInv, TypeOK
  <2>4. CASE pushStoreKey(c) \/ pushStoreRest(c)
    <3>1. w_ptr' = w_ptr /\ log_' = log_ /\ pc'[c] \in {"store", "publish"}
      BY <2>4 DEF pushStoreKey, pushStoreRest, IInv, TypeOK
    <3>2. LastStored' = w_ptr
      BY <3>1 DEF LastStored
    <3> QED BY <2>1, <3>1, <3>2, Numbers
  <2>5. CASE pushPublish(c)
    <3>1. w_ptr' = w_ptr + 1 /\ log_' = log_
      BY <2>5 DEF pushPublish
    <3>2. LastStored' \in {w_ptr, w_ptr + 1}
      BY <1>1, <3>1 DEF LastStored
    <3> QED BY <1>1, <2>1, <3>1, <3>2, Numbers
  <2> QED BY <1>4, <2>2, <2>3, <2>4, <2>5, <2>1 DEF push
<1>5. CASE \E c \in Clients : push(c)
  BY <1>1, <1>4, <1>5
<1>6. CASE insertFront
  <2>1. UNCHANGED <<w_ptr, r_ptr, log_, pc>> /\ inserted' = Append(inserted, queue_[Slot(r_ptr)])
    BY <1>6 DEF insertFront, clientVars
  <2>2. LastStored' = LastStored
    BY <2>1 DEF LastStored
  <2>3. Len(inserted') = Len(inserted) + 1 /\ \A i \in 1 .. Len(inserted) : inserted'[i] = inserted[i]
    BY <1>1, <2>1
  <2> QED BY <1>1, <2>1, <2>2, <2>3, Numbers
<1>7. CASE pop
  <2>1. UNCHANGED <<w_ptr, log_, pc, inserted>> /\ r_ptr' = r_ptr + 1
    BY <1>7 DEF pop, clientVars
  <2>2. LastStored' = LastStored
    BY <2>1 DEF LastStored
  <2> QED BY <1>1, <2>1, <2>2, Numbers
<1> QED BY <1>2, <1>3, <1>5, <1>6, <1>7 DEF Next, writer, writerRuns

(* No step of client or Writer changes a slot but that of the next         *)
(* position, a full round after the oldest of those that still count.      *)
LEMMA KeptStep == ASSUME IInv, KeptInv, [Next]_vars PROVE KeptInv'
<1>1. /\ kQueueSize \in Nat \ {0} /\ w_ptr \in Nat \ {0} /\ Len(log_) >= w_ptr - 1
      /\ Len(log_) \in Nat /\ LastStored \in Nat /\ LastStored' >= LastStored
  BY Numbers, Growth
<1>2. \A i \in 1 .. w_ptr - 1 : log_'[i] = log_[i]
  BY <1>1, Growth
<1>3. CASE UNCHANGED <<queue_, w_ptr>>
  <2>1. LastStored' \in Nat
    BY <1>1, <1>3 DEF LastStored
  <2> SUFFICES ASSUME NEW i \in 1 .. w_ptr - 1, LastStored' < i + kQueueSize
               PROVE  queue_[Slot(i)] = log_[i]
    BY <1>2, <1>3 DEF KeptInv, Slot
  <2> QED BY <1>1, <2>1 DEF KeptInv
<1>4. ASSUME NEW c \in Clients, pushStoreKey(c) \/ pushStoreRest(c) PROVE KeptInv'
  <2>1. /\ w_ptr' = w_ptr /\ pc'[c] \in {"store", "publish"}
        /\ queue_ \in [0 .. kQueueSize - 1 ->
                         [key : Keys \cup {NoKey}, seq_num : Nat, value_type : BOOLEAN]]
    BY <1>4 DEF pushStoreKey, pushStoreRest, IInv, TypeOK
  <2>2. LastStored' = w_ptr
    BY <2>1 DEF LastStored
  <2> SUFFICES ASSUME NEW i \in 1 .. w_ptr - 1, w_ptr < i + kQueueSize
               PROVE  queue_'[Slot(i)] = log_[i]
    BY <1>2, <2>1, <2>2 DEF KeptInv, Slot
  <2>3. Slot(i) \in 0 .. kQueueSize - 1 /\ Slot(i) # Slot(w_ptr)
    <3>1. i \in Nat /\ w_ptr \in Nat /\ i < w_ptr
      BY <1>1
    <3> QED BY <3>1, SlotsDiffer, SlotType
  <2>4. queue_'[Slot(i)] = queue_[Slot(i)]
    BY <1>4, <2>1, <2>3 DEF pushStoreKey, pushStoreRest
  <2>5. LastStored < i + kQueueSize
    BY <1>1, Numbers
  <2> QED BY <2>4, <2>5 DEF KeptInv
<1>5. ASSUME NEW c \in Clients, pushPublish(c) PROVE KeptInv'
  <2>1. w_ptr' = w_ptr + 1 /\ queue_' = queue_ /\ log_' = log_ /\ pc[c] = "publish"
    BY <1>5 DEF pushPublish
  <2>2. queue_[Slot(w_ptr)] = log_[w_ptr]
    BY <2>1 DEF IInv, LogInv, StoredInv
  <2>3. LastStored' \in Nat
    BY <1>1, <2>1 DEF LastStored
  <2> SUFFICES ASSUME NEW i \in 1 .. w_ptr, LastStored' < i + kQueueSize
               PROVE  queue_[Slot(i)] = log_[i]
    BY <1>1, <2>1 DEF KeptInv, Slot
  <2>4. LastStored < i + kQueueSize
    BY <1>1, <2>3
  <2>5. CASE i = w_ptr BY <2>2, <2>5
  <2>6. CASE i \in 1 .. w_ptr - 1 BY <2>4, <2>6 DEF KeptInv
  <2> QED BY <1>1, <2>5, <2>6
<1>6. CASE \E c \in Clients : push(c)
  <2>1. PICK c \in Clients : push(c)
    BY <1>6
  <2>2. CASE pushLock(c) \/ AddRecord(c)
    BY <1>3, <2>2 DEF pushLock, AddRecord
  <2> QED BY <1>4, <1>5, <2>1, <2>2 DEF push
<1>7. CASE writer \/ stop \/ setElsewhere \/ UNCHANGED vars
  <2>1. UNCHANGED <<queue_, w_ptr>>
    BY <1>7 DEF writer, writerRuns, workRound, wrlock, mayInsertMessage, insertFront, pop,
       AppendFrozenList, stop, setElsewhere, vars, clientVars
  <2> QED BY <1>3, <2>1
<1>8. CASE \E c \in Clients, k \in Keys, del \in DelFlags : setKey(c, k, del)
  <2>1. UNCHANGED <<queue_, w_ptr>>
    BY <1>8 DEF setKey
  <2> QED BY <1>3, <2>1
<1> QED BY <1>6, <1>7, <1>8 DEF Next

LEMMA QueueStep == ASSUME SInv, [Next]_vars, UNCHANGED readerVars PROVE SInv'
<1>1. IInv /\ SearchTypeOK /\ KeptInv /\ BoundsInv /\ CopyInv /\ PassedInv
  BY DEF SInv
<1>2. /\ UNCHANGED <<rpc, rkey, seq, begin, end, pos, slot, found>>
      /\ begin \in [Readers -> Nat] /\ end \in [Readers -> Nat \ {0}] /\ pos \in [Readers -> Nat]
  BY <1>1 DEF readerVars, SearchTypeOK
<1>3. IInv'
  BY <1>1, NextIInv
<1>4. /\ w_ptr \in Nat /\ r_ptr \in Nat /\ LastStored \in Nat /\ Len(inserted) \in Nat
      /\ w_ptr' \in Nat /\ r_ptr' \in Nat /\ LastStored' \in Nat /\ Len(inserted') \in Nat
      /\ kQueueSize \in Nat \ {0} /\ Len(log_) >= w_ptr - 1 /\ Len(log_) \in Nat
  <2>1. /\ w_ptr \in Nat /\ r_ptr \in Nat /\ LastStored \in Nat /\ kQueueSize \in Nat \ {0}
        /\ Len(log_) >= w_ptr - 1 /\ Len(log_) \in Nat
    BY <1>1, Numbers
  <2>2. w_ptr' \in Nat /\ r_ptr' \in Nat /\ LastStored' \in Nat
    <3>1. w_ptr' \in Nat \ {0} /\ r_ptr' \in Nat \ {0}
      BY <1>3 DEF IInv, TypeOK
    <3>2. LastStored' \in {w_ptr' - 1, w_ptr'}
      BY DEF LastStored
    <3> QED BY <3>1, <3>2, Predecessor
  <2>3. Len(inserted) \in Nat /\ Len(inserted') \in Nat
    BY <1>1, <1>3 DEF IInv, TypeOK
  <2> QED BY <2>1, <2>2, <2>3
<1>5. /\ w_ptr' >= w_ptr /\ r_ptr' >= r_ptr /\ LastStored' >= LastStored
      /\ \A i \in 1 .. Len(log_) : log_'[i] = log_[i]
      /\ Len(inserted') >= Len(inserted)
      /\ \A i \in 1 .. Len(inserted) : inserted'[i] = inserted[i]
  BY <1>1, Growth
<1>6. SearchTypeOK'
  BY <1>1, <1>2, <1>3 DEF SearchTypeOK, IInv
<1>7. KeptInv'
  BY <1>1, KeptStep
<1>8. BoundsInv'
  BY <1>1, <1>2, <1>4, <1>5 DEF BoundsInv, Bounds
<1>9. CopyInv'
  <2> SUFFICES ASSUME NEW r \in Readers, LastStored' < pos[r] + kQueueSize
               PROVE  /\ rpc[r] = "slot" => slot[r].key = log_'[pos[r]].key
                      /\ rpc[r] = "hit" => found[r] = log_'[pos[r]]
    BY <1>2 DEF CopyInv, Copy
  <2>1. LastStored < pos[r] + kQueueSize
    BY SMTT(30), <1>2, <1>4, <1>5
  <2>2. rpc[r] \in {"slot", "hit"} => pos[r] \in 1 .. Len(log_)
    BY SMTT(30), <1>1, <1>2, <1>4 DEF BoundsInv, Bounds
  <2> QED BY <1>1, <1>5, <2>1, <2>2 DEF CopyInv, Copy
<1>10. PassedInv'
  <2> SUFFICES ASSUME NEW r \in Readers, rpc[r] \in {"loop", "slot", "hit", "miss"},
                      NEW i \in pos[r] + 1 .. begin[r],
                      log_'[i].key = rkey[r], seq[r] <= log_'[i].seq_num
               PROVE  \E j \in 1 .. Len(inserted') : inserted'[j] = log_'[i]
    BY <1>2 DEF PassedInv, Passed, matches
  <2>1. i \in 1 .. Len(log_)
    BY SMTT(30), <1>1, <1>2, <1>4 DEF BoundsInv, Bounds
  <2>2. log_'[i] = log_[i] /\ matches(r, log_[i])
    BY <1>5, <2>1 DEF matches
  <2>3. PICK j \in 1 .. Len(inserted) : inserted[j] = log_[i]
    BY <1>1, <2>2 DEF PassedInv, Passed
  <2> QED BY <1>4, <1>5, <2>2, <2>3
<1> QED BY <1>3, <1>6, <1>7, <1>8, <1>9, <1>10 DEF SInv

-----------------------------------------------------------------------------
(* The steps of a reader.                                                  *)

(* A reader's step touches nothing that is shared and nothing of another   *)
(* reader: only its own part of the invariant is left to show.             *)
LEMMA OneReader ==
  ASSUME SInv, UNCHANGED vars, NEW r \in Readers,
         \A d \in Readers \ {r} :
           /\ rpc'[d] = rpc[d] /\ rkey'[d] = rkey[d] /\ seq'[d] = seq[d]
           /\ begin'[d] = begin[d] /\ end'[d] = end[d] /\ pos'[d] = pos[d]
           /\ slot'[d] = slot[d] /\ found'[d] = found[d],
         SearchTypeOK', Bounds(r)', Copy(r)', Passed(r)'
  PROVE  SInv'
<1>1. UNCHANGED <<idx_, lock_, log_, queue_, w_ptr, r_ptr, pc, entry, wpc, inserted, list_, stopFLAG>>
  BY DEF vars
<1>2. IInv'
  BY NextIInv DEF SInv
<1>3. LastStored' = LastStored
  BY <1>1 DEF LastStored
<1>4. KeptInv'
  BY <1>1, <1>3 DEF SInv, KeptInv, Slot
<1>5. ASSUME NEW d \in Readers \ {r} PROVE Bounds(d)' /\ Copy(d)' /\ Passed(d)'
  <2>1. Bounds(d) /\ Copy(d) /\ Passed(d)
    BY DEF SInv, BoundsInv, CopyInv, PassedInv
  <2>2. Bounds(d)' BY <1>1, <2>1 DEF Bounds
  <2>3. Copy(d)' BY <1>1, <1>3, <2>1 DEF Copy
  <2>4. Passed(d)' BY <1>1, <2>1 DEF Passed, matches
  <2> QED BY <2>2, <2>3, <2>4
<1> QED BY <1>2, <1>4, <1>5 DEF SInv, BoundsInv, CopyInv, PassedInv

LEMMA TypeStutter == ASSUME TypeOK, UNCHANGED vars PROVE TypeOK'
  BY DEF TypeOK, vars

LEMMA getValueStep ==
  ASSUME SInv, NEW r \in Readers, NEW k \in Keys, getValue(r, k)
  PROVE  SInv'
<1> USE DEF getValue
<1>1. SearchTypeOK /\ SearchTypeOK'
  <2>1. SearchTypeOK /\ idx_ \in Nat
    BY SeqNumbers DEF SInv
  <2>2. TypeOK'
    BY <2>1, TypeStutter DEF SearchTypeOK
  <2> QED BY <2>1, <2>2 DEF SearchTypeOK
<1>2. rpc'[r] = "begin"
  BY <1>1 DEF SearchTypeOK
<1>3. Bounds(r)' /\ Copy(r)' /\ Passed(r)'
  BY <1>2 DEF Bounds, Copy, Passed
<1> QED BY <1>1, <1>3, OneReader DEF SearchTypeOK

LEMMA readBeginStep ==
  ASSUME SInv, NEW r \in Readers, readBegin(r)
  PROVE  SInv'
<1> USE DEF readBegin
<1>1. SearchTypeOK /\ w_ptr \in Nat \ {0} /\ w_ptr' = w_ptr
  BY DEF SInv, SearchTypeOK, TypeOK, vars
<1>2. SearchTypeOK'
  BY SMTT(30), <1>1 DEF SearchTypeOK, TypeOK, vars
<1>3. rpc'[r] = "end" /\ begin'[r] = w_ptr - 1
  BY <1>1 DEF SearchTypeOK
<1>4. Bounds(r)' /\ Copy(r)' /\ Passed(r)'
  BY <1>1, <1>3 DEF Bounds, Copy, Passed
<1> QED BY <1>1, <1>2, <1>4, OneReader DEF SearchTypeOK

LEMMA readEndStep ==
  ASSUME SInv, NEW r \in Readers, readEnd(r)
  PROVE  SInv'
<1> USE DEF readEnd
<1>1. SearchTypeOK /\ r_ptr \in Nat \ {0} /\ UNCHANGED <<w_ptr, r_ptr>>
  BY DEF SInv, SearchTypeOK, TypeOK, vars
<1>2. SearchTypeOK'
  BY <1>1 DEF SearchTypeOK, TypeOK, vars
<1>3. rpc[r] = "end" /\ rpc'[r] = "loop" /\ end'[r] = r_ptr /\ pos'[r] = begin[r]
      /\ begin'[r] = begin[r] /\ begin[r] \in Nat
  BY <1>1 DEF SearchTypeOK
<1>4. begin[r] < w_ptr
  BY <1>3 DEF SInv, BoundsInv, Bounds
<1>5. Bounds(r)'
  BY <1>1, <1>3, <1>4 DEF Bounds
<1>6. Copy(r)' /\ Passed(r)'
  BY <1>3 DEF Copy, Passed
<1> QED BY <1>1, <1>2, <1>5, <1>6, OneReader DEF SearchTypeOK

(* The slot a search copies is of a published position, and holds that     *)
(* position's entry unless a push has begun to store there since.          *)
LEMMA SlotIsLogged ==
  ASSUME SInv, NEW r \in Readers, rpc[r] \in {"loop", "slot"}, pos[r] >= end[r]
  PROVE  /\ pos[r] \in 1 .. w_ptr - 1 /\ pos[r] \in Nat \ {0} /\ pos[r] \in 1 .. Len(log_)
         /\ queue_[Slot(pos[r])] \in [key : Keys \cup {NoKey}, seq_num : Nat,
                                     value_type : BOOLEAN]
         /\ LastStored < pos[r] + kQueueSize => queue_[Slot(pos[r])] = log_[pos[r]]
<1>1. IInv /\ TypeOK /\ pos[r] \in Nat /\ begin[r] \in Nat /\ end[r] \in Nat \ {0}
  BY DEF SInv, SearchTypeOK
<1>2. /\ w_ptr \in Nat \ {0} /\ Len(log_) \in Nat /\ Len(log_) >= w_ptr - 1
  BY <1>1, Numbers
<1>3. pos[r] <= begin[r] /\ begin[r] < w_ptr
  BY DEF SInv, BoundsInv, Bounds
<1>4. pos[r] \in 1 .. w_ptr - 1 /\ pos[r] \in Nat \ {0} /\ pos[r] \in 1 .. Len(log_)
  BY <1>1, <1>2, <1>3
<1>5. Slot(pos[r]) \in 0 .. kQueueSize - 1
  BY <1>1, SlotType
<1> QED BY <1>1, <1>4, <1>5 DEF SInv, KeptInv, TypeOK

LEMMA readSlotKeyStep ==
  ASSUME SInv, NEW r \in Readers, readSlotKey(r)
  PROVE  SInv'
<1> USE DEF readSlotKey
<1>1. SearchTypeOK /\ TypeOK'
  BY TypeStutter DEF SInv, SearchTypeOK
<1>2. /\ rpc[r] = "loop" /\ pos[r] >= end[r] /\ rpc'[r] = "slot"
      /\ slot'[r] = queue_[Slot(pos[r])]
      /\ UNCHANGED <<begin, end, pos, w_ptr, r_ptr, log_, pc, inserted, rkey, seq>>
  BY <1>1 DEF SearchTypeOK, vars
<1>3. SearchTypeOK'
  BY <1>1, <1>2, SlotIsLogged DEF SearchTypeOK
<1>4. Bounds(r)'
  BY <1>2 DEF SInv, BoundsInv, Bounds
<1>5. Copy(r)'
  <2>1. LastStored' = LastStored
    BY <1>2 DEF LastStored
  <2> QED BY <1>2, <2>1, SlotIsLogged DEF Copy
<1>6. Passed(r)'
  BY <1>2 DEF SInv, PassedInv, Passed, matches
<1> QED BY <1>1, <1>3, <1>4, <1>5, <1>6, OneReader DEF SearchTypeOK

LEMMA readSlotRestStep ==
  ASSUME SInv, NEW r \in Readers, readSlotRest(r)
  PROVE  SInv'
<1> DEFINE S == [key : Keys \cup {NoKey}, seq_num : Nat, value_type : BOOLEAN]
           e == [queue_[Slot(pos[r])] EXCEPT !.key = slot[r].key]
<1>1. SearchTypeOK /\ TypeOK' /\ IInv
  BY TypeStutter DEF SInv, SearchTypeOK, readSlotRest
<1>2. /\ rpc[r] = "slot" /\ pos[r] >= end[r] /\ rpc'[r] \in {"hit", "loop"}
      /\ slot' = [slot EXCEPT ![r] = e]
      /\ UNCHANGED <<begin, end, w_ptr, r_ptr, log_, pc, inserted, rkey, seq>>
      /\ UNCHANGED vars
  BY <1>1 DEF SearchTypeOK, vars, readSlotRest, SInv, BoundsInv, Bounds
<1>3. /\ pos[r] \in 1 .. w_ptr - 1 /\ pos[r] \in Nat \ {0} /\ pos[r] \in 1 .. Len(log_)
      /\ queue_[Slot(pos[r])] \in S
      /\ LastStored < pos[r] + kQueueSize => queue_[Slot(pos[r])] = log_[pos[r]]
  BY <1>2, SlotIsLogged
<1>4. e \in S
  BY <1>1, <1>3 DEF SearchTypeOK
<1>5. LastStored < pos[r] + kQueueSize => e = log_[pos[r]]
  <2>1. LastStored < pos[r] + kQueueSize => slot[r].key = log_[pos[r]].key
    BY <1>2 DEF SInv, CopyInv, Copy
  <2> QED BY <1>3, <2>1
<1>6. LastStored' = LastStored
  BY <1>2 DEF LastStored
<1> HIDE DEF e
<1>7. CASE matches(r, e)
  <2>1. /\ found' = [found EXCEPT ![r] = e] /\ rpc' = [rpc EXCEPT ![r] = "hit"] /\ pos' = pos
    BY <1>7 DEF readSlotRest, e
  <2>2. SearchTypeOK'
    BY <1>1, <1>2, <1>4, <2>1 DEF SearchTypeOK
  <2>3. rpc'[r] = "hit" /\ found'[r] = e
    BY <1>1, <2>1 DEF SearchTypeOK
  <2>4. Bounds(r)'
    BY <1>2, <2>1, <2>3 DEF SInv, BoundsInv, Bounds
  <2>5. Copy(r)'
    BY <1>2, <1>5, <1>6, <2>1, <2>3 DEF Copy
  <2>6. Passed(r)'
    BY <1>2, <2>1, <2>3 DEF SInv, PassedInv, Passed, matches
  <2> QED BY <1>1, <1>2, <2>1, <2>2, <2>4, <2>5, <2>6, OneReader DEF SearchTypeOK
<1>8. CASE ~ matches(r, e)
  <2>1. /\ pos' = [pos EXCEPT ![r] = @ - 1] /\ rpc' = [rpc EXCEPT ![r] = "loop"] /\ found' = found
    BY <1>8 DEF readSlotRest, e
  <2>2. pos[r] - 1 \in Nat
    BY <1>3
  <2>3. SearchTypeOK'
    BY <1>1, <1>2, <1>4, <2>1, <2>2 DEF SearchTypeOK
  <2>4. rpc'[r] = "loop" /\ pos'[r] = pos[r] - 1
    BY <1>1, <2>1 DEF SearchTypeOK
  <2>5. begin[r] \in Nat /\ begin[r] < w_ptr /\ end[r] <= r_ptr /\ pos[r] <= begin[r]
    BY <1>1, <1>2 DEF SInv, BoundsInv, Bounds, SearchTypeOK
  <2>6. Bounds(r)'
    BY <1>2, <1>3, <2>4, <2>5 DEF Bounds
  <2>7. Copy(r)'
    BY <2>4 DEF Copy
  <2>8. Passed(r)'
    <3> SUFFICES ASSUME NEW i \in pos[r] .. begin[r], matches(r, log_[i])
                 PROVE  \E j \in 1 .. Len(inserted) : inserted[j] = log_[i]
      <4>1. pos'[r] + 1 = pos[r]
        BY <1>3, <2>4
      <4> QED BY <1>2, <4>1 DEF Passed, matches
    <3>1. CASE i \in pos[r] + 1 .. begin[r]
      BY <1>2, <3>1 DEF SInv, PassedInv, Passed
    <3>2. CASE i = pos[r]
      <4>1. ~ (LastStored < pos[r] + kQueueSize)
        BY <1>5, <1>8, <3>2
      <4>2. i \in 1 .. r_ptr - 1
        BY <1>1, <1>3, <3>2, <4>1, Numbers
      <4> QED BY <1>1, <4>2, PoppedIsInserted
    <3> QED BY <1>3, <2>5, <3>1, <3>2
  <2> QED BY <1>1, <1>2, <2>1, <2>3, <2>6, <2>7, <2>8, OneReader DEF SearchTypeOK
<1> QED BY <1>7, <1>8

LEMMA endOfLoopStep ==
  ASSUME SInv, NEW r \in Readers, endOfLoop(r)
  PROVE  SInv'
<1> USE DEF endOfLoop
<1>1. SearchTypeOK /\ TypeOK'
  BY TypeStutter DEF SInv, SearchTypeOK
<1>2. /\ rpc[r] = "loop" /\ pos[r] < end[r] /\ rpc'[r] = "miss"
      /\ UNCHANGED <<begin, end, pos, w_ptr, r_ptr, log_, pc, inserted, rkey, seq>>
  BY <1>1 DEF SearchTypeOK, vars
<1>3. SearchTypeOK'
  BY <1>1 DEF SearchTypeOK
<1>4. Bounds(r)' /\ Copy(r)' /\ Passed(r)'
  BY <1>2 DEF SInv, BoundsInv, PassedInv, Bounds, Copy, Passed, matches
<1> QED BY <1>1, <1>3, <1>4, OneReader DEF SearchTypeOK

LEMMA returnStep ==
  ASSUME SInv, NEW r \in Readers, return(r)
  PROVE  SInv'
<1> USE DEF return
<1>1. SearchTypeOK /\ TypeOK'
  BY TypeStutter DEF SInv, SearchTypeOK
<1>2. rpc'[r] = "idle"
  BY <1>1 DEF SearchTypeOK
<1>3. SearchTypeOK'
  BY <1>1 DEF SearchTypeOK, EmptySlot
<1>4. Bounds(r)' /\ Copy(r)' /\ Passed(r)'
  BY <1>2 DEF Bounds, Copy, Passed
<1> QED BY <1>1, <1>3, <1>4, OneReader DEF SearchTypeOK

-----------------------------------------------------------------------------
LEMMA InitSInv == ASSUME SearchInit PROVE SInv
<1> USE DEF SearchInit
<1>1. IInv
  BY InitIInv
<1>2. SearchTypeOK
  BY <1>1 DEF SearchTypeOK, EmptySlot, IInv
<1>3. KeptInv
  BY DEF KeptInv, Init
<1>4. BoundsInv /\ CopyInv /\ PassedInv
  BY DEF BoundsInv, CopyInv, PassedInv, Bounds, Copy, Passed
<1> QED BY <1>1, <1>2, <1>3, <1>4 DEF SInv

LEMMA NextSInv == ASSUME SInv, [SearchNext]_searchVars PROVE SInv'
<1>1. CASE Next /\ UNCHANGED readerVars
  BY <1>1, QueueStep
<1>2. CASE UNCHANGED searchVars
  BY <1>2, QueueStep DEF searchVars
<1>3. CASE \E r \in Readers, k \in Keys : getValue(r, k)
  BY <1>3, getValueStep
<1>4. CASE \E r \in Readers : search(r)
  BY <1>4, readBeginStep, readEndStep, readSlotKeyStep, readSlotRestStep, endOfLoopStep,
     returnStep DEF search
<1> QED BY <1>1, <1>2, <1>3, <1>4 DEF SearchNext

(* Searches, sets and the Writer keep the invariant.                       *)
THEOREM SearchInductive == SearchSpec => []SInv
  BY InitSInv, NextSInv, PTL DEF SearchSpec

(* Every variable of the ring and of the searches keeps its type; above    *)
(* all, i of search never drops below 0, and never leaves the ring.        *)
THEOREM SearchTypeCorrect == SearchSpec => []SearchTypeOK
<1>1. SInv => SearchTypeOK
  BY DEF SInv
<1> QED BY <1>1, SearchInductive, PTL

(* What search answers is the very entry logged at the position where it   *)
(* stopped, unless that slot was given to another position meanwhile.      *)
THEOREM HitCorrect == SearchSpec => []HitIsLogged
<1>1. ASSUME SInv PROVE HitIsLogged
  <2> SUFFICES ASSUME NEW r \in Readers, rpc[r] = "hit", LastStored < pos[r] + kQueueSize
               PROVE  pos[r] \in DOMAIN log_ /\ found[r] = log_[pos[r]]
    BY DEF HitIsLogged
  <2>1. found[r] = log_[pos[r]]
    BY <1>1 DEF SInv, CopyInv, Copy
  <2>2. /\ pos[r] \in Nat /\ begin[r] \in Nat /\ end[r] \in Nat \ {0}
        /\ pos[r] >= end[r] /\ pos[r] <= begin[r] /\ begin[r] < w_ptr
    BY <1>1 DEF SInv, SearchTypeOK, BoundsInv, Bounds
  <2>3. DOMAIN log_ = 1 .. Len(log_) /\ Len(log_) >= w_ptr - 1 /\ Len(log_) \in Nat
        /\ w_ptr \in Nat
    BY <1>1, Numbers DEF SInv
  <2> QED BY <2>1, <2>2, <2>3
<1> QED BY <1>1, SearchInductive, PTL

(* search passes over an entry it could have answered with only when that  *)
(* entry has been given to the Writer's list, never by a walk that missed  *)
(* it in the ring.  Whether getEntry then answers is another matter.       *)
THEOREM PassedCorrect == SearchSpec => []PassedOverIsInserted
<1>1. ASSUME SInv PROVE PassedOverIsInserted
  <2> SUFFICES ASSUME NEW r \in Readers, rpc[r] \in {"loop", "slot", "hit", "miss"},
                      NEW i \in PassedOver(r), matches(r, log_[i])
               PROVE  \E j \in 1 .. Len(inserted) : inserted[j] = log_[i]
    BY DEF PassedOverIsInserted
  <2>1. CASE i \in pos[r] + 1 .. begin[r]
    BY <1>1, <2>1 DEF SInv, PassedInv, Passed
  <2>2. CASE rpc[r] = "miss" /\ i \notin pos[r] + 1 .. begin[r]
    <3>1. /\ pos[r] \in Nat /\ begin[r] \in Nat /\ end[r] \in Nat /\ r_ptr \in Nat
          /\ pos[r] < end[r] /\ end[r] <= r_ptr /\ i \in 1 .. begin[r]
      BY <1>1, <2>2 DEF SInv, SearchTypeOK, TypeOK, BoundsInv, Bounds, PassedOver
    <3>2. i \in 1 .. r_ptr - 1
      BY <2>2, <3>1
    <3> QED BY <1>1, <3>2, PoppedIsInserted DEF SInv
  <2> QED BY <2>1, <2>2 DEF PassedOver
<1> QED BY <1>1, SearchInductive, PTL
=============================================================================
