---------------------------- MODULE MessageQueue ----------------------------
(***************************************************************************)
(* One partition of YangKV on its way from setKey to the memtable:         *)
(* YangkvMain::setKey draws a sequence number, MessageQueue::push appends  *)
(* the entry to the partition's log and to a ring of kQueueSize slots, and *)
(* the partition's Writer thread moves entries from the ring to its active *)
(* list.                                                                   *)
(*                                                                         *)
(* Any number of client threads push; one thread (the Writer) pops.  Only  *)
(* push takes lock_; the Writer and the ring's two cursors use no lock.    *)
(* `inserted' is the sequence of entries handed to SkipList::insert, and   *)
(* list_ the keys of the list they went to: a full list is handed over in  *)
(* a call of AppendFrozenList (module VersionSet) that need not return.    *)
(***************************************************************************)
EXTENDS Integers, Sequences, FiniteSets

CONSTANTS
  Clients,      \* threads that call setKey and delKey
  NoClient,     \* the value of lock_ when nobody holds it
  Keys,         \* user keys whose hash selects this partition
  NoKey,        \* what a slot that was never written holds
  DelFlags,     \* bound: values of del_flag that callers pass
  kQueueSize,   \* slots of the ring (40 in message_queue.h)
  kMaxActiveListSize,   \* keys that make the list full (10 in env.h)
  MaxSets       \* bound: numbers that are drawn from idx_

ASSUME QueueAssumption ==
  /\ kQueueSize \in Nat \ {0}
  /\ kMaxActiveListSize \in Nat \ {0}
  /\ MaxSets \in Nat
  /\ DelFlags \subseteq BOOLEAN
  /\ NoClient \notin Clients
  /\ NoKey \notin Keys

ASSUME ClientsAssumption == IsFiniteSet(Clients)

VARIABLES
  idx_,       \* next sequence number, shared by all partitions
  lock_,      \* holder of the mutex of push
  log_,       \* records in the partition's log file
  queue_,     \* the ring
  w_ptr,      \* position the next entry is stored at
  r_ptr,      \* position of the oldest entry that was not popped
  pc,         \* where each client is in setKey and push
  entry,      \* the entry each client pushes, or pushed last
  wpc,        \* where the Writer is in workRound and mayInsertMessage
  inserted,   \* entries given to SkipList::insert, oldest first
  list_,      \* keys in the Writer's active list
  stopFLAG    \* WriterConfig::stopFLAG

clientVars == <<idx_, lock_, log_, queue_, w_ptr, pc, entry>>
writerVars == <<r_ptr, wpc, inserted, list_>>
vars == <<idx_, lock_, log_, queue_, w_ptr, r_ptr, pc, entry, wpc, inserted,
          list_, stopFLAG>>

-----------------------------------------------------------------------------
(* A value is identified by the number of the set that wrote it, so an     *)
(* entry carries no value of its own.  value_type is TRUE for a deletion   *)
(* (kDeleted).                                                             *)
MemEntry == [key : Keys, seq_num : Nat \ {0}, value_type : BOOLEAN]
EmptySlot == [key |-> NoKey, seq_num |-> 0, value_type |-> FALSE]

Slot(i) == i % kQueueSize
(* Variant with an off-by-one in the capacity test.                         *)
isFullOffByOne == w_ptr - r_ptr = kQueueSize + 1

isFull == w_ptr - r_ptr = kQueueSize
isEmpty == w_ptr = r_ptr

Init ==
  /\ idx_ = 1
  /\ lock_ = NoClient
  /\ log_ = <<>>
  /\ queue_ = [i \in 0 .. kQueueSize - 1 |-> EmptySlot]
  /\ w_ptr = 1
  /\ r_ptr = 1
  /\ pc = [c \in Clients |-> "idle"]
  /\ entry = [c \in Clients |-> EmptySlot]
  /\ wpc = "round"
  /\ inserted = <<>>
  /\ list_ = {}
  /\ stopFLAG = FALSE

-----------------------------------------------------------------------------
(* Variant whose numbers wrap around at their width.                       *)
setKeyWrapping(c, k, del) ==
  /\ pc[c] = "idle"
  /\ idx_ <= MaxSets
  /\ idx_' = idx_ + 1
  /\ entry' = [entry EXCEPT ![c] =
                [key |-> k, seq_num |-> ((idx_ + MaxSets - 2) % MaxSets) + 1,
                 value_type |-> del]]
  /\ pc' = [pc EXCEPT ![c] = "lock"]
  /\ UNCHANGED <<lock_, log_, queue_, w_ptr, writerVars, stopFLAG>>

(* setKey draws the number atomically, before push takes the lock.         *)
setKey(c, k, del) ==
  /\ pc[c] = "idle"
  /\ idx_ <= MaxSets
  /\ idx_' = idx_ + 1
  /\ entry' = [entry EXCEPT ![c] = [key |-> k, seq_num |-> idx_,
                                    value_type |-> del]]
  /\ pc' = [pc EXCEPT ![c] = "lock"]
  /\ UNCHANGED <<lock_, log_, queue_, w_ptr, writerVars, stopFLAG>>

(* A set of a key of another partition draws from the same counter.        *)
setElsewhere ==
  /\ idx_ <= MaxSets
  /\ idx_' = idx_ + 1
  /\ UNCHANGED <<lock_, log_, queue_, w_ptr, pc, entry, writerVars, stopFLAG>>

(* Variant of push without its lock_guard.                                 *)
pushUnlocked(c) ==
  /\ pc[c] = "lock"
  /\ lock_' = c
  /\ pc' = [pc EXCEPT ![c] = "log"]
  /\ UNCHANGED <<idx_, log_, queue_, w_ptr, entry, writerVars, stopFLAG>>

pushLock(c) ==
  /\ pc[c] = "lock"
  /\ lock_ = NoClient
  /\ lock_' = c
  /\ pc' = [pc EXCEPT ![c] = "log"]
  /\ UNCHANGED <<idx_, log_, queue_, w_ptr, entry, writerVars, stopFLAG>>

(* Variant that carries on after a failed write, as with asserts off.      *)
AddRecordUnchecked(c) ==
  /\ pc[c] = "log"
  /\ log_' \in {log_, Append(log_, entry[c])}
  /\ pc' = [pc EXCEPT ![c] = "wait"]
  /\ UNCHANGED <<idx_, lock_, queue_, w_ptr, entry, writerVars, stopFLAG>>

(* The record reaches the file (AddRecord flushes) before there is room    *)
(* for the entry in the ring.                                              *)
AddRecord(c) ==
  /\ pc[c] = "log"
  /\ log_' = Append(log_, entry[c])
  /\ pc' = [pc EXCEPT ![c] = "wait"]
  /\ UNCHANGED <<idx_, lock_, queue_, w_ptr, entry, writerVars, stopFLAG>>

(* push sleeps while the ring is full, with lock_ held, then copies the    *)
(* entry into its slot; the copy is not atomic for a concurrent search,    *)
(* which may find the new key beside the rest of the slot's old entry.     *)
pushStoreKey(c) ==
  /\ pc[c] = "wait"
  /\ ~isFull
  /\ queue_' = [queue_ EXCEPT ![Slot(w_ptr)].key = entry[c].key]
  /\ pc' = [pc EXCEPT ![c] = "store"]
  /\ UNCHANGED <<idx_, lock_, log_, w_ptr, entry, writerVars, stopFLAG>>

pushStoreRest(c) ==
  /\ pc[c] = "store"
  /\ queue_' = [queue_ EXCEPT ![Slot(w_ptr)] = entry[c]]
  /\ pc' = [pc EXCEPT ![c] = "publish"]
  /\ UNCHANGED <<idx_, lock_, log_, w_ptr, entry, writerVars, stopFLAG>>

(* Advancing w_ptr makes the entry visible; push and setKey then return.   *)
pushPublish(c) ==
  /\ pc[c] = "publish"
  /\ w_ptr' = w_ptr + 1
  /\ lock_' = NoClient
  /\ pc' = [pc EXCEPT ![c] = "idle"]
  /\ UNCHANGED <<idx_, log_, queue_, entry, writerVars, stopFLAG>>

push(c) == \/ pushLock(c) \/ AddRecord(c) \/ pushStoreKey(c)
           \/ pushStoreRest(c) \/ pushPublish(c)

-----------------------------------------------------------------------------
(* workRound looks at stopFLAG only between two calls of mayInsertMessage, *)
(* which goes on until it finds the ring empty.                            *)
workRound ==
  /\ wpc = "round"
  /\ wpc' = IF stopFLAG THEN "quit" ELSE "lock"
  /\ UNCHANGED <<clientVars, r_ptr, inserted, list_, stopFLAG>>

(* pthread_rwlock_wrlock waits for gets that read the active list, and the *)
(* rwlock lets new readers in first: the call need not return.             *)
wrlock ==
  /\ wpc = "lock"
  /\ wpc' = "check"
  /\ UNCHANGED <<clientVars, r_ptr, inserted, list_, stopFLAG>>

(* Variants that insert from an empty ring and that take push's lock.      *)
mayInsertUnchecked ==
  /\ wpc = "check"
  /\ wpc' = "insert"
  /\ UNCHANGED <<clientVars, r_ptr, inserted, list_, stopFLAG>>

mayInsertLocked ==
  /\ wpc = "check"
  /\ lock_ = NoClient
  /\ wpc' = IF isEmpty THEN "round" ELSE "insert"
  /\ UNCHANGED <<clientVars, r_ptr, inserted, list_, stopFLAG>>

mayInsertMessage ==
  /\ wpc = "check"
  /\ wpc' = IF isEmpty THEN "round" ELSE "insert"
  /\ UNCHANGED <<clientVars, r_ptr, inserted, list_, stopFLAG>>

(* Variant that takes the newest entry.                                    *)
insertNewest ==
  /\ wpc = "insert"
  /\ inserted' = Append(inserted, queue_[Slot(w_ptr - 1)])
  /\ list_' = list_ \cup {queue_[Slot(w_ptr - 1)].key}
  /\ wpc' = "pop"
  /\ UNCHANGED <<clientVars, r_ptr, stopFLAG>>

insertFront ==
  /\ wpc = "insert"
  /\ inserted' = Append(inserted, queue_[Slot(r_ptr)])
  /\ list_' = list_ \cup {queue_[Slot(r_ptr)].key}
  /\ wpc' = "pop"
  /\ UNCHANGED <<clientVars, r_ptr, stopFLAG>>

pop ==
  /\ wpc = "pop"
  /\ r_ptr' = r_ptr + 1
  /\ wpc' = IF Cardinality(list_) >= kMaxActiveListSize THEN "append" ELSE "check"
  /\ UNCHANGED <<clientVars, inserted, list_, stopFLAG>>

(* AppendFrozenList waits for compact_lock_ and, while the current version *)
(* has too many frozen lists, for the Compacter's signal, which may come   *)
(* too early (module VersionSet): this call need not return either.  Then  *)
(* the Writer starts a new list.                                           *)
AppendFrozenList ==
  /\ wpc = "append"
  /\ list_' = {}
  /\ wpc' = "check"
  /\ UNCHANGED <<clientVars, r_ptr, inserted, stopFLAG>>

(* What the Writer does without waiting for anybody, and all it does.      *)
writerRuns == workRound \/ mayInsertMessage \/ insertFront \/ pop
writer == writerRuns \/ wrlock \/ AppendFrozenList

stop ==
  /\ ~stopFLAG
  /\ stopFLAG' = TRUE
  /\ UNCHANGED <<clientVars, writerVars>>

Next ==
  \/ \E c \in Clients, k \in Keys, del \in DelFlags : setKey(c, k, del)
  \/ setElsewhere
  \/ \E c \in Clients : push(c)
  \/ writer
  \/ stop

Spec == Init /\ [][Next]_vars

(* Threads are scheduled: a client inside push goes on whenever it can,    *)
(* and so does the Writer outside the two calls it may sleep in.  Nobody   *)
(* has to call setKey or stop, and the mutex is not assumed to be fair.    *)
FairSpec == /\ Spec
            /\ WF_vars(writerRuns)
            /\ WF_vars(\E c \in Clients : push(c))

-----------------------------------------------------------------------------
Positions == 1 .. w_ptr - 1
Critical == {"log", "wait", "store", "publish"}

TypeOK ==
  /\ idx_ \in 1 .. MaxSets + 1
  /\ lock_ \in Clients \cup {NoClient}
  /\ log_ \in Seq(MemEntry)
  /\ queue_ \in [0 .. kQueueSize - 1 ->
                   [key : Keys \cup {NoKey}, seq_num : Nat, value_type : BOOLEAN]]
  /\ w_ptr \in Nat \ {0}
  /\ r_ptr \in Nat \ {0}
  /\ pc \in [Clients -> {"idle", "lock"} \cup Critical]
  /\ entry \in [Clients -> MemEntry \cup {EmptySlot}]
  /\ wpc \in {"round", "lock", "check", "insert", "pop", "append", "quit"}
  /\ inserted \in Seq(MemEntry)
  /\ list_ \subseteq Keys
  /\ stopFLAG \in BOOLEAN

(* However pushes and pops interleave, every position between the cursors  *)
(* still holds the entry that was logged at that position: no producer     *)
(* overwrites a slot the Writer has not popped, and entries are published  *)
(* in the order of their log records (push, pop, isFull).                  *)
RingHoldsLog ==
  /\ r_ptr <= w_ptr /\ w_ptr <= r_ptr + kQueueSize
  /\ \A i \in r_ptr .. w_ptr - 1 : i \in DOMAIN log_ /\ queue_[Slot(i)] = log_[i]

(* What the Writer inserted is a prefix of the log: an entry is logged     *)
(* before it is in a list, none is skipped, inserted twice or reordered,   *)
(* so replaying the log rebuilds what the lists were given.                *)
InsertedIsLogPrefix ==
  /\ Len(inserted) <= Len(log_)
  /\ \A i \in 1 .. Len(inserted) : inserted[i] = log_[i]

(* When setKey has returned, its entry is in the log exactly once and at a *)
(* published position: a set that was answered survives a process crash.   *)
ReturnedSetIsLogged ==
  \A c \in Clients :
    pc[c] = "idle" /\ entry[c] # EmptySlot =>
      /\ \E i \in Positions : i \in DOMAIN log_ /\ log_[i] = entry[c]
      /\ \A i, j \in DOMAIN log_ :
           log_[i].seq_num = entry[c].seq_num
             /\ log_[j].seq_num = entry[c].seq_num => i = j

(* The number is drawn outside lock_, so log order is not number order;    *)
(* but a record goes ahead of at most one smaller number of each other     *)
(* client: those that had drawn theirs and were not through lock_ yet.     *)
(* How many records go ahead of one waiting number is not bounded, as the  *)
(* mutex is not fair.                                                      *)
BoundedSeqInversion ==
  \A i \in DOMAIN log_ :
    Cardinality({j \in i .. Len(log_) : log_[j].seq_num < log_[i].seq_num})
      < Cardinality(Clients)

(* The Writer comes back from every wrlock and every AppendFrozenList.     *)
(* The code does not see to it: a Writer that AppendFrozenList puts to     *)
(* sleep after the signal was given sleeps on.                             *)
WriterReturns == []<>(wpc # "lock") /\ []<>(wpc # "append")

(* Once a record is in the log the Writer inserts it, unless the system is *)
(* stopped or the Writer sleeps in one of its two calls: a producer that   *)
(* waits in push on a full ring with lock_ held cannot stop the Writer     *)
(* that must make room.                                                    *)
LoggedIsInserted ==
  WriterReturns =>
    \A n \in 1 .. MaxSets : Len(log_) >= n ~> (Len(inserted) >= n \/ stopFLAG)

(* A client that holds lock_ gives it back, unless the system is stopped   *)
(* or the Writer, asleep in one of its two calls, leaves the ring full.    *)
LockIsReleased ==
  WriterReturns => \A c \in Clients : lock_ = c ~> (lock_ # c \/ stopFLAG)

-----------------------------------------------------------------------------
(* What the partition promises: a write-ahead log and a memtable fed from  *)
(* it, with at most kQueueSize + 1 records in between.                     *)
WAL == INSTANCE WriteAheadLog
         WITH next <- idx_, log <- log_, memtable <- inserted,
              Backlog <- kQueueSize + 1

Refinement == WAL!Spec
=============================================================================
