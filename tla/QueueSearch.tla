----------------------------- MODULE QueueSearch -----------------------------
(***************************************************************************)
(* The first step of YangkvMain::getValue: MessageQueue::search walks the  *)
(* ring from the newest position down with no lock, while clients push and *)
(* the Writer pops (module MessageQueue).  Each read of shared memory is a *)
(* step: idx_, then w_ptr, then r_ptr, then slot by slot, each slot in two *)
(* parts because pushes overwrite the slots the Writer has popped.         *)
(***************************************************************************)
EXTENDS MessageQueue

CONSTANTS Readers   \* threads that call getValue

VARIABLES
  rpc,      \* where each reader is in getValue and search
  rkey,     \* the key it asks for
  seq,      \* idx_ when getValue began
  begin,    \* begin of search
  end,      \* end of search
  pos,      \* i of search
  slot,     \* the local copy of the slot at pos
  found     \* the entry search answered with, EmptySlot when it found none

readerVars == <<rpc, rkey, seq, begin, end, pos, slot, found>>
searchVars == <<vars, readerVars>>

SearchInit ==
  /\ Init
  /\ rpc = [r \in Readers |-> "idle"]
  /\ rkey = [r \in Readers |-> NoKey]
  /\ seq = [r \in Readers |-> 0]
  /\ begin = [r \in Readers |-> 0]
  /\ end = [r \in Readers |-> 1]
  /\ pos = [r \in Readers |-> 0]
  /\ slot = [r \in Readers |-> EmptySlot]
  /\ found = [r \in Readers |-> EmptySlot]

-----------------------------------------------------------------------------
getValue(r, k) ==
  /\ rpc[r] = "idle"
  /\ rkey' = [rkey EXCEPT ![r] = k]
  /\ seq' = [seq EXCEPT ![r] = idx_]
  /\ rpc' = [rpc EXCEPT ![r] = "begin"]
  /\ UNCHANGED <<vars, begin, end, pos, slot, found>>

(* Variant that starts at the slot being written, as Debug does.           *)
readBeginAtWptr(r) ==
  /\ rpc[r] = "begin"
  /\ begin' = [begin EXCEPT ![r] = w_ptr]
  /\ rpc' = [rpc EXCEPT ![r] = "end"]
  /\ UNCHANGED <<vars, rkey, seq, end, pos, slot, found>>

readBegin(r) ==
  /\ rpc[r] = "begin"
  /\ begin' = [begin EXCEPT ![r] = w_ptr - 1]
  /\ rpc' = [rpc EXCEPT ![r] = "end"]
  /\ UNCHANGED <<vars, rkey, seq, end, pos, slot, found>>

(* Variants with an off-by-one in the lower bound.                         *)
readEndBelow(r) ==
  /\ rpc[r] = "end"
  /\ end' = [end EXCEPT ![r] = r_ptr - 1]
  /\ pos' = [pos EXCEPT ![r] = begin[r]]
  /\ rpc' = [rpc EXCEPT ![r] = "loop"]
  /\ UNCHANGED <<vars, rkey, seq, begin, slot, found>>

readEndAbove(r) ==
  /\ rpc[r] = "end"
  /\ end' = [end EXCEPT ![r] = r_ptr + 1]
  /\ pos' = [pos EXCEPT ![r] = begin[r]]
  /\ rpc' = [rpc EXCEPT ![r] = "loop"]
  /\ UNCHANGED <<vars, rkey, seq, begin, slot, found>>

readEnd(r) ==
  /\ rpc[r] = "end"
  /\ end' = [end EXCEPT ![r] = r_ptr]
  /\ pos' = [pos EXCEPT ![r] = begin[r]]
  /\ rpc' = [rpc EXCEPT ![r] = "loop"]
  /\ UNCHANGED <<vars, rkey, seq, begin, slot, found>>

(* The key of queue_[i % kQueueSize] is copied first, ...                  *)
readSlotKey(r) ==
  /\ rpc[r] = "loop"
  /\ pos[r] >= end[r]
  /\ slot' = [slot EXCEPT ![r] = queue_[Slot(pos[r])]]
  /\ rpc' = [rpc EXCEPT ![r] = "slot"]
  /\ UNCHANGED <<vars, rkey, seq, begin, end, pos, found>>

(* ... then the rest; the comparison is with the snapshot number.          *)
matches(r, e) == e.key = rkey[r] /\ seq[r] <= e.seq_num

readSlotRest(r) ==
  /\ rpc[r] = "slot"
  /\ LET e == [queue_[Slot(pos[r])] EXCEPT !.key = slot[r].key]
     IN /\ slot' = [slot EXCEPT ![r] = e]
        /\ \/ /\ matches(r, e)
              /\ found' = [found EXCEPT ![r] = e]
              /\ rpc' = [rpc EXCEPT ![r] = "hit"]
              /\ UNCHANGED pos
           \/ /\ ~matches(r, e)
              /\ pos' = [pos EXCEPT ![r] = @ - 1]
              /\ rpc' = [rpc EXCEPT ![r] = "loop"]
              /\ UNCHANGED found
  /\ UNCHANGED <<vars, rkey, seq, begin, end>>

endOfLoop(r) ==
  /\ rpc[r] = "loop"
  /\ pos[r] < end[r]
  /\ rpc' = [rpc EXCEPT ![r] = "miss"]
  /\ UNCHANGED <<vars, rkey, seq, begin, end, pos, slot, found>>

(* search returns to getValue and its locals are gone; after a miss        *)
(* getValue asks the active list next, which is not part of this module.   *)
return(r) ==
  /\ rpc[r] \in {"hit", "miss"}
  /\ rpc' = [rpc EXCEPT ![r] = "idle"]
  /\ rkey' = [rkey EXCEPT ![r] = NoKey]
  /\ seq' = [seq EXCEPT ![r] = 0]
  /\ begin' = [begin EXCEPT ![r] = 0]
  /\ end' = [end EXCEPT ![r] = 1]
  /\ pos' = [pos EXCEPT ![r] = 0]
  /\ slot' = [slot EXCEPT ![r] = EmptySlot]
  /\ found' = [found EXCEPT ![r] = EmptySlot]
  /\ UNCHANGED vars

search(r) == \/ readBegin(r) \/ readEnd(r) \/ readSlotKey(r)
             \/ readSlotRest(r) \/ endOfLoop(r) \/ return(r)

SearchNext ==
  \/ Next /\ UNCHANGED readerVars
  \/ \E r \in Readers, k \in Keys : getValue(r, k)
  \/ \E r \in Readers : search(r)

SearchSpec == SearchInit /\ [][SearchNext]_searchVars
-----------------------------------------------------------------------------
SearchTypeOK ==
  /\ TypeOK
  /\ rpc \in [Readers ->
              {"idle", "begin", "end", "loop", "slot", "hit", "miss"}]
  /\ rkey \in [Readers -> Keys \cup {NoKey}]
  /\ seq \in [Readers -> Nat]
  /\ begin \in [Readers -> Nat]
  /\ end \in [Readers -> Nat \ {0}]
  /\ pos \in [Readers -> Nat]
  /\ slot \in [Readers -> [key : Keys \cup {NoKey}, seq_num : Nat,
                          value_type : BOOLEAN]]
  /\ found \in [Readers -> [key : Keys \cup {NoKey}, seq_num : Nat,
                           value_type : BOOLEAN]]

(* The highest position whose slot has been written, wholly or in part.    *)
LastStored == IF \E c \in Clients : pc[c] \in {"store", "publish"}
              THEN w_ptr ELSE w_ptr - 1

(* An answer of search is the very entry logged at the position it stopped *)
(* at, never a mixture of two entries, unless that position was popped and *)
(* its slot taken by a later push while search was looking at it.          *)
HitIsLogged ==
  \A r \in Readers :
    rpc[r] = "hit" /\ LastStored < pos[r] + kQueueSize =>
      pos[r] \in DOMAIN log_ /\ found[r] = log_[pos[r]]

(* search passes over an entry it could have answered with only when the   *)
(* Writer has given it to its list: no such entry is missed by the walk    *)
(* from w_ptr down while it sits in the ring.  It is not a promise that    *)
(* getValue finds it: these entries are not older than the snapshot        *)
(* (message_queue.cpp:83), and getEntry, asked next, refuses those that    *)
(* are newer (writer.cpp:57), so that the get may answer without them.     *)
PassedOver(r) == IF rpc[r] = "miss" THEN 1 .. begin[r] ELSE pos[r] + 1 .. begin[r]

PassedOverIsInserted ==
  \A r \in Readers :
    rpc[r] \in {"loop", "slot", "hit", "miss"} =>
      \A i \in PassedOver(r) :
        matches(r, log_[i]) => \E j \in 1 .. Len(inserted) : inserted[j] = log_[i]

(* "search in message queue" (getValue): a key that was in the ring when   *)
(* search read w_ptr and still is when it returns is found there.          *)
QueuedKeyIsFound ==
  \A r \in Readers :
    rpc[r] = "miss" =>
      \A i \in r_ptr .. begin[r] : queue_[Slot(i)].key # rkey[r]
=============================================================================
