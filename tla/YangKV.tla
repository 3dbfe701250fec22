------------------------------- MODULE YangKV -------------------------------
(***************************************************************************)
(* The store end to end: sets travel from a partition's queue to its       *)
(* active list, to the frozen lists of the current version and to a table, *)
(* while getValue looks for them in that order with different locks.       *)
(*                                                                         *)
(* Freezing and compaction are module VersionSet, whose lists get their    *)
(* contents here.  The ring of module MessageQueue is the sequence of the  *)
(* entries between its two cursors and of those popped before, which stay  *)
(* in their slots until they are overwritten: push copies its entry and    *)
(* search copies the slots in two parts, with no lock between them.        *)
(***************************************************************************)
EXTENDS VersionSet

CONSTANTS
  Clients,             \* threads that call setKey and delKey
  Readers,             \* threads that call getValue
  Keys,
  NoKey,               \* what a reader that copies no slot has of a key
  writerID,            \* the partition a key hashes to
  DelFlags,            \* bound: values of del_flag that clients pass
  kQueueSize,          \* 40 in message_queue.h
  kMaxActiveListSize,  \* 10 in env.h
  MaxSets              \* bound: numbers drawn from idx_

ASSUME YangKVAssumption ==
  /\ NoKey \notin Keys
  /\ writerID \in [Keys -> Writers]
  /\ DelFlags \subseteq BOOLEAN
  /\ kQueueSize \in Nat \ {0}
  /\ kMaxActiveListSize \in Nat \ {0}
  /\ MaxSets \in Nat

VARIABLES
  idx_,      \* next sequence number
  sending,   \* per client, the entry setKey has numbered and not yet pushed
  part,      \* what push has copied of it to its slot: none, key or all
  queue,     \* per Writer, the entries between r_ptr and w_ptr
  popped,    \* per Writer, the entries below r_ptr, oldest first
  held,      \* Writers that hold their rwlock_ for writing
  content,   \* per Writer and rank, what a list maps each key to
  rpc,       \* where each reader is in getValue
  rkey,      \* the key it asks for
  seq,       \* its snapshot number
  begin,     \* begin of search
  end,       \* end of search
  pos,       \* i of search
  slotKey,   \* the key of search's local copy of the slot at pos
  curr_,     \* the version it got from Current()
  lists,     \* the frozen lists it has not looked at yet
  answer,    \* the entry getValue answers from, NoEntry for NotFound
  before     \* what was known of its key when getValue began

clientVars == <<idx_, sending, part, queue, popped>>
listVars == <<held, content>>
searchVars == <<begin, end, pos, slotKey>>
readerVars == <<rpc, rkey, seq, searchVars, curr_, lists, answer, before>>
dbVars == <<vars, clientVars, listVars, readerVars>>

-----------------------------------------------------------------------------
MemEntry == [seq_num : 1 .. MaxSets, key : Keys, value_type : BOOLEAN]
NoEntry == [seq_num |-> 0]
Empty == [k \in Keys |-> NoEntry]

size(list) == Cardinality({k \in Keys : list[k] # NoEntry})

(* Every entry a Writer ever inserted for k, oldest first: the lists' ranks *)
(* order them, and a list keeps the last one of its key.                   *)
LatestRank(k) ==
  LET ns == {n \in 1 .. MaxLists + 1 : content[writerID[k]][n][k] # NoEntry}
  IN IF ns = {} THEN 0 ELSE CHOOSE n \in ns : \A m \in ns : m <= n

Latest(k) == IF LatestRank(k) = 0 THEN NoEntry
             ELSE content[writerID[k]][LatestRank(k)][k]

(* A set of k that its Writer has not inserted yet.                        *)
Pending(k) == \/ \E c \in Clients : sending[c] # NoEntry /\ sending[c].key = k
              \/ \E i \in DOMAIN queue[writerID[k]] : queue[writerID[k]][i].key = k

NotAsked == [latest |-> NoEntry, pending |-> FALSE]

(* list_ of a Writer: the list it fills.                                   *)
list_(w) == content[w][filled[w]]

DBInit ==
  /\ Init
  /\ idx_ = 1
  /\ sending = [c \in Clients |-> NoEntry]
  /\ part = [c \in Clients |-> "none"]
  /\ queue = [w \in Writers |-> <<>>]
  /\ popped = [w \in Writers |-> <<>>]
  /\ held = {}
  /\ content = [w \in Writers |-> [n \in 1 .. MaxLists + 1 |-> Empty]]
  /\ rpc = [r \in Readers |-> "idle"]
  /\ rkey \in [Readers -> Keys]
  /\ seq = [r \in Readers |-> 0]
  /\ begin = [r \in Readers |-> 0]
  /\ end = [r \in Readers |-> 1]
  /\ pos = [r \in Readers |-> 0]
  /\ slotKey = [r \in Readers |-> NoKey]
  /\ curr_ = [r \in Readers |-> 0]
  /\ lists = [r \in Readers |-> <<>>]
  /\ answer = [r \in Readers |-> NoEntry]
  /\ before = [r \in Readers |-> NotAsked]

-----------------------------------------------------------------------------
(* setKey: the number is drawn, then the entry is pushed.                  *)
setKey(c, k, del) ==
  /\ sending[c] = NoEntry
  /\ idx_ <= MaxSets
  /\ sending' = [sending EXCEPT ![c] = [seq_num |-> idx_, key |-> k,
                                        value_type |-> del]]
  /\ idx_' = idx_ + 1
  /\ UNCHANGED <<vars, part, queue, popped, listVars, readerVars>>

(* The partition whose lock_ push takes; at most one client copies there.  *)
partition(c) == writerID[sending[c].key]
Copying(w) == {c \in Clients : part[c] # "none" /\ partition(c) = w}

(* Variant that does not wait for room.                                    *)
pushStoreAlways(c) ==
  /\ sending[c] # NoEntry /\ part[c] = "none"
  /\ Copying(partition(c)) = {}
  /\ part' = [part EXCEPT ![c] = "key"]
  /\ UNCHANGED <<vars, idx_, sending, queue, popped, listVars, readerVars>>

(* As in module MessageQueue: first the key, ...                           *)
pushStoreKey(c) ==
  /\ sending[c] # NoEntry /\ part[c] = "none"
  /\ Copying(partition(c)) = {}
  /\ Len(queue[partition(c)]) < kQueueSize
  /\ part' = [part EXCEPT ![c] = "key"]
  /\ UNCHANGED <<vars, idx_, sending, queue, popped, listVars, readerVars>>

(* ... then the rest, ...                                                  *)
pushStoreRest(c) ==
  /\ part[c] = "key"
  /\ part' = [part EXCEPT ![c] = "all"]
  /\ UNCHANGED <<vars, idx_, sending, queue, popped, listVars, readerVars>>

(* ... then w_ptr.                                                         *)
pushPublish(c) ==
  /\ part[c] = "all"
  /\ queue' = [queue EXCEPT ![partition(c)] = Append(@, sending[c])]
  /\ sending' = [sending EXCEPT ![c] = NoEntry]
  /\ part' = [part EXCEPT ![c] = "none"]
  /\ UNCHANGED <<vars, idx_, popped, listVars, readerVars>>

push(c) == pushStoreKey(c) \/ pushStoreRest(c) \/ pushPublish(c)

-----------------------------------------------------------------------------
(* mayInsertMessage of Writer w.                                           *)
wrlock(w) ==
  /\ w \notin held
  /\ held' = held \cup {w}
  /\ UNCHANGED <<vars, clientVars, content, readerVars>>

(* One round of the loop: the front entry replaces what the active list    *)
(* has for its key and is popped; a list that has reached                  *)
(* kMaxActiveListSize keys goes to AppendFrozenList.  Nothing reads the    *)
(* active list between the insertion and the pop: the rwlock is held.      *)
insertMessage(w) ==
  /\ w \in held
  /\ pc[w] = "fill"
  /\ filled[w] <= MaxLists
  /\ queue[w] # <<>>
  /\ LET e == Head(queue[w])
         list == [list_(w) EXCEPT ![e.key] = e]
     IN /\ content' = [content EXCEPT ![w][filled[w]] = list]
        /\ IF size(list) >= kMaxActiveListSize THEN listFull(w) ELSE UNCHANGED vars
  /\ queue' = [queue EXCEPT ![w] = Tail(@)]
  /\ popped' = [popped EXCEPT ![w] = Append(@, Head(queue[w]))]
  /\ UNCHANGED <<idx_, sending, part, held, readerVars>>

unlock(w) ==
  /\ w \in held
  /\ pc[w] = "fill"
  /\ queue[w] = <<>>
  /\ held' = held \ {w}
  /\ UNCHANGED <<vars, clientVars, content, readerVars>>

(* AppendList takes the version's own rwlock_ against Version::Get.        *)
Scanning(v) == \E r \in Readers : rpc[r] = "scan" /\ curr_[r] = v

freeze(w) ==
  /\ AppendFrozenList(w) \/ wakeSpuriously(w)
  /\ pc[w] = "push" /\ ~freed(ptr[w]) => ~Scanning(ptr[w])
  /\ UNCHANGED <<clientVars, listVars, readerVars>>

compactOrStop ==
  /\ Compacter \/ stop
  /\ UNCHANGED <<clientVars, listVars, readerVars>>

-----------------------------------------------------------------------------
(* getValue.                                                               *)
getValue(r, k) ==
  /\ rpc[r] = "idle"
  /\ rkey' = [rkey EXCEPT ![r] = k]
  /\ seq' = [seq EXCEPT ![r] = idx_]
  /\ before' = [before EXCEPT ![r] = [latest |-> Latest(k), pending |-> Pending(k)]]
  /\ answer' = [answer EXCEPT ![r] = NoEntry]
  /\ rpc' = [rpc EXCEPT ![r] = "begin"]
  /\ UNCHANGED <<vars, clientVars, listVars, searchVars, curr_, lists>>

(* MessageQueue::search reads w_ptr, then r_ptr, then the slots in between *)
(* from the newest position down, as in module QueueSearch.                *)
readBegin(r) ==
  /\ rpc[r] = "begin"
  /\ LET w == writerID[rkey[r]]
     IN begin' = [begin EXCEPT ![r] = Len(popped[w]) + Len(queue[w])]
  /\ rpc' = [rpc EXCEPT ![r] = "end"]
  /\ UNCHANGED <<vars, clientVars, listVars, rkey, seq, end, pos, slotKey,
                 curr_, lists, answer, before>>

readEnd(r) ==
  /\ rpc[r] = "end"
  /\ end' = [end EXCEPT ![r] = Len(popped[writerID[rkey[r]]]) + 1]
  /\ pos' = [pos EXCEPT ![r] = begin[r]]
  /\ rpc' = [rpc EXCEPT ![r] = "loop"]
  /\ UNCHANGED <<vars, clientVars, listVars, rkey, seq, begin, slotKey,
                 curr_, lists, answer, before>>

(* queue_[i % kQueueSize] of w: an entry that is being copied there, or    *)
(* the last one that was; stages says how much of a copy is to be seen.    *)
slotHolds(w, i, stages) ==
  LET stored == popped[w] \o queue[w]
      SameSlot(p) == (p - i) % kQueueSize = 0
      copying == {c \in Copying(w) : part[c] \in stages /\ SameSlot(Len(stored) + 1)}
  IN IF copying # {} THEN {sending[c] : c \in copying}
     ELSE {stored[Max({p \in i .. Len(stored) : SameSlot(p)})]}

(* The key of the slot is copied first, ...                                *)
readSlotKey(r) ==
  /\ rpc[r] = "loop"
  /\ pos[r] >= end[r]
  /\ \E e \in slotHolds(writerID[rkey[r]], pos[r], {"key", "all"}) :
       slotKey' = [slotKey EXCEPT ![r] = e.key]
  /\ rpc' = [rpc EXCEPT ![r] = "slot"]
  /\ UNCHANGED <<vars, clientVars, listVars, rkey, seq, begin, end, pos,
                 curr_, lists, answer, before>>

(* ... then the rest, perhaps of another entry: a match answers the get,   *)
(* and search's locals are gone.                                           *)
searchReturns(r) ==
  /\ begin' = [begin EXCEPT ![r] = 0]
  /\ end' = [end EXCEPT ![r] = 1]
  /\ pos' = [pos EXCEPT ![r] = 0]
  /\ slotKey' = [slotKey EXCEPT ![r] = NoKey]

readSlotRest(r) ==
  /\ rpc[r] = "slot"
  /\ \E e \in slotHolds(writerID[rkey[r]], pos[r], {"all"}) :
       \/ /\ slotKey[r] = rkey[r] /\ seq[r] <= e.seq_num
          /\ answer' = [answer EXCEPT ![r] = [e EXCEPT !.key = slotKey[r]]]
          /\ rpc' = [rpc EXCEPT ![r] = "done"]
          /\ searchReturns(r)
       \/ /\ ~(slotKey[r] = rkey[r] /\ seq[r] <= e.seq_num)
          /\ pos' = [pos EXCEPT ![r] = @ - 1]
          /\ slotKey' = [slotKey EXCEPT ![r] = NoKey]
          /\ rpc' = [rpc EXCEPT ![r] = "loop"]
          /\ UNCHANGED <<begin, end, answer>>
  /\ UNCHANGED <<vars, clientVars, listVars, rkey, seq, curr_, lists, before>>

endOfLoop(r) ==
  /\ rpc[r] = "loop"
  /\ pos[r] < end[r]
  /\ searchReturns(r)
  /\ rpc' = [rpc EXCEPT ![r] = "list"]
  /\ UNCHANGED <<vars, clientVars, listVars, rkey, seq, curr_, lists, answer, before>>

search(r) == \/ readBegin(r) \/ readEnd(r) \/ readSlotKey(r)
             \/ readSlotRest(r) \/ endOfLoop(r)

(* Writer::getEntry: an entry newer than the snapshot is as good as none.  *)
getEntry(r) ==
  /\ rpc[r] = "list"
  /\ writerID[rkey[r]] \notin held
  /\ LET e == list_(writerID[rkey[r]])[rkey[r]]
         none == e = NoEntry \/ e.seq_num > seq[r]
     IN /\ answer' = [answer EXCEPT ![r] = IF none THEN NoEntry ELSE e]
        /\ rpc' = [rpc EXCEPT ![r] = IF none THEN "version" ELSE "done"]
  /\ UNCHANGED <<vars, clientVars, listVars, rkey, seq, searchVars, curr_, lists, before>>

(* Current() takes no reference on the version.                            *)
Current(r) ==
  /\ rpc[r] = "version"
  /\ curr_' = [curr_ EXCEPT ![r] = current_]
  /\ rpc' = [rpc EXCEPT ![r] = "get"]
  /\ UNCHANGED <<vars, clientVars, listVars, rkey, seq, searchVars, lists, answer, before>>

(* Version::Get takes the version's rwlock_ and counts its frozen lists.   *)
GetBegin(r) ==
  /\ rpc[r] = "get"
  /\ ~freed(curr_[r])
  /\ \A w \in Writers : ~(pc[w] = "count" /\ ptr[w] = curr_[r])
  /\ lists' = [lists EXCEPT ![r] = versions[curr_[r]].list_[writerID[rkey[r]]]]
  /\ rpc' = [rpc EXCEPT ![r] = "scan"]
  /\ UNCHANGED <<vars, clientVars, listVars, rkey, seq, searchVars, curr_, answer, before>>

(* Variant that looks at the oldest list first.                            *)
GetOldestList(r) ==
  /\ rpc[r] = "scan"
  /\ ~freed(curr_[r])
  /\ lists[r] # <<>>
  /\ LET w == writerID[rkey[r]]
         e == content[w][Head(lists[r])][rkey[r]]
     IN /\ answer' = [answer EXCEPT ![r] = e]
        /\ rpc' = [rpc EXCEPT ![r] = IF e = NoEntry THEN "scan" ELSE "done"]
  /\ lists' = [lists EXCEPT ![r] = Tail(@)]
  /\ UNCHANGED <<vars, clientVars, listVars, rkey, seq, searchVars, curr_, before>>

(* The newest list that has the key decides, a deletion like any other     *)
(* entry, and no sequence number is compared.                              *)
GetList(r) ==
  /\ rpc[r] = "scan"
  /\ ~freed(curr_[r])
  /\ lists[r] # <<>>
  /\ LET w == writerID[rkey[r]]
         e == content[w][lists[r][Len(lists[r])]][rkey[r]]
     IN /\ answer' = [answer EXCEPT ![r] = e]
        /\ rpc' = [rpc EXCEPT ![r] = IF e = NoEntry THEN "scan" ELSE "done"]
  /\ lists' = [lists EXCEPT ![r] = SubSeq(@, 1, Len(@) - 1)]
  /\ UNCHANGED <<vars, clientVars, listVars, rkey, seq, searchVars, curr_, before>>

(* After the frozen lists Get collects the files that may hold the key and *)
(* reads none of them: NotFound.                                           *)
GetFiles(r) ==
  /\ rpc[r] = "scan"
  /\ ~freed(curr_[r])
  /\ lists[r] = <<>>
  /\ rpc' = [rpc EXCEPT ![r] = "done"]
  /\ UNCHANGED <<vars, clientVars, listVars, rkey, seq, searchVars, curr_, lists, answer, before>>

(* A version freed under the reader: the answer can be any entry that was  *)
(* ever in a list of the partition, or NotFound.                           *)
GetFreed(r) ==
  /\ rpc[r] \in {"get", "scan"}
  /\ freed(curr_[r])
  /\ \/ answer' = [answer EXCEPT ![r] = NoEntry]
     \/ \E n \in 1 .. MaxLists, k \in Keys :
          answer' = [answer EXCEPT ![r] = content[writerID[rkey[r]]][n][k]]
  /\ rpc' = [rpc EXCEPT ![r] = "done"]
  /\ UNCHANGED <<vars, clientVars, listVars, rkey, seq, searchVars, curr_, lists, before>>

return(r) ==
  /\ rpc[r] = "done"
  /\ rpc' = [rpc EXCEPT ![r] = "idle"]
  /\ seq' = [seq EXCEPT ![r] = 0]
  /\ curr_' = [curr_ EXCEPT ![r] = 0]
  /\ lists' = [lists EXCEPT ![r] = <<>>]
  /\ answer' = [answer EXCEPT ![r] = NoEntry]
  /\ before' = [before EXCEPT ![r] = NotAsked]
  /\ UNCHANGED <<vars, clientVars, listVars, rkey, searchVars>>

DBNext ==
  \/ \E c \in Clients, k \in Keys, del \in DelFlags : setKey(c, k, del)
  \/ \E c \in Clients : push(c)
  \/ \E w \in Writers : wrlock(w) \/ insertMessage(w) \/ unlock(w) \/ freeze(w)
  \/ compactOrStop
  \/ \E r \in Readers, k \in Keys : getValue(r, k)
  \/ \E r \in Readers : \/ search(r) \/ getEntry(r) \/ Current(r) \/ GetBegin(r)
                        \/ GetList(r) \/ GetFiles(r) \/ GetFreed(r) \/ return(r)

DBSpec == DBInit /\ [][DBNext]_dbVars

-----------------------------------------------------------------------------
DBTypeOK ==
  /\ idx_ \in 1 .. MaxSets + 1
  /\ sending \in [Clients -> MemEntry \cup {NoEntry}]
  /\ part \in [Clients -> {"none", "key", "all"}]
  /\ \A w \in Writers : queue[w] \in Seq(MemEntry) /\ Len(queue[w]) <= kQueueSize
  /\ \A w \in Writers : popped[w] \in Seq(MemEntry)
  /\ held \subseteq Writers
  /\ content \in [Writers -> [1 .. MaxLists + 1 -> [Keys -> MemEntry \cup {NoEntry}]]]
  /\ rpc \in [Readers -> {"idle", "begin", "end", "loop", "slot", "list", "version",
                          "get", "scan", "done"}]
  /\ rkey \in [Readers -> Keys]
  /\ seq \in [Readers -> 0 .. MaxSets + 1]
  /\ begin \in [Readers -> Nat] /\ end \in [Readers -> Nat \ {0}]
  /\ pos \in [Readers -> Nat]
  /\ slotKey \in [Readers -> Keys \cup {NoKey}]
  /\ curr_ \in [Readers -> {0} \cup DOMAIN versions]
  /\ lists \in [Readers -> Seq(Ranks)]
  /\ answer \in [Readers -> MemEntry \cup {NoEntry}]
  /\ before \in [Readers -> [latest : MemEntry \cup {NoEntry}, pending : BOOLEAN]]

(* The list is the active one or among the current version's frozen lists. *)
InMemory(w, n) ==
  \/ n = filled[w]
  \/ ~freed(current_) /\ \E i \in DOMAIN versions[current_].list_[w] :
                            versions[current_].list_[w][i] = n

(* A get that ended, that no set of its key overlapped, and whose version  *)
(* was not freed under it.                                                 *)
QuietGet(r) ==
  LET k == rkey[r]
  IN /\ rpc[r] = "done"
     /\ ~before[r].pending /\ ~Pending(k) /\ before[r].latest = Latest(k)
     /\ curr_[r] # 0 => ~freed(curr_[r])

(* A get that no set of its key overlaps (a set lasts until its Writer has *)
(* inserted it), of a key whose last entry is in memory, answers with      *)
(* exactly that entry, wherever it moved meanwhile: entries move in the    *)
(* direction in which getValue searches, and a slot that is overwritten    *)
(* while search copies it shows the key of the get only if a set of that   *)
(* key overlaps the get.                                                   *)
QuietReadIsExact ==
  \A r \in Readers :
    QuietGet(r) /\ InMemory(writerID[rkey[r]], LatestRank(rkey[r]))
      => answer[r] = Latest(rkey[r])

(* "search in activelist" (getValue): before the first compaction, a key   *)
(* that some list held when the get began is found, whoever sets it again  *)
(* meanwhile.                                                              *)
PresentKeyIsFound ==
  \A r \in Readers :
    rpc[r] = "done" /\ before[r].latest # NoEntry /\ ~freed(1)
      => answer[r] # NoEntry
=============================================================================
