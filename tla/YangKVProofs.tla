---------------------------- MODULE YangKVProofs ----------------------------
(***************************************************************************)
(* Proofs about YangKV for every number of clients, readers, partitions    *)
(* and keys, and all sizes of the ring, the lists and the versions: what a *)
(* get answers while entries move from the ring through the lists to the   *)
(* tables.                                                                 *)
(***************************************************************************)
EXTENDS YangKV, VersionSetProofs

-----------------------------------------------------------------------------
(* The inductive invariant.                                                *)

QueueInv ==
  /\ queue \in [Writers -> Seq(MemEntry)]
  /\ popped \in [Writers -> Seq(MemEntry)]

(* A client that copies into a slot has room for its entry, and is the     *)
(* only one in its partition: push holds lock_.                            *)
StoringInv ==
  /\ \A c \in Clients : part[c] # "none" => sending[c] # NoEntry /\ Len(queue[partition(c)]) < kQueueSize
  /\ \A c, d \in Clients :
       c # d /\ part[c] # "none" /\ part[d] # "none" => partition(c) # partition(d)

(* Every entry was numbered by setKey.                                     *)
NumberInv ==
  /\ \A c \in Clients : sending[c].seq_num < idx_
  /\ \A w \in Writers : \A i \in 1 .. Len(queue[w]) : queue[w][i].seq_num < idx_
  /\ \A w \in Writers, n \in 1 .. MaxLists + 1, k \in Keys : content[w][n][k].seq_num < idx_

(* The lists after the one a Writer fills are empty.                       *)
FilledInv ==
  \A w \in Writers, n \in 1 .. MaxLists + 1, k \in Keys :
    n > filled[w] => content[w][n][k] = NoEntry

(* A get that began when no set of its key was under way: the sets of that *)
(* key that are under way, and the last one inserted if it is another than *)
(* at the beginning, have numbers from its snapshot on.                    *)
Newer(r, k) ==
  /\ \A c \in Clients : sending[c] # NoEntry /\ sending[c].key = k => seq[r] <= sending[c].seq_num
  /\ \A i \in 1 .. Len(queue[writerID[k]]) :
       queue[writerID[k]][i].key = k => seq[r] <= queue[writerID[k]][i].seq_num
  /\ Latest(k) = before[r].latest \/ seq[r] <= Latest(k).seq_num

Overlap(r, k) ==
  rpc[r] # "idle" /\ ~before[r].pending =>
    before[r].latest.seq_num < seq[r] /\ seq[r] <= idx_ /\ Newer(r, k)

OverlapInv == \A r \in Readers, k \in Keys : rkey[r] = k => Overlap(r, k)

(* A reader is never ahead of current_, and has its frozen lists in the    *)
(* order they were filled.                                                 *)
ReaderAt(r) ==
  /\ rpc[r] \in {"get", "scan"} => curr_[r] \in 1 .. current_
  /\ rpc[r] = "scan" => \A i, j \in 1 .. Len(lists[r]) : i < j => lists[r][i] < lists[r][j]

ReaderInv == \A r \in Readers : ReaderAt(r)

(* The last entry of its key is the one that was there at the beginning.   *)
Quiet(r, k) == ~before[r].pending /\ before[r].latest = Latest(k)

(* A set of the key was under way when the get began, is under way or was  *)
(* inserted since.                                                         *)
Touched(r, k) == before[r].pending \/ Pending(k) \/ before[r].latest # Latest(k)

(* What search reads of the ring from the position r_ptr had: whoever      *)
(* popped or overwrote it meanwhile, an entry of the key there is of a set *)
(* that overlaps the get, and so is the key of a slot read in two parts.   *)
SearchAt(r, k) ==
  LET w == writerID[k]
  IN /\ rpc[r] \in {"end", "loop", "slot"} => begin[r] <= Len(popped[w]) + Len(queue[w])
     /\ rpc[r] \in {"loop", "slot"} =>
          /\ pos[r] <= begin[r]
          /\ \A p \in 1 .. Len(popped[w]) :
               end[r] <= p /\ popped[w][p].key = k => Touched(r, k)
     /\ rpc[r] = "slot" => end[r] <= pos[r] /\ (slotKey[r] = k => Touched(r, k))

SearchInv == \A r \in Readers, k \in Keys : rkey[r] = k => SearchAt(r, k)

InVersion(v, w, n) == \E i \in DOMAIN versions[v].list_[w] : versions[v].list_[w][i] = n
ToLookAt(r, n) == \E i \in 1 .. Len(lists[r]) : lists[r][i] = n

(* Where the entry of such a get is, in the list of rank n, that it has    *)
(* not found yet in version v; and what it answered when it has ended.     *)
Where(r, k, v, n) ==
  Quiet(r, k) =>
    /\ rpc[r] \in {"version", "get", "scan"} => n < filled[writerID[k]]
    /\ rpc[r] = "scan" /\ ~freed(v) /\ InVersion(v, writerID[k], n) => ToLookAt(r, n)
    /\ rpc[r] = "done" /\ ~Pending(k) /\ (v # 0 => ~freed(v)) /\ InMemory(writerID[k], n) =>
         answer[r] = Latest(k)

WhereInv ==
  \A r \in Readers, k \in Keys, v, n \in Nat :
    rkey[r] = k /\ curr_[r] = v /\ LatestRank(k) = n => Where(r, k, v, n)

DBInv == /\ IInv /\ DBTypeOK /\ QueueInv /\ StoringInv /\ NumberInv /\ FilledInv
         /\ OverlapInv /\ ReaderInv /\ SearchInv /\ WhereInv

-----------------------------------------------------------------------------
(* The highest list that has a key.                                        *)

LEMMA GreatestNumber ==
  ASSUME NEW m \in Nat, NEW S \in SUBSET (0 .. m), S # {}
  PROVE  \E i \in S : \A j \in S : j <= i
<1> DEFINE T == {m - i : i \in S}
<1>1. T \in SUBSET Nat /\ T # {}
  <2>1. \A i \in S : m - i \in Nat
    OBVIOUS
  <2>2. \E i \in S : m - i \in T
    OBVIOUS
  <2> QED BY <2>1, <2>2
<1>2. PICK t \in T : \A u \in T : t <= u
  BY <1>1, LeastNumber
<1>3. PICK i \in S : t = m - i
  BY <1>2
<1>4. \A j \in S : m - i <= m - j
  BY <1>2, <1>3
<1>5. \A j \in S : j \in Nat /\ i \in Nat
  BY <1>3
<1> QED BY <1>3, <1>4, <1>5

(* The lists that have a key.                                              *)
ListsWith(k) == {n \in 1 .. MaxLists + 1 : content[writerID[k]][n][k] # NoEntry}
Highest(ns) == IF ns = {} THEN 0 ELSE CHOOSE n \in ns : \A m \in ns : m <= n

LEMMA HighestIs ==
  ASSUME NEW m \in Nat, NEW ns \in SUBSET (1 .. m)
  PROVE  /\ Highest(ns) \in 0 .. m
         /\ Highest(ns) # 0 => Highest(ns) \in ns
         /\ \A n \in ns : Highest(ns) # 0 /\ n <= Highest(ns)
<1>1. CASE ns = {}
  BY <1>1 DEF Highest
<1>2. CASE ns # {}
  <2>1. \E n \in ns : \A k \in ns : k <= n
    <3>1. ns \in SUBSET (0 .. m)
      OBVIOUS
    <3> QED BY <1>2, <3>1, GreatestNumber
  <2> DEFINE g == CHOOSE n \in ns : \A k \in ns : k <= n
  <2>2. g \in ns /\ \A k \in ns : k <= g
    BY <2>1
  <2>3. Highest(ns) = g
    BY <1>2 DEF Highest
  <2> HIDE DEF g
  <2>4. g \in 1 .. m
    BY <2>2
  <2> QED BY <2>2, <2>3, <2>4
<1> QED BY <1>1, <1>2

LEMMA EntriesAre ==
  /\ NoEntry.seq_num = 0
  /\ \A e \in MemEntry : e # NoEntry /\ e.seq_num \in Nat /\ e.seq_num <= MaxSets /\ e.key \in Keys
  /\ \A e \in MemEntry \cup {NoEntry} : e.seq_num \in Nat
<1>1. MaxSets \in Nat /\ NoEntry.seq_num = 0
  BY YangKVAssumption DEF NoEntry
<1>2. \A e \in MemEntry : e.seq_num \in 1 .. MaxSets /\ e.key \in Keys
  BY DEF MemEntry
<1> QED BY <1>1, <1>2

LEMMA DBTypes ==
  ASSUME DBTypeOK, TypeOK
  PROVE  /\ MaxLists \in Nat /\ idx_ \in Nat
         /\ \A w \in Writers : filled[w] \in Nat
         /\ \A k \in Keys : writerID[k] \in Writers
         /\ \A w \in Writers, n \in 1 .. MaxLists + 1, k \in Keys :
              content[w][n][k] \in MemEntry \cup {NoEntry}
         /\ \A r \in Readers : seq[r] \in Nat /\ rkey[r] \in Keys /\ curr_[r] \in Nat
<1>1. MaxLists \in Nat /\ MaxSets \in Nat
  BY VersionSetAssumption, YangKVAssumption
<1>2. idx_ \in Nat /\ \A r \in Readers : seq[r] \in Nat /\ rkey[r] \in Keys
  BY <1>1 DEF DBTypeOK
<1>3. \A w \in Writers : filled[w] \in Nat
  BY Types
<1>4. \A k \in Keys : writerID[k] \in Writers
  BY YangKVAssumption
<1>5. \A w \in Writers, n \in 1 .. MaxLists + 1, k \in Keys :
        content[w][n][k] \in MemEntry \cup {NoEntry}
  <2> SUFFICES ASSUME NEW w \in Writers, NEW n \in 1 .. MaxLists + 1, NEW k \in Keys
               PROVE  content[w][n][k] \in MemEntry \cup {NoEntry}
    OBVIOUS
  <2>1. content[w] \in [1 .. MaxLists + 1 -> [Keys -> MemEntry \cup {NoEntry}]]
    BY DEF DBTypeOK
  <2>2. content[w][n] \in [Keys -> MemEntry \cup {NoEntry}]
    BY <2>1
  <2> QED BY <2>2
<1>6. \A r \in Readers : curr_[r] \in Nat
  BY Types DEF DBTypeOK
<1> QED BY <1>1, <1>2, <1>3, <1>4, <1>5, <1>6

LEMMA LatestIs ==
  ASSUME DBTypeOK, TypeOK, NEW k \in Keys
  PROVE  /\ LatestRank(k) \in 0 .. MaxLists + 1 /\ LatestRank(k) \in Nat
         /\ LatestRank(k) # 0 =>
              content[writerID[k]][LatestRank(k)][k] # NoEntry
                /\ Latest(k) = content[writerID[k]][LatestRank(k)][k]
         /\ LatestRank(k) = 0 => Latest(k) = NoEntry
         /\ \A n \in 1 .. MaxLists + 1 : content[writerID[k]][n][k] # NoEntry =>
              LatestRank(k) # 0 /\ n <= LatestRank(k)
         /\ Latest(k) \in MemEntry \cup {NoEntry} /\ Latest(k).seq_num \in Nat
<1>1. MaxLists \in Nat
  BY DBTypes
<1>2. LatestRank(k) = Highest(ListsWith(k))
  BY DEF LatestRank, Highest, ListsWith
<1>3. /\ LatestRank(k) \in 0 .. MaxLists + 1
      /\ LatestRank(k) # 0 => LatestRank(k) \in ListsWith(k)
      /\ \A n \in ListsWith(k) : LatestRank(k) # 0 /\ n <= LatestRank(k)
  <2>1. MaxLists + 1 \in Nat /\ ListsWith(k) \in SUBSET (1 .. MaxLists + 1)
    BY <1>1 DEF ListsWith
  <2> QED BY <1>2, <2>1, HighestIs
<1>4. LatestRank(k) # 0 => LatestRank(k) \in 1 .. MaxLists + 1
  BY <1>1, <1>3
<1>5. \A n \in 1 .. MaxLists + 1 : n \in ListsWith(k) <=> content[writerID[k]][n][k] # NoEntry
  BY DEF ListsWith
<1>6. /\ LatestRank(k) # 0 => Latest(k) = content[writerID[k]][LatestRank(k)][k]
      /\ LatestRank(k) = 0 => Latest(k) = NoEntry
  BY DEF Latest
<1>7. Latest(k) \in MemEntry \cup {NoEntry}
  BY <1>4, <1>6, DBTypes
<1>8. Latest(k).seq_num \in Nat
  BY <1>7, EntriesAre
<1> QED BY <1>1, <1>3, <1>4, <1>5, <1>6, <1>7, <1>8

(* Where no list of a key changes, neither does its last entry.            *)
LEMMA SameLatest ==
  ASSUME NEW k \in Keys,
         \A n \in 1 .. MaxLists + 1 : content'[writerID[k]][n][k] = content[writerID[k]][n][k]
  PROVE  LatestRank(k)' = LatestRank(k) /\ (MaxLists \in Nat => Latest(k)' = Latest(k))
<1> DEFINE f == ListsWith(k)
           g == {n \in 1 .. MaxLists + 1 : content'[writerID[k]][n][k] # NoEntry}
<1>1. f = g
  BY DEF ListsWith
<1>2. LatestRank(k) = Highest(f)
  BY DEF LatestRank, Highest, ListsWith
<1>3. LatestRank(k)' = Highest(g)
  BY DEF LatestRank, Highest
<1>4. LatestRank(k)' = LatestRank(k)
  BY <1>1, <1>2, <1>3
<1>5. MaxLists \in Nat => LatestRank(k) \in 0 .. MaxLists + 1
  <2>1. MaxLists \in Nat => MaxLists + 1 \in Nat /\ f \in SUBSET (1 .. MaxLists + 1)
    BY DEF ListsWith
  <2> HIDE DEF f
  <2> QED BY <1>2, <2>1, HighestIs
<1>6. MaxLists \in Nat /\ LatestRank(k) # 0 => LatestRank(k) \in 1 .. MaxLists + 1
  BY <1>5
<1> QED BY <1>4, <1>6 DEF Latest

-----------------------------------------------------------------------------
(* What the Writers and the Compacter do to versions, as a get sees it.    *)

VersionsMove ==
  /\ current_ <= current_'
  /\ \A v \in DOMAIN versions : v \in DOMAIN versions' /\ (freed(v) => freed(v)')
  /\ \A v \in DOMAIN versions, w \in Writers, n \in Nat :
       InVersion(v, w, n)' => InVersion(v, w, n) \/ n = filled[w]
  /\ current_' # current_ => \A w \in Writers : DOMAIN versions'[current_'].list_[w] = {}
  /\ \A w \in Writers : filled[w] <= filled'[w]

LEMMA SameVersionsMove ==
  ASSUME TypeOK, UNCHANGED <<versions, current_, filled>>
  PROVE  VersionsMove
<1>1. current_ \in Nat /\ \A w \in Writers : filled[w] \in Nat
  BY Types
<1> QED BY <1>1 DEF VersionsMove, InVersion, freed

LEMMA pushBackMoves == ASSUME IInv, NEW w \in Writers, pushBack(w) PROVE VersionsMove
<1> DEFINE x == ptr[w]
           l == versions[x].list_[w]
           m == Append(l, filled[w])
           e == [versions[x] EXCEPT !.list_[w] = m]
<1>1. /\ TypeOK /\ pc[w] = "push" /\ x \in 1 .. current_ /\ x \in DOMAIN versions
      /\ versions' = IF freed(x) THEN versions ELSE [versions EXCEPT ![x] = e]
      /\ UNCHANGED <<current_, filled>>
  <2>1. TypeOK /\ pc[w] = "push" /\ x \in 1 .. current_
    BY DEF IInv, LockInv, pushBack
  <2>2. x \in DOMAIN versions
    BY <2>1, Types
  <2> QED BY <2>1, <2>2 DEF pushBack
<1>2. current_ \in Nat /\ \A d \in Writers : filled[d] \in Nat
  BY <1>1, Types
<1>3. CASE freed(x)
  BY <1>1, <1>3, SameVersionsMove
<1>4. CASE ~freed(x)
  <2>1. /\ DOMAIN versions' = DOMAIN versions /\ versions'[x] = e
        /\ \A v \in DOMAIN versions : v # x => versions'[v] = versions[v]
    BY <1>1, <1>4
  <2>2. versions[x] \in Version /\ l \in Seq(Ranks) /\ filled[w] \in Nat
    BY <1>1, Types
  <2>3. /\ e.state = versions[x].state
        /\ e.list_[w] = m /\ \A d \in Writers : d # w => e.list_[d] = versions[x].list_[d]
    <3> HIDE DEF m
    <3> QED BY <2>2 DEF Version
  <2>4. \A i \in DOMAIN m : (i \in DOMAIN l /\ m[i] = l[i]) \/ m[i] = filled[w]
    <3>1. filled[w] \in Ranks
      <4>1. pc[w] # "fill" => filled[w] <= MaxLists
        BY DEF IInv, LockInv
      <4>2. filled[w] \in 1 .. MaxLists + 1 /\ MaxLists \in Nat
        BY <1>1, VersionSetAssumption DEF TypeOK
      <4> QED BY <1>1, <4>1, <4>2 DEF Ranks
    <3> HIDE DEF l
    <3> QED BY <2>2, <3>1, AppendFacts
  <2> HIDE DEF e, m
  <2>5. \A v \in DOMAIN versions : freed(v) => freed(v)'
    BY <2>1, <2>3 DEF freed
  <2>6. ASSUME NEW v \in DOMAIN versions, NEW d \in Writers, NEW n \in Nat, InVersion(v, d, n)'
        PROVE  InVersion(v, d, n) \/ n = filled[d]
    <3>1. CASE v # x \/ d # w
      <4>1. versions'[v].list_[d] = versions[v].list_[d]
        BY <2>1, <2>3, <3>1
      <4> QED BY <2>6, <4>1 DEF InVersion
    <3>2. CASE v = x /\ d = w
      <4>1. PICK i \in DOMAIN m : m[i] = n
        BY <2>1, <2>3, <2>6, <3>2 DEF InVersion
      <4> QED BY <2>4, <3>2, <4>1 DEF InVersion
    <3> QED BY <3>1, <3>2
  <2> QED BY <1>1, <1>2, <2>1, <2>5, <2>6 DEF VersionsMove
<1> QED BY <1>3, <1>4

LEMMA countAndUnlockMoves == ASSUME IInv, NEW w \in Writers, countAndUnlock(w) PROVE VersionsMove
<1> DEFINE x == ptr[w]
           e == [versions[x] EXCEPT !.list_count_ = @ + 1]
<1>1. /\ TypeOK /\ x \in DOMAIN versions
      /\ versions' = IF freed(x) THEN versions ELSE [versions EXCEPT ![x] = e]
      /\ UNCHANGED current_ /\ filled' = [filled EXCEPT ![w] = @ + 1]
  <2>1. TypeOK /\ pc[w] = "count" /\ x \in 1 .. current_
    BY DEF IInv, LockInv, countAndUnlock
  <2>2. x \in DOMAIN versions
    BY <2>1, Types
  <2> QED BY <2>1, <2>2 DEF countAndUnlock
<1>2. current_ \in Nat /\ \A d \in Writers : filled[d] \in Nat /\ filled[d] <= filled'[d]
  <2>1. current_ \in Nat /\ \A d \in Writers : filled[d] \in Nat
    BY <1>1, Types
  <2>2. \A d \in Writers : filled'[d] = filled[d] \/ filled'[d] = filled[d] + 1
    BY <1>1 DEF TypeOK
  <2> QED BY <2>1, <2>2
<1>3. versions[x] \in Version
  BY <1>1, Types
<1>4. e.list_ = versions[x].list_ /\ e.state = versions[x].state
  BY <1>3 DEF Version
<1> HIDE DEF e
<1>5. /\ DOMAIN versions' = DOMAIN versions
      /\ \A v \in DOMAIN versions : /\ versions'[v].list_ = versions[v].list_
                                    /\ versions'[v].state = versions[v].state
  <2>1. CASE freed(x)
    BY <1>1, <2>1
  <2>2. CASE ~freed(x)
    BY <1>1, <1>4, <2>2
  <2> QED BY <2>1, <2>2
<1> QED BY <1>1, <1>2, <1>5 DEF VersionsMove, freed, InVersion

LEMMA applyMoves == ASSUME IInv, apply PROVE VersionsMove
<1> DEFINE x == NewVersion(Append(versions[current_].files_, Len(tables)))
<1>1. TypeOK /\ versions' = Append(versions, x) /\ UNCHANGED <<current_, filled>>
  BY DEF IInv, apply, writerVars
<1>2. /\ versions \in Seq(Version) /\ current_ \in Nat
      /\ \A d \in Writers : filled[d] \in Nat
  BY <1>1, Types DEF TypeOK
<1> HIDE DEF x
<1>3. \A v \in DOMAIN versions : v \in DOMAIN versions' /\ versions'[v] = versions[v]
  BY <1>1, <1>2
<1> QED BY <1>1, <1>2, <1>3 DEF VersionsMove, freed, InVersion

LEMMA UnrefMoves == ASSUME IInv, Unref PROVE VersionsMove
<1> DEFINE e == [versions[current_] EXCEPT !.state = "freed"]
<1>1. TypeOK /\ versions' = [versions EXCEPT ![current_] = e] /\ UNCHANGED <<current_, filled>>
  BY DEF IInv, Unref, writerVars
<1>2. /\ versions[current_] \in Version /\ current_ \in DOMAIN versions /\ current_ \in Nat
      /\ \A d \in Writers : filled[d] \in Nat
  BY <1>1, Types
<1>3. e.list_ = versions[current_].list_ /\ e.state = "freed"
  BY <1>2 DEF Version
<1> HIDE DEF e
<1>4. /\ DOMAIN versions' = DOMAIN versions
      /\ \A v \in DOMAIN versions : /\ versions'[v].list_ = versions[v].list_
                                    /\ versions'[v].state \in {versions[v].state, "freed"}
  BY <1>1, <1>2, <1>3
<1> QED BY <1>1, <1>2, <1>4 DEF VersionsMove, freed, InVersion

LEMMA installMoves == ASSUME IInv, install PROVE VersionsMove
<1> DEFINE n == Len(versions)
           e == [versions[n] EXCEPT !.state = "live"]
<1>1. /\ TypeOK /\ n = current_ + 1 /\ current_' = n /\ versions' = [versions EXCEPT ![n] = e]
      /\ UNCHANGED filled
      /\ versions[n] = NewVersion(Append(versions[current_].files_, Len(tables)))
  BY DEF IInv, install, ShapeInv, writerVars
<1>2. /\ current_ \in Nat /\ n \in DOMAIN versions /\ versions[n] \in Version
      /\ \A d \in Writers : filled[d] \in Nat
  BY <1>1, Types
<1>3. e.list_ = versions[n].list_ /\ e.list_ = NoLists /\ versions[n].state = "new"
  <2>1. versions[n].list_ = NoLists /\ versions[n].state = "new"
    BY <1>1 DEF NewVersion
  <2> QED BY <1>2, <2>1 DEF Version
<1> HIDE DEF e, n
<1>4. /\ DOMAIN versions' = DOMAIN versions /\ versions'[n] = e
      /\ \A v \in DOMAIN versions : /\ versions'[v].list_ = versions[v].list_
                                    /\ v # n => versions'[v].state = versions[v].state
  BY <1>1, <1>2, <1>3
<1>5. \A w \in Writers : DOMAIN versions'[current_'].list_[w] = {}
  BY <1>1, <1>3, <1>4 DEF NoLists
<1>6. \A v \in DOMAIN versions : freed(v) => freed(v)'
  BY <1>3, <1>4 DEF freed
<1> QED BY <1>1, <1>2, <1>4, <1>5, <1>6 DEF VersionsMove, InVersion

LEMMA VersionsMoveOn == ASSUME IInv, [Next]_vars PROVE VersionsMove
<1> USE DEF IInv
<1>1. ASSUME NEW w \in Writers,
             \/ listFull(w) \/ Lock(w) \/ checkFull(w) \/ Wait(w) \/ relock(w) \/ readCurrent(w)
             \/ wakeSpuriously(w)
      PROVE  VersionsMove
  BY <1>1, SameVersionsMove
     DEF listFull, Lock, checkFull, Wait, relock, readCurrent, wakeSpuriously, setVars
<1>2. ASSUME NEW w \in Writers, pushBack(w) \/ countAndUnlock(w) PROVE VersionsMove
  BY <1>2, pushBackMoves, countAndUnlockMoves
<1>3. CASE poll \/ merge \/ BuildTable \/ Boardcast \/ quit \/ stop \/ UNCHANGED vars
  BY <1>3, SameVersionsMove
     DEF poll, merge, BuildTable, Boardcast, quit, stop, vars, setVars, writerVars
<1>4. CASE apply \/ Unref \/ install
  BY <1>4, applyMoves, UnrefMoves, installMoves
<1> QED BY <1>1, <1>2, <1>3, <1>4 DEF Next, AppendFrozenList, Compacter

-----------------------------------------------------------------------------
(* Steps that no reader takes.                                             *)

SameSearch(r) ==
  begin'[r] = begin[r] /\ end'[r] = end[r] /\ pos'[r] = pos[r] /\ slotKey'[r] = slotKey[r]

SameReader(r) ==
  /\ rpc'[r] = rpc[r] /\ rkey'[r] = rkey[r] /\ seq'[r] = seq[r] /\ SameSearch(r) /\ curr_'[r] = curr_[r]
  /\ lists'[r] = lists[r] /\ answer'[r] = answer[r] /\ before'[r] = before[r]

(* e is a set of k that its Writer has not inserted yet.                   *)
UnderWay(k, e) ==
  \/ \E c \in Clients : sending[c] # NoEntry /\ sending[c].key = k /\ e = sending[c]
  \/ \E i \in 1 .. Len(queue[writerID[k]]) :
       queue[writerID[k]][i].key = k /\ e = queue[writerID[k]][i]

(* How the entries of a key may move: what is under way was under way, or  *)
(* has the next number; and what is inserted was under way.                *)
SameLast(k) ==
  LatestRank(k)' = LatestRank(k) /\ Latest(k)' = Latest(k) /\ (Pending(k) => Pending(k)')

Flow(k) ==
  /\ \A c \in Clients : sending'[c] # NoEntry /\ sending'[c].key = k =>
       UnderWay(k, sending'[c]) \/ sending'[c].seq_num = idx_
  /\ \A i \in 1 .. Len(queue'[writerID[k]]) :
       queue'[writerID[k]][i].key = k => UnderWay(k, queue'[writerID[k]][i])
  /\ SameLast(k) \/ UnderWay(k, Latest(k)')

(* The prover does not add two lengths unless they are named.              *)
LEMMA Sums ==
  ASSUME NEW a \in Nat, NEW b \in Nat
  PROVE  /\ a + b \in Nat
         /\ \A c, d, x \in Nat : x <= a + b /\ a + b <= c + d => x <= c + d
         /\ b # 0 => a + b <= (a + 1) + (b - 1)
  OBVIOUS

(* How a ring moves: what is popped was in it, and nothing popped changes. *)
RingMoves(w) ==
  /\ Len(popped[w]) + Len(queue[w]) <= Len(popped'[w]) + Len(queue'[w])
  /\ \A p \in 1 .. Len(popped'[w]) :
       \/ p \in 1 .. Len(popped[w]) /\ popped'[w][p] = popped[w][p]
       \/ \E i \in 1 .. Len(queue[w]) : popped'[w][p] = queue[w][i]

LEMMA RingStays ==
  ASSUME QueueInv, UNCHANGED <<queue, popped>>
  PROVE  \A w \in Writers : RingMoves(w) /\ QueueInv'
<1>1. \A w \in Writers : Len(queue[w]) \in Nat /\ Len(popped[w]) \in Nat
  BY DEF QueueInv
<1> QED BY <1>1 DEF RingMoves, QueueInv

(* A client copies on while nobody else pushes to its partition.           *)
LEMMA StoringStays ==
  ASSUME DBInv, UNCHANGED <<sending, part, queue>>
  PROVE  StoringInv'
  BY DEF DBInv, StoringInv, partition

LEMMA UnderWayIsNewer ==
  ASSUME NEW r \in Readers, NEW k \in Keys, Newer(r, k), NEW e, UnderWay(k, e)
  PROVE  seq[r] <= e.seq_num
<1>1. CASE \E c \in Clients : sending[c] # NoEntry /\ sending[c].key = k /\ e = sending[c]
  BY <1>1 DEF Newer
<1>2. CASE \E i \in 1 .. Len(queue[writerID[k]]) :
             queue[writerID[k]][i].key = k /\ e = queue[writerID[k]][i]
  BY <1>2 DEF Newer
<1> QED BY <1>1, <1>2 DEF UnderWay

LEMMA InMemoryIs ==
  ASSUME NEW w, NEW n
  PROVE  InMemory(w, n) <=> n = filled[w] \/ (~freed(current_) /\ InVersion(current_, w, n))
  BY DEF InMemory, InVersion

(* A list is in memory after a step if it was before.                      *)
LEMMA StaysOutOfMemory ==
  ASSUME TypeOK, VersionsMove, NEW w \in Writers, NEW n \in Nat, n <= filled[w], InMemory(w, n)',
         filled'[w] \in Nat
  PROVE  InMemory(w, n)
<1>1. current_ \in DOMAIN versions /\ filled[w] \in Nat /\ filled[w] <= filled'[w]
  BY Types DEF VersionsMove
<1>2. CASE n = filled'[w]
  <2>1. n = filled[w]
    BY <1>1, <1>2
  <2> QED BY <2>1 DEF InMemory
<1>3. CASE n # filled'[w]
  <2>1. /\ versions'[current_'].state # "freed"
        /\ \E i \in DOMAIN versions'[current_'].list_[w] : versions'[current_'].list_[w][i] = n
    BY <1>3 DEF InMemory, freed
  <2>2. current_' = current_
    BY <2>1 DEF VersionsMove
  <2>3. ~freed(current_)
    BY <1>1, <2>1, <2>2 DEF VersionsMove, freed
  <2>4. InVersion(current_, w, n) \/ n = filled[w]
    BY <1>1, <2>1, <2>2 DEF VersionsMove, InVersion
  <2> QED BY <2>3, <2>4, InMemoryIs
<1> QED BY <1>2, <1>3

LEMMA RankIsFilled ==
  ASSUME DBInv, NEW k \in Keys
  PROVE  LatestRank(k) <= filled[writerID[k]]
<1> DEFINE n == LatestRank(k)
           w == writerID[k]
<1>1. DBTypeOK /\ TypeOK /\ FilledInv
  BY DEF DBInv, IInv
<1>2. w \in Writers /\ filled[w] \in Nat /\ MaxLists \in Nat
  BY <1>1, DBTypes
<1>3. n \in 0 .. MaxLists + 1 /\ (n # 0 => content[w][n][k] # NoEntry)
  BY <1>1, LatestIs
<1> HIDE DEF n, w
<1> SUFFICES n <= filled[w]
  BY DEF n, w
<1>4. CASE n = 0
  BY <1>2, <1>4
<1>5. CASE n # 0
  <2>1. n \in 1 .. MaxLists + 1
    BY <1>2, <1>3, <1>5
  <2>2. ~(n > filled[w])
    BY <1>1, <1>2, <1>3, <1>5, <2>1 DEF FilledInv
  <2> QED BY <1>2, <2>1, <2>2
<1> QED BY <1>4, <1>5

LEMMA WhereKept ==
  ASSUME DBInv, VersionsMove, TypeOK', NEW r \in Readers, NEW k \in Keys, NEW v \in Nat, NEW n \in Nat,
         SameReader(r), rkey[r] = k, curr_[r] = v, LatestRank(k)' = n,
         rpc[r] # "idle" /\ Quiet(r, k)' => Quiet(r, k) /\ SameLast(k)
  PROVE  Where(r, k, v, n)'
<1> DEFINE w == writerID[k]
<1>1. DBTypeOK /\ TypeOK
  BY DEF DBInv, IInv
<1>2. w \in Writers /\ filled[w] \in Nat /\ filled'[w] \in Nat /\ filled[w] <= filled'[w]
  <2>1. w \in Writers /\ filled[w] \in Nat
    BY <1>1, DBTypes
  <2>2. filled'[w] \in Nat
    BY SMTT(30), <2>1, VersionSetAssumption DEF TypeOK
  <2> QED BY <2>1, <2>2 DEF VersionsMove
<1> HIDE DEF w
<1>3. CASE rpc[r] = "idle"
  BY <1>3 DEF Where, SameReader
<1>4. CASE rpc[r] # "idle"
  <2> SUFFICES ASSUME Quiet(r, k)'
               PROVE  /\ rpc[r] \in {"version", "get", "scan"} => n < filled'[w]
                      /\ rpc[r] = "scan" /\ ~freed(v)' /\ InVersion(v, w, n)' => ToLookAt(r, n)'
                      /\ rpc[r] = "done" /\ ~Pending(k)' /\ (v # 0 => ~freed(v)') /\ InMemory(w, n)' =>
                           answer'[r] = Latest(k)'
    BY DEF Where, SameReader, w
  <2>1. /\ Quiet(r, k) /\ LatestRank(k) = n /\ Latest(k)' = Latest(k)
        /\ Pending(k) => Pending(k)'
    BY <1>4 DEF SameLast
  <2>2. Where(r, k, v, n)
    BY <2>1 DEF DBInv, WhereInv
  <2>3. n <= filled[w]
    BY <2>1, RankIsFilled DEF w
  <2>4. /\ rpc[r] \in {"version", "get", "scan"} => n < filled[w]
        /\ rpc[r] = "scan" /\ ~freed(v) /\ InVersion(v, w, n) => ToLookAt(r, n)
        /\ rpc[r] = "done" /\ ~Pending(k) /\ (v # 0 => ~freed(v)) /\ InMemory(w, n) =>
             answer[r] = Latest(k)
    BY <2>1, <2>2 DEF Where, w
  <2>5. v # 0 => v \in DOMAIN versions
    BY <1>1 DEF DBTypeOK
  <2>6. v # 0 => (freed(v) => freed(v)')
    BY <2>5 DEF VersionsMove
  <2>7. rpc[r] \in {"version", "get", "scan"} => n < filled'[w]
    BY <1>2, <2>4
  <2>8. ASSUME rpc[r] = "scan", ~freed(v)', InVersion(v, w, n)' PROVE ToLookAt(r, n)'
    <3>1. v # 0
      BY <2>8 DEF DBInv, ReaderInv, ReaderAt
    <3>2. InVersion(v, w, n) \/ n = filled[w]
      BY <1>2, <2>5, <2>8, <3>1 DEF VersionsMove
    <3>3. n # filled[w]
      BY <1>2, <2>4, <2>8
    <3>4. ToLookAt(r, n)
      BY <2>4, <2>6, <2>8, <3>1, <3>2, <3>3
    <3> QED BY <3>4 DEF ToLookAt, SameReader
  <2>9. ASSUME rpc[r] = "done", ~Pending(k)', v # 0 => ~freed(v)', InMemory(w, n)'
        PROVE  answer'[r] = Latest(k)'
    <3>1. InMemory(w, n)
      BY <1>1, <1>2, <2>3, <2>9, StaysOutOfMemory
    <3>2. answer[r] = Latest(k)
      BY <2>1, <2>4, <2>6, <2>9, <3>1
    <3> QED BY <2>1, <3>2 DEF SameReader
  <2> QED BY <2>7, <2>8, <2>9
<1> QED BY <1>3, <1>4

(* While the last entry of its key is the old one, a get is not disturbed; *)
(* what comes after it is too new to be taken for it.                      *)
LEMMA OverlapKept ==
  ASSUME DBInv, NEW r \in Readers, NEW k \in Keys, SameReader(r), rkey[r] = k,
         idx_' \in Nat, idx_ <= idx_', Flow(k)
  PROVE  /\ Overlap(r, k)'
         /\ rpc[r] # "idle" /\ Quiet(r, k)' => Quiet(r, k) /\ SameLast(k)
<1>1. DBTypeOK /\ TypeOK
  BY DEF DBInv, IInv
<1>2. seq[r] \in Nat /\ idx_ \in Nat
  BY <1>1, DBTypes
<1> SUFFICES ASSUME rpc[r] # "idle", ~before[r].pending
             PROVE  /\ before[r].latest.seq_num < seq[r] /\ seq[r] <= idx_' /\ Newer(r, k)'
                    /\ Quiet(r, k)' => Quiet(r, k) /\ SameLast(k)
  BY DEF Overlap, SameReader, Quiet
<1>3. before[r].latest.seq_num < seq[r] /\ seq[r] <= idx_ /\ Newer(r, k)
  BY DEF DBInv, OverlapInv, Overlap
<1>4. seq[r] <= idx_'
  BY <1>2, <1>3
<1>5. \A e : UnderWay(k, e) => seq[r] <= e.seq_num
  BY <1>3, UnderWayIsNewer
<1>6. Latest(k)' = before[r].latest \/ seq[r] <= Latest(k)'.seq_num
  BY <1>3, <1>5 DEF Flow, SameLast, Newer
<1>7. \A c \in Clients : sending'[c] # NoEntry /\ sending'[c].key = k => seq[r] <= sending'[c].seq_num
  BY <1>3, <1>5 DEF Flow
<1>8. \A i \in 1 .. Len(queue'[writerID[k]]) :
        queue'[writerID[k]][i].key = k => seq[r] <= queue'[writerID[k]][i].seq_num
  BY <1>5 DEF Flow
<1>9. Newer(r, k)'
  BY <1>6, <1>7, <1>8 DEF Newer, SameReader
<1>10. ASSUME Quiet(r, k)' PROVE Quiet(r, k) /\ SameLast(k)
  <2>1. Latest(k)' = before[r].latest
    BY <1>10 DEF Quiet, SameReader
  <2>2. ~(seq[r] <= before[r].latest.seq_num)
    <3>1. before[r].latest.seq_num \in Nat
      <4>1. before[r].latest \in MemEntry \cup {NoEntry}
        BY <1>1 DEF DBTypeOK
      <4> QED BY <4>1, EntriesAre
    <3> QED BY <1>2, <1>3, <3>1
  <2>3. SameLast(k)
    BY <1>5, <2>1, <2>2 DEF Flow
  <2> QED BY <2>1, <2>3 DEF Quiet, SameLast
<1> QED BY <1>3, <1>4, <1>9, <1>10

(* A set that overlaps a get overlaps it for good.                         *)
LEMMA TouchedStays ==
  ASSUME NEW r \in Readers, NEW k \in Keys, SameReader(r), rpc[r] # "idle", Touched(r, k),
         Quiet(r, k)' => Quiet(r, k) /\ SameLast(k)
  PROVE  Touched(r, k)'
  BY DEF Touched, Quiet, SameLast, SameReader

LEMMA QueuedIsPending ==
  ASSUME QueueInv, NEW k \in Keys, NEW i \in 1 .. Len(queue[writerID[k]]),
         queue[writerID[k]][i].key = k
  PROVE  Pending(k)
<1>1. queue[writerID[k]] \in Seq(MemEntry)
  BY YangKVAssumption DEF QueueInv
<1>2. i \in DOMAIN queue[writerID[k]]
  BY <1>1, SeqFacts
<1> QED BY <1>2 DEF Pending

LEMMA SearchKept ==
  ASSUME DBInv, QueueInv', NEW r \in Readers, NEW k \in Keys, SameReader(r), rkey[r] = k,
         RingMoves(writerID[k]),
         rpc[r] # "idle" /\ Quiet(r, k)' => Quiet(r, k) /\ SameLast(k)
  PROVE  SearchAt(r, k)'
<1> DEFINE w == writerID[k]
<1>1. SearchAt(r, k) /\ QueueInv /\ w \in Writers
  BY YangKVAssumption DEF DBInv, SearchInv
<1>2. /\ Len(queue[w]) \in Nat /\ Len(popped[w]) \in Nat
      /\ Len(queue'[w]) \in Nat /\ Len(popped'[w]) \in Nat
  BY <1>1, SeqFacts DEF QueueInv
<1>3. begin[r] \in Nat
  BY DEF DBInv, DBTypeOK
<1>4. rpc[r] # "idle" /\ Touched(r, k) => Touched(r, k)'
  BY TouchedStays
<1>5. rpc[r] \in {"end", "loop", "slot"} => begin'[r] <= Len(popped'[w]) + Len(queue'[w])
  <2> SUFFICES ASSUME rpc[r] \in {"end", "loop", "slot"}
               PROVE  begin[r] <= Len(popped'[w]) + Len(queue'[w])
    BY DEF SameReader, SameSearch
  <2>1. /\ begin[r] <= Len(popped[w]) + Len(queue[w])
        /\ Len(popped[w]) + Len(queue[w]) <= Len(popped'[w]) + Len(queue'[w])
    BY <1>1 DEF SearchAt, RingMoves
  <2> DEFINE a == Len(popped[w])
             b == Len(queue[w])
             c == Len(popped'[w])
             d == Len(queue'[w])
  <2>2. a \in Nat /\ b \in Nat /\ c \in Nat /\ d \in Nat /\ begin[r] <= a + b /\ a + b <= c + d
    BY <1>2, <2>1
  <2> HIDE DEF a, b, c, d
  <2>3. begin[r] <= c + d
    BY <1>3, <2>2
  <2> QED BY <2>3 DEF c, d
<1>6. ASSUME rpc[r] \in {"loop", "slot"}, NEW p \in 1 .. Len(popped'[w]), end[r] <= p,
             popped'[w][p].key = k
      PROVE  Touched(r, k)'
  <2>1. CASE p \in 1 .. Len(popped[w]) /\ popped'[w][p] = popped[w][p]
    BY <1>1, <1>4, <1>6, <2>1 DEF SearchAt
  <2>2. CASE \E i \in 1 .. Len(queue[w]) : popped'[w][p] = queue[w][i]
    <3>1. Pending(k)
      BY <1>1, <1>6, <2>2, QueuedIsPending
    <3> QED BY <1>4, <1>6, <3>1 DEF Touched
  <2> QED BY <2>1, <2>2 DEF RingMoves
<1> QED BY <1>1, <1>4, <1>5, <1>6 DEF SearchAt, SameReader, SameSearch

LEMMA OthersStep ==
  ASSUME DBInv, IInv', VersionsMove, UNCHANGED readerVars, idx_' \in Nat, idx_ <= idx_',
         \A k \in Keys : Flow(k), QueueInv', \A w \in Writers : RingMoves(w)
  PROVE  OverlapInv' /\ ReaderInv' /\ SearchInv' /\ WhereInv'
<1>1. DBTypeOK /\ TypeOK /\ TypeOK'
  BY DEF DBInv, IInv
<1>2. \A r \in Readers : SameReader(r)
  BY DEF readerVars, searchVars, SameReader, SameSearch
<1>3. OverlapInv'
  <2> SUFFICES ASSUME NEW r \in Readers, NEW k \in Keys, rkey'[r] = k PROVE Overlap(r, k)'
    BY DEF OverlapInv
  <2>1. rkey[r] = k
    BY <1>2 DEF SameReader
  <2> QED BY <1>2, <2>1, OverlapKept
<1>4. ReaderInv'
  <2> SUFFICES ASSUME NEW r \in Readers PROVE ReaderAt(r)'
    BY DEF ReaderInv
  <2>1. ReaderAt(r)
    BY DEF DBInv, ReaderInv
  <2>2. current_ \in Nat /\ current_' \in Nat /\ current_ <= current_'
    <3>1. current_' \in Nat
      <4>1. versions' \in Seq(Version)' /\ current_' \in DOMAIN versions'
        BY <1>1 DEF TypeOK
      <4> QED BY <4>1, SeqFacts
    <3> QED BY <1>1, <3>1, Types DEF VersionsMove
  <2>3. \A v \in 1 .. current_ : v \in 1 .. current_'
    BY <2>2
  <2> QED BY <1>2, <2>1, <2>3 DEF ReaderAt, SameReader
<1>5. WhereInv'
  <2> SUFFICES ASSUME NEW r \in Readers, NEW k \in Keys, NEW v \in Nat, NEW n \in Nat,
                      rkey'[r] = k, curr_'[r] = v, LatestRank(k)' = n
               PROVE  Where(r, k, v, n)'
    BY DEF WhereInv
  <2>1. rkey[r] = k /\ curr_[r] = v
    BY <1>2 DEF SameReader
  <2>2. rpc[r] # "idle" /\ Quiet(r, k)' => Quiet(r, k) /\ SameLast(k)
    BY <1>2, <2>1, OverlapKept
  <2> QED BY <1>1, <1>2, <2>1, <2>2, WhereKept
<1>6. SearchInv'
  <2> SUFFICES ASSUME NEW r \in Readers, NEW k \in Keys, rkey'[r] = k PROVE SearchAt(r, k)'
    BY DEF SearchInv
  <2>1. SameReader(r) /\ rkey[r] = k /\ RingMoves(writerID[k])
    BY <1>2, YangKVAssumption DEF SameReader
  <2>2. rpc[r] # "idle" /\ Quiet(r, k)' => Quiet(r, k) /\ SameLast(k)
    BY <2>1, OverlapKept
  <2> QED BY <2>1, <2>2, SearchKept
<1> QED BY <1>3, <1>4, <1>5, <1>6

-----------------------------------------------------------------------------
(* Types, by whose state they are of.                                      *)
ClientTypes ==
  /\ idx_ \in 1 .. MaxSets + 1
  /\ sending \in [Clients -> MemEntry \cup {NoEntry}]
  /\ part \in [Clients -> {"none", "key", "all"}]
  /\ queue \in [Writers -> Seq(MemEntry)]
  /\ popped \in [Writers -> Seq(MemEntry)]
  /\ \A w \in Writers : Len(queue[w]) <= kQueueSize
ListTypes ==
  /\ held \subseteq Writers
  /\ content \in [Writers -> [1 .. MaxLists + 1 -> [Keys -> MemEntry \cup {NoEntry}]]]
ReaderTypes ==
  /\ rpc \in [Readers -> {"idle", "begin", "end", "loop", "slot", "list", "version",
                          "get", "scan", "done"}]
  /\ rkey \in [Readers -> Keys]
  /\ seq \in [Readers -> 0 .. MaxSets + 1]
  /\ begin \in [Readers -> Nat] /\ end \in [Readers -> Nat \ {0}]
  /\ pos \in [Readers -> Nat]
  /\ slotKey \in [Readers -> Keys \cup {NoKey}]
  /\ curr_ \in [Readers -> {0} \cup DOMAIN versions]
  /\ lists \in [Readers -> Seq(Ranks)]
  /\ answer \in [Readers -> MemEntry \cup {NoEntry}]
  /\ before \in [Readers -> [latest : MemEntry \cup {NoEntry}, pending : BOOLEAN]]

LEMMA TypeParts == DBTypeOK /\ QueueInv => ClientTypes /\ ListTypes /\ ReaderTypes
  BY DEF DBTypeOK, QueueInv, ClientTypes, ListTypes, ReaderTypes

LEMMA TypesOfParts ==
  ASSUME ClientTypes', ListTypes', ReaderTypes'
  PROVE  DBTypeOK' /\ QueueInv'
<1>1. QueueInv' /\ \A w \in Writers : queue'[w] \in Seq(MemEntry) /\ popped'[w] \in Seq(MemEntry)
  BY DEF ClientTypes, QueueInv
<1> QED BY <1>1 DEF DBTypeOK, ClientTypes, ListTypes, ReaderTypes

LEMMA SameReaderTypes ==
  ASSUME ReaderTypes, VersionsMove, UNCHANGED readerVars
  PROVE  ReaderTypes'
<1>1. \A v \in DOMAIN versions : v \in DOMAIN versions'
  BY DEF VersionsMove
<1>2. curr_ \in [Readers -> {0} \cup DOMAIN versions']
  BY <1>1 DEF ReaderTypes
<1> QED BY <1>2 DEF ReaderTypes, readerVars, searchVars

LEMMA SameFilled ==
  ASSUME DBInv, VersionsMove, IInv', UNCHANGED content
  PROVE  FilledInv'
<1> SUFFICES ASSUME NEW w \in Writers, NEW n \in 1 .. MaxLists + 1, NEW k \in Keys, n > filled'[w]
             PROVE  content[w][n][k] = NoEntry
  BY DEF FilledInv
<1>1. filled[w] \in Nat /\ filled'[w] \in Nat /\ filled[w] <= filled'[w] /\ MaxLists \in Nat
  <2>1. TypeOK /\ MaxLists \in Nat /\ filled' \in [Writers -> 1 .. MaxLists + 1]
    BY VersionSetAssumption DEF DBInv, IInv, TypeOK
  <2>2. filled[w] \in Nat /\ filled'[w] \in Nat
    BY <2>1, Types
  <2> QED BY <2>1, <2>2 DEF VersionsMove
<1>2. n > filled[w]
  BY <1>1
<1> QED BY <1>2 DEF DBInv, FilledInv

LEMMA SameLasts ==
  ASSUME UNCHANGED content, \A k \in Keys : Pending(k) => Pending(k)'
  PROVE  \A k \in Keys : SameLast(k)
  BY SameLatest, VersionSetAssumption DEF SameLast

LEMMA SameFlow ==
  ASSUME UNCHANGED <<sending, queue, content>>
  PROVE  \A k \in Keys : Flow(k)
<1>1. \A k \in Keys : Pending(k) => Pending(k)'
  BY DEF Pending
<1>2. \A k \in Keys : SameLast(k)
  BY <1>1, SameLasts
<1> QED BY <1>2 DEF Flow, UnderWay

-----------------------------------------------------------------------------
(* The store takes its steps as VersionSet does.                           *)
LEMMA DBStepIsStep == ASSUME [DBNext]_dbVars PROVE [Next]_vars
<1>1. ASSUME NEW w \in Writers, insertMessage(w) PROVE [Next]_vars
  BY <1>1 DEF insertMessage, Next
<1>2. ASSUME NEW w \in Writers, freeze(w) PROVE [Next]_vars
  BY <1>2 DEF freeze, Next
<1>3. ASSUME compactOrStop PROVE [Next]_vars
  BY <1>3 DEF compactOrStop, Next
<1>4. CASE UNCHANGED dbVars
  BY <1>4 DEF dbVars
<1>5. CASE \/ \E c \in Clients, k \in Keys, del \in DelFlags : setKey(c, k, del)
           \/ \E c \in Clients : push(c)
           \/ \E w \in Writers : wrlock(w) \/ unlock(w)
  BY <1>5 DEF setKey, push, pushStoreKey, pushStoreRest, pushPublish, wrlock, unlock
<1>6. ASSUME NEW r \in Readers, NEW k \in Keys, getValue(r, k) PROVE UNCHANGED vars
  BY <1>6 DEF getValue
<1>7. ASSUME NEW r \in Readers, search(r) PROVE UNCHANGED vars
  BY <1>7 DEF search, readBegin, readEnd, readSlotKey, readSlotRest, endOfLoop
<1>8. ASSUME NEW r \in Readers, getEntry(r) \/ Current(r) \/ GetBegin(r) PROVE UNCHANGED vars
  BY <1>8 DEF getEntry, Current, GetBegin
<1>9. ASSUME NEW r \in Readers, GetList(r) \/ GetFiles(r) \/ GetFreed(r) \/ return(r)
      PROVE  UNCHANGED vars
  BY <1>9 DEF GetList, GetFiles, GetFreed, return
<1> QED BY <1>1, <1>2, <1>3, <1>4, <1>5, <1>6, <1>7, <1>8, <1>9 DEF DBNext

(* Locks, freezing and compaction move no entry.                           *)
LEMMA NoEntryMoves ==
  ASSUME DBInv, IInv', VersionsMove, held' \subseteq Writers,
         UNCHANGED <<clientVars, content, readerVars>>
  PROVE  DBInv'
<1>1. ClientTypes /\ ListTypes /\ ReaderTypes /\ NumberInv
  BY TypeParts DEF DBInv
<1>2. DBTypeOK' /\ QueueInv'
  <2>1. ClientTypes' /\ ListTypes'
    BY <1>1 DEF ClientTypes, ListTypes, clientVars
  <2> QED BY <1>1, <2>1, SameReaderTypes, TypesOfParts
<1>3. NumberInv'
  BY <1>1 DEF NumberInv, clientVars
<1>4. FilledInv'
  BY SameFilled
<1>5. idx_' \in Nat /\ idx_ <= idx_'
  <2>1. idx_ \in Nat /\ idx_' = idx_
    BY DBTypes DEF DBInv, IInv, clientVars
  <2> QED BY <2>1
<1>6. \A k \in Keys : Flow(k)
  BY SameFlow DEF clientVars
<1>7. StoringInv' /\ \A w \in Writers : RingMoves(w)
  <2>1. QueueInv
    BY DEF DBInv
  <2> QED BY <2>1, RingStays, StoringStays DEF clientVars
<1> QED BY <1>2, <1>3, <1>4, <1>5, <1>6, <1>7, OthersStep DEF DBInv

LEMMA setKeyStep ==
  ASSUME DBInv, NEW c \in Clients, NEW k \in Keys, NEW del \in DelFlags, setKey(c, k, del)
  PROVE  DBInv'
<1> DEFINE e == [seq_num |-> idx_, key |-> k, value_type |-> del]
<1>1. /\ sending[c] = NoEntry /\ idx_ <= MaxSets /\ sending' = [sending EXCEPT ![c] = e]
      /\ idx_' = idx_ + 1 /\ UNCHANGED <<vars, part, queue, popped, held, content, readerVars>>
  BY DEF setKey, listVars
<1>2. ClientTypes /\ ListTypes /\ ReaderTypes /\ NumberInv /\ IInv
  BY TypeParts DEF DBInv
<1>3. IInv' /\ VersionsMove
  BY <1>1, <1>2, NextIInv, VersionsMoveOn
<1>4. idx_ \in Nat /\ idx_ \in 1 .. MaxSets /\ MaxSets \in Nat /\ idx_' \in Nat /\ idx_ <= idx_'
  BY <1>1, <1>2, YangKVAssumption DEF ClientTypes
<1>5. e \in MemEntry /\ e.seq_num = idx_
  BY <1>4, YangKVAssumption DEF MemEntry
<1>6. sending'[c] = e /\ \A d \in Clients : d # c => sending'[d] = sending[d]
  BY <1>1, <1>2 DEF ClientTypes
<1> HIDE DEF e
<1>7. DBTypeOK' /\ QueueInv'
  <2>1. idx_' \in 1 .. MaxSets + 1
    BY <1>1, <1>4
  <2>2. sending' \in [Clients -> MemEntry \cup {NoEntry}]
    BY <1>1, <1>2, <1>5 DEF ClientTypes
  <2>3. ClientTypes' /\ ListTypes'
    BY <1>1, <1>2, <2>1, <2>2 DEF ClientTypes, ListTypes
  <2> QED BY <1>1, <1>2, <1>3, <2>3, SameReaderTypes, TypesOfParts
<1>8. NumberInv'
  <2>1. \A d \in Clients : sending'[d].seq_num < idx_ + 1
    <3>1. \A d \in Clients : sending[d].seq_num \in Nat /\ sending[d].seq_num < idx_
      BY <1>2, EntriesAre DEF NumberInv, ClientTypes
    <3> QED BY <1>4, <1>5, <1>6, <3>1
  <2>2. \A w \in Writers : \A i \in 1 .. Len(queue[w]) : queue[w][i].seq_num < idx_ + 1
    <3> SUFFICES ASSUME NEW w \in Writers, NEW i \in 1 .. Len(queue[w]) PROVE queue[w][i].seq_num < idx_ + 1
      OBVIOUS
    <3>1. queue[w][i] \in MemEntry
      BY <1>2, SeqFacts DEF ClientTypes
    <3>2. queue[w][i].seq_num \in Nat /\ queue[w][i].seq_num < idx_
      BY <1>2, <3>1, EntriesAre DEF NumberInv
    <3> QED BY <1>4, <3>2
  <2>3. \A w \in Writers, n \in 1 .. MaxLists + 1, x \in Keys : content[w][n][x].seq_num < idx_ + 1
    <3> SUFFICES ASSUME NEW w \in Writers, NEW n \in 1 .. MaxLists + 1, NEW x \in Keys
                 PROVE  content[w][n][x].seq_num < idx_ + 1
      OBVIOUS
    <3>1. content[w][n][x] \in MemEntry \cup {NoEntry}
      BY DBTypes DEF DBInv, IInv
    <3>2. content[w][n][x].seq_num \in Nat /\ content[w][n][x].seq_num < idx_
      BY <1>2, <3>1, EntriesAre DEF NumberInv
    <3> QED BY <1>4, <3>2
  <2> QED BY <1>1, <2>1, <2>2, <2>3 DEF NumberInv
<1>9. FilledInv'
  BY <1>1, <1>3, SameFilled
<1>10. \A x \in Keys : Flow(x)
  <2>1. \A x \in Keys : Pending(x) => Pending(x)'
    BY <1>1, <1>6 DEF Pending
  <2>2. \A x \in Keys : SameLast(x)
    BY <1>1, <2>1, SameLasts
  <2> QED BY <1>1, <1>5, <1>6, <2>2 DEF Flow, UnderWay
<1>11. StoringInv'
  <2>1. part[c] = "none"
    BY <1>1 DEF DBInv, StoringInv
  <2>2. \A d \in Clients : part[d] # "none" => partition(d)' = partition(d) /\ sending'[d] = sending[d]
    BY <1>6, <2>1 DEF partition
  <2> QED BY <1>1, <2>2 DEF DBInv, StoringInv
<1>12. \A w \in Writers : RingMoves(w)
  BY <1>1, RingStays DEF DBInv
<1> QED BY <1>1, <1>3, <1>4, <1>7, <1>8, <1>9, <1>10, <1>11, <1>12, OthersStep DEF DBInv

(* Copying an entry into its slot changes nothing that anyone asks for but *)
(* the slot.                                                               *)
LEMMA CopyStep ==
  ASSUME DBInv, StoringInv', part' \in [Clients -> {"none", "key", "all"}],
         UNCHANGED <<vars, idx_, sending, queue, popped, listVars, readerVars>>
  PROVE  DBInv'
<1>1. ClientTypes /\ ListTypes /\ ReaderTypes /\ NumberInv /\ IInv /\ QueueInv
  BY TypeParts DEF DBInv
<1>2. IInv' /\ VersionsMove
  BY <1>1, NextIInv, VersionsMoveOn
<1>3. DBTypeOK' /\ QueueInv'
  <2>1. ClientTypes' /\ ListTypes'
    BY <1>1 DEF ClientTypes, ListTypes, listVars
  <2> QED BY <1>1, <1>2, <2>1, SameReaderTypes, TypesOfParts
<1>4. NumberInv'
  BY <1>1 DEF NumberInv, listVars
<1>5. FilledInv'
  BY <1>2, SameFilled DEF listVars
<1>6. idx_' \in Nat /\ idx_ <= idx_'
  <2>1. idx_ \in Nat
    BY DBTypes DEF DBInv, IInv
  <2> QED BY <2>1
<1>7. \A k \in Keys : Flow(k)
  BY SameFlow DEF listVars
<1>8. \A w \in Writers : RingMoves(w)
  BY <1>1, RingStays
<1> QED BY <1>2, <1>3, <1>4, <1>5, <1>6, <1>7, <1>8, OthersStep DEF DBInv

LEMMA pushStoreKeyStep == ASSUME DBInv, NEW c \in Clients, pushStoreKey(c) PROVE DBInv'
<1>1. /\ sending[c] # NoEntry /\ Len(queue[partition(c)]) < kQueueSize
      /\ Copying(partition(c)) = {} /\ part' = [part EXCEPT ![c] = "key"]
      /\ UNCHANGED <<vars, idx_, sending, queue, popped, listVars, readerVars>>
  BY DEF pushStoreKey
<1>2. part \in [Clients -> {"none", "key", "all"}]
  BY DEF DBInv, DBTypeOK
<1>3. \A d \in Clients : d # c => part'[d] = part[d]
  BY <1>1, <1>2
<1>4. \A d \in Clients : part[d] # "none" => partition(d) # partition(c)
  BY <1>1 DEF Copying
<1>5. \A d \in Clients : partition(d)' = partition(d)
  BY <1>1 DEF partition
<1>6. StoringInv'
  BY <1>1, <1>3, <1>4, <1>5 DEF DBInv, StoringInv
<1> QED BY <1>1, <1>2, <1>6, CopyStep

LEMMA pushStoreRestStep == ASSUME DBInv, NEW c \in Clients, pushStoreRest(c) PROVE DBInv'
<1>1. /\ part[c] = "key" /\ part' = [part EXCEPT ![c] = "all"]
      /\ UNCHANGED <<vars, idx_, sending, queue, popped, listVars, readerVars>>
  BY DEF pushStoreRest
<1>2. part \in [Clients -> {"none", "key", "all"}]
  BY DEF DBInv, DBTypeOK
<1>3. \A d \in Clients : part'[d] # "none" => part[d] # "none"
  BY <1>1, <1>2
<1>4. \A d \in Clients : partition(d)' = partition(d)
  BY <1>1 DEF partition
<1>5. StoringInv'
  BY <1>1, <1>3, <1>4 DEF DBInv, StoringInv
<1> QED BY <1>1, <1>2, <1>5, CopyStep

LEMMA pushPublishStep == ASSUME DBInv, NEW c \in Clients, pushPublish(c) PROVE DBInv'
<1> DEFINE e == sending[c]
           w == writerID[e.key]
<1>0. /\ part[c] = "all" /\ part' = [part EXCEPT ![c] = "none"] /\ UNCHANGED popped
      /\ partition(c) = w
  BY DEF pushPublish, partition
<1>1. /\ e # NoEntry /\ Len(queue[w]) < kQueueSize
      /\ queue' = [queue EXCEPT ![w] = Append(queue[w], e)]
      /\ sending' = [sending EXCEPT ![c] = NoEntry]
      /\ UNCHANGED <<vars, idx_, held, content, readerVars>>
  <2>1. e # NoEntry /\ Len(queue[w]) < kQueueSize
    BY <1>0 DEF DBInv, StoringInv
  <2> QED BY <2>1 DEF pushPublish, partition, listVars
<1>2. ClientTypes /\ ListTypes /\ ReaderTypes /\ NumberInv /\ IInv
  BY TypeParts DEF DBInv
<1>3. IInv' /\ VersionsMove
  BY <1>1, <1>2, NextIInv, VersionsMoveOn
<1>4. /\ e \in MemEntry /\ e.key \in Keys /\ w \in Writers /\ queue[w] \in Seq(MemEntry)
      /\ kQueueSize \in Nat /\ idx_ \in Nat
  BY <1>1, <1>2, EntriesAre, YangKVAssumption DEF ClientTypes
<1>5. sending[c] = e /\ sending'[c] = NoEntry /\ \A d \in Clients : d # c => sending'[d] = sending[d]
  BY <1>1, <1>2 DEF ClientTypes
<1>6. writerID[e.key] = w
  OBVIOUS
<1> HIDE DEF e, w
<1>7. /\ queue'[w] = Append(queue[w], e)
      /\ \A x \in Writers : x # w => queue'[x] = queue[x]
  BY <1>1, <1>2, <1>4 DEF ClientTypes
<1>8. /\ Append(queue[w], e) \in Seq(MemEntry) /\ Len(queue[w]) \in Nat
      /\ Len(Append(queue[w], e)) = Len(queue[w]) + 1
      /\ DOMAIN queue[w] = 1 .. Len(queue[w]) /\ DOMAIN Append(queue[w], e) = 1 .. Len(queue[w]) + 1
      /\ \A i \in 1 .. Len(queue[w]) : Append(queue[w], e)[i] = queue[w][i]
      /\ Append(queue[w], e)[Len(queue[w]) + 1] = e
  BY <1>4, AppendFacts
<1>9. \A x \in Writers : \A i \in 1 .. Len(queue'[x]) :
        (i \in 1 .. Len(queue[x]) /\ queue'[x][i] = queue[x][i]) \/ (x = w /\ queue'[x][i] = e)
  BY <1>7, <1>8
<1>10. DBTypeOK' /\ QueueInv'
  <2>1. sending' \in [Clients -> MemEntry \cup {NoEntry}] /\ queue' \in [Writers -> Seq(MemEntry)]
    BY <1>1, <1>2, <1>8 DEF ClientTypes
  <2>2. ASSUME NEW x \in Writers PROVE Len(queue'[x]) <= kQueueSize
    <3>1. CASE x = w
      BY <1>1, <1>4, <1>7, <1>8, <3>1
    <3>2. CASE x # w
      BY <1>2, <1>7, <3>2 DEF ClientTypes
    <3> QED BY <3>1, <3>2
  <2>3. ClientTypes' /\ ListTypes'
    BY <1>0, <1>1, <1>2, <2>1, <2>2 DEF ClientTypes, ListTypes
  <2> QED BY <1>1, <1>2, <1>3, <2>3, SameReaderTypes, TypesOfParts
<1>11. NumberInv'
  <2>1. e.seq_num < idx_
    BY <1>2, <1>5 DEF NumberInv
  <2>2. \A d \in Clients : sending'[d].seq_num < idx_
    <3>1. NoEntry.seq_num < idx_
      BY <1>2, <1>4, EntriesAre DEF ClientTypes
    <3> QED BY <1>2, <1>5, <3>1 DEF NumberInv
  <2>3. \A x \in Writers : \A i \in 1 .. Len(queue'[x]) : queue'[x][i].seq_num < idx_
    BY <1>2, <1>9, <2>1 DEF NumberInv
  <2> QED BY <1>1, <1>2, <2>2, <2>3 DEF NumberInv
<1>12. FilledInv'
  BY <1>1, <1>3, SameFilled
<1>13. ASSUME NEW k \in Keys PROVE Flow(k)
  <2>1. writerID[k] \in Writers
    BY YangKVAssumption
  <2>2. Pending(k) => Pending(k)'
    <3>1. ASSUME NEW d \in Clients, sending[d] # NoEntry, sending[d].key = k PROVE Pending(k)'
      <4>1. CASE d = c
        <5>1. w = writerID[k] /\ Len(queue[w]) + 1 \in DOMAIN queue'[w]
              /\ queue'[w][Len(queue[w]) + 1].key = k
          BY <1>5, <1>6, <1>7, <1>8, <3>1, <4>1
        <5> QED BY <5>1 DEF Pending
      <4>2. CASE d # c
        BY <1>5, <3>1, <4>2 DEF Pending
      <4> QED BY <4>1, <4>2
    <3>2. ASSUME NEW i \in DOMAIN queue[writerID[k]], queue[writerID[k]][i].key = k PROVE Pending(k)'
      <4>1. i \in DOMAIN queue'[writerID[k]] /\ queue'[writerID[k]][i] = queue[writerID[k]][i]
        <5>1. CASE writerID[k] = w
          BY <1>7, <1>8, <3>2, <5>1
        <5>2. CASE writerID[k] # w
          BY <1>7, <2>1, <3>2, <5>2
        <5> QED BY <5>1, <5>2
      <4> QED BY <3>2, <4>1 DEF Pending
    <3> QED BY <3>1, <3>2 DEF Pending
  <2>3. SameLast(k)
    BY <1>1, <2>2, SameLatest, VersionSetAssumption DEF SameLast
  <2>4. \A d \in Clients : sending'[d] # NoEntry /\ sending'[d].key = k => UnderWay(k, sending'[d])
    BY <1>5 DEF UnderWay
  <2>5. \A i \in 1 .. Len(queue'[writerID[k]]) :
          queue'[writerID[k]][i].key = k => UnderWay(k, queue'[writerID[k]][i])
    <3>1. e.key = k => UnderWay(k, e)
      BY <1>1, <1>5 DEF UnderWay
    <3> QED BY <1>9, <2>1, <3>1 DEF UnderWay
  <2> QED BY <2>3, <2>4, <2>5 DEF Flow
<1>14. idx_' \in Nat /\ idx_ <= idx_'
  BY <1>1, <1>4
<1>15. StoringInv'
  <2>1. \A d \in Clients : part'[d] # "none" => d # c /\ part[d] # "none"
    BY <1>0, <1>2 DEF ClientTypes
  <2>2. \A d \in Clients : part'[d] # "none" =>
          sending'[d] = sending[d] /\ partition(d)' = partition(d) /\ partition(d) # w
    BY <1>0, <1>5, <2>1 DEF DBInv, StoringInv, partition
  <2>3. \A d \in Clients : part'[d] # "none" => queue'[partition(d)] = queue[partition(d)]
    <3> SUFFICES ASSUME NEW d \in Clients, part'[d] # "none"
                 PROVE  queue'[partition(d)] = queue[partition(d)]
      OBVIOUS
    <3>1. sending[d] \in MemEntry
      BY <1>2, <2>1 DEF DBInv, StoringInv, ClientTypes
    <3>2. partition(d) \in Writers
      BY <3>1, EntriesAre, YangKVAssumption DEF partition
    <3> QED BY <1>7, <2>2, <3>2
  <2> QED BY <2>1, <2>2, <2>3 DEF DBInv, StoringInv
<1>16. ASSUME NEW x \in Writers PROVE RingMoves(x)
  <2>1. Len(queue[x]) \in Nat /\ Len(popped[x]) \in Nat
    BY <1>2, SeqFacts DEF ClientTypes
  <2>2. Len(queue'[x]) \in {Len(queue[x]), Len(queue[x]) + 1}
    BY <1>7, <1>8
  <2> QED BY <1>0, <2>1, <2>2 DEF RingMoves
<1> QED BY <1>1, <1>3, <1>10, <1>11, <1>12, <1>13, <1>14, <1>15, <1>16, OthersStep DEF DBInv

LEMMA TailFacts ==
  ASSUME NEW S, NEW s \in Seq(S), s # <<>>
  PROVE  /\ Len(s) \in Nat \ {0} /\ Head(s) = s[1] /\ s[1] \in S
         /\ Tail(s) \in Seq(S) /\ Len(Tail(s)) = Len(s) - 1 /\ DOMAIN Tail(s) = 1 .. Len(s) - 1
         /\ \A i \in 1 .. Len(s) - 1 : Tail(s)[i] = s[i + 1]
  BY SMT

(* What a Writer inserts is the last entry of its key from then on.        *)
LEMMA InsertedIsLatest ==
  ASSUME NEW k \in Keys, NEW f \in 1 .. MaxLists + 1, NEW e, e # NoEntry, MaxLists \in Nat,
         content'[writerID[k]][f][k] = e,
         \A n \in 1 .. MaxLists + 1 : n > f => content'[writerID[k]][n][k] = NoEntry
  PROVE  LatestRank(k)' = f /\ Latest(k)' = e
<1> DEFINE g == {n \in 1 .. MaxLists + 1 : content'[writerID[k]][n][k] # NoEntry}
<1>1. LatestRank(k)' = Highest(g)
  BY DEF LatestRank, Highest
<1>2. f \in g /\ \A n \in g : n \in 1 .. MaxLists + 1 /\ ~(n > f)
  OBVIOUS
<1>3. MaxLists + 1 \in Nat /\ g \in SUBSET (1 .. MaxLists + 1)
  OBVIOUS
<1> HIDE DEF g
<1>4. Highest(g) \in g /\ f <= Highest(g)
  BY <1>2, <1>3, HighestIs
<1>5. Highest(g) = f
  <2> DEFINE h == Highest(g)
  <2>1. h \in 1 .. MaxLists + 1 /\ ~(h > f) /\ f <= h
    BY <1>2, <1>4
  <2> HIDE DEF h
  <2>2. h = f
    BY <2>1
  <2> QED BY <2>2 DEF h
<1>6. LatestRank(k)' = f /\ f # 0
  BY <1>1, <1>5
<1> QED BY <1>6 DEF Latest

LEMMA insertMessageStep == ASSUME DBInv, NEW w \in Writers, insertMessage(w) PROVE DBInv'
<1> DEFINE e == Head(queue[w])
           f == filled[w]
           list == [content[w][f] EXCEPT ![e.key] = e]
<1>1. /\ f <= MaxLists /\ queue[w] # <<>>
      /\ content' = [content EXCEPT ![w] = [content[w] EXCEPT ![f] = list]]
      /\ queue' = [queue EXCEPT ![w] = Tail(queue[w])]
      /\ popped' = [popped EXCEPT ![w] = Append(popped[w], e)]
      /\ UNCHANGED <<idx_, sending, part, held, readerVars>>
  BY DEF insertMessage, list_
<1>2. [Next]_vars /\ UNCHANGED filled
  BY DEF insertMessage, Next, listFull, vars, writerVars
<1>3. ClientTypes /\ ListTypes /\ ReaderTypes /\ NumberInv /\ FilledInv /\ IInv
  BY TypeParts DEF DBInv
<1>4. IInv' /\ VersionsMove
  BY <1>2, <1>3, NextIInv, VersionsMoveOn
<1>5. queue[w] \in Seq(MemEntry) /\ idx_ \in Nat /\ kQueueSize \in Nat /\ MaxLists \in Nat
  BY <1>3, YangKVAssumption, VersionSetAssumption DEF ClientTypes
<1>6. /\ e = queue[w][1] /\ e \in MemEntry /\ Len(queue[w]) \in Nat \ {0}
      /\ Tail(queue[w]) \in Seq(MemEntry) /\ Len(Tail(queue[w])) = Len(queue[w]) - 1
      /\ DOMAIN Tail(queue[w]) = 1 .. Len(queue[w]) - 1 /\ DOMAIN queue[w] = 1 .. Len(queue[w])
      /\ \A i \in 1 .. Len(queue[w]) - 1 : Tail(queue[w])[i] = queue[w][i + 1]
  BY <1>1, <1>5, TailFacts, SeqFacts
<1>7. f \in 1 .. MaxLists + 1 /\ e.key \in Keys /\ e # NoEntry /\ e.seq_num \in Nat
  BY <1>3, <1>6, EntriesAre DEF IInv, TypeOK
<1>8. /\ content[w] \in [1 .. MaxLists + 1 -> [Keys -> MemEntry \cup {NoEntry}]]
      /\ content[w][f] \in [Keys -> MemEntry \cup {NoEntry}]
  <2>1. content[w] \in [1 .. MaxLists + 1 -> [Keys -> MemEntry \cup {NoEntry}]]
    BY <1>3 DEF ListTypes
  <2> QED BY <1>7, <2>1
<1>9. filled[w] = f
  OBVIOUS
<1> HIDE DEF e, f
<1>10. /\ list \in [Keys -> MemEntry \cup {NoEntry}] /\ list[e.key] = e
       /\ \A k \in Keys : k # e.key => list[k] = content[w][f][k]
  BY <1>6, <1>7, <1>8
<1> HIDE DEF list
<1>11. /\ content' \in [Writers -> [1 .. MaxLists + 1 -> [Keys -> MemEntry \cup {NoEntry}]]]
       /\ content'[w][f] = list
       /\ \A n \in 1 .. MaxLists + 1 : n # f => content'[w][n] = content[w][n]
       /\ \A x \in Writers : x # w => content'[x] = content[x]
  <2> DEFINE l == [content[w] EXCEPT ![f] = list]
  <2>1. /\ l \in [1 .. MaxLists + 1 -> [Keys -> MemEntry \cup {NoEntry}]] /\ l[f] = list
        /\ \A n \in 1 .. MaxLists + 1 : n # f => l[n] = content[w][n]
    BY <1>7, <1>8, <1>10
  <2>2. content' = [content EXCEPT ![w] = l]
    BY <1>1
  <2> HIDE DEF l
  <2> QED BY <1>3, <2>1, <2>2 DEF ListTypes
<1>12. ASSUME NEW x \in Writers, NEW n \in 1 .. MaxLists + 1, NEW k \in Keys
       PROVE  content'[x][n][k] = IF x = w /\ n = f /\ k = e.key THEN e ELSE content[x][n][k]
  BY <1>10, <1>11
<1>13. /\ queue'[w] = Tail(queue[w])
       /\ \A x \in Writers : x # w => queue'[x] = queue[x]
  BY <1>1, <1>3 DEF ClientTypes
<1>14. \A x \in Writers : \A i \in 1 .. Len(queue'[x]) :
         \E j \in 1 .. Len(queue[x]) : queue'[x][i] = queue[x][j]
  <2> SUFFICES ASSUME NEW x \in Writers, NEW i \in 1 .. Len(queue'[x])
               PROVE  \E j \in 1 .. Len(queue[x]) : queue'[x][i] = queue[x][j]
    OBVIOUS
  <2>1. CASE x = w
    <3>1. i \in 1 .. Len(queue[w]) - 1
      BY <1>6, <1>13, <2>1
    <3>2. i + 1 \in 1 .. Len(queue[w])
      BY <1>6, <3>1
    <3>3. Tail(queue[w])[i] = queue[w][i + 1]
      BY <1>6, <3>1
    <3> QED BY <1>13, <2>1, <3>2, <3>3
  <2>2. CASE x # w
    BY <1>13, <2>2
  <2> QED BY <2>1, <2>2
<1>pop. /\ popped' \in [Writers -> Seq(MemEntry)]
        /\ Len(popped[w]) \in Nat /\ Len(popped'[w]) = Len(popped[w]) + 1
        /\ \A p \in 1 .. Len(popped[w]) : popped'[w][p] = popped[w][p]
        /\ popped'[w][Len(popped[w]) + 1] = e
        /\ \A x \in Writers : x # w => popped'[x] = popped[x]
  <2> DEFINE l == Append(popped[w], e)
  <2>1. popped \in [Writers -> Seq(MemEntry)] /\ popped[w] \in Seq(MemEntry)
    BY <1>3 DEF ClientTypes
  <2>2. /\ l \in Seq(MemEntry) /\ Len(popped[w]) \in Nat /\ Len(l) = Len(popped[w]) + 1
        /\ \A p \in 1 .. Len(popped[w]) : l[p] = popped[w][p]
        /\ l[Len(popped[w]) + 1] = e
    BY <1>6, <2>1, AppendFacts
  <2>3. popped' = [popped EXCEPT ![w] = l]
    BY <1>1
  <2> HIDE DEF l
  <2> QED BY <2>1, <2>2, <2>3
<1>15. DBTypeOK' /\ QueueInv'
  <2>1. queue' \in [Writers -> Seq(MemEntry)]
    BY <1>1, <1>3, <1>6 DEF ClientTypes
  <2>2. ASSUME NEW x \in Writers PROVE Len(queue'[x]) <= kQueueSize
    <3>1. Len(queue[x]) <= kQueueSize
      BY <1>3 DEF ClientTypes
    <3>2. CASE x = w
      <4>1. Len(Tail(queue[w])) <= kQueueSize
        BY <1>5, <1>6, <3>1, <3>2
      <4> QED BY <1>13, <3>2, <4>1
    <3>3. CASE x # w
      BY <1>13, <3>1, <3>3
    <3> QED BY <3>2, <3>3
  <2>3. popped' \in [Writers -> Seq(MemEntry)]
    BY <1>pop
  <2>4. ClientTypes' /\ ListTypes'
    BY <1>1, <1>3, <1>11, <2>1, <2>2, <2>3 DEF ClientTypes, ListTypes
  <2> QED BY <1>1, <1>3, <1>4, <2>4, SameReaderTypes, TypesOfParts
<1>16. NumberInv'
  <2>1. \A x \in Writers : \A i \in 1 .. Len(queue'[x]) : queue'[x][i].seq_num < idx_
    BY <1>3, <1>14 DEF NumberInv
  <2>2. \A x \in Writers, n \in 1 .. MaxLists + 1, k \in Keys : content'[x][n][k].seq_num < idx_
    <3>1. e.seq_num < idx_
      BY <1>3, <1>6 DEF NumberInv
    <3> QED BY <1>3, <1>12, <3>1 DEF NumberInv
  <2> QED BY <1>1, <1>3, <2>1, <2>2 DEF NumberInv
<1>17. FilledInv'
  <2> SUFFICES ASSUME NEW x \in Writers, NEW n \in 1 .. MaxLists + 1, NEW k \in Keys, n > filled[x]
               PROVE  content'[x][n][k] = NoEntry
    BY <1>2 DEF FilledInv
  <2>1. ~(x = w /\ n = f)
    BY <1>7, <1>9
  <2> QED BY <1>3, <1>12, <2>1 DEF FilledInv
<1>18. ASSUME NEW k \in Keys PROVE Flow(k)
  <2>1. writerID[k] \in Writers
    BY YangKVAssumption
  <2>2. \A d \in Clients : sending'[d] # NoEntry /\ sending'[d].key = k => UnderWay(k, sending'[d])
    BY <1>1 DEF UnderWay
  <2>3. \A i \in 1 .. Len(queue'[writerID[k]]) :
          queue'[writerID[k]][i].key = k => UnderWay(k, queue'[writerID[k]][i])
    <3> SUFFICES ASSUME NEW i \in 1 .. Len(queue'[writerID[k]]), queue'[writerID[k]][i].key = k
                 PROVE  UnderWay(k, queue'[writerID[k]][i])
      OBVIOUS
    <3>1. PICK j \in 1 .. Len(queue[writerID[k]]) : queue'[writerID[k]][i] = queue[writerID[k]][j]
      BY <1>14, <2>1
    <3> QED BY <3>1 DEF UnderWay
  <2>4. CASE writerID[k] = w /\ k = e.key
    <3>1. UnderWay(k, e)
      <4>1. 1 \in 1 .. Len(queue[w]) /\ queue[w][1] = e
        BY <1>6
      <4> QED BY <2>4, <4>1 DEF UnderWay
    <3>2. content'[w][f][k] = e
      BY <1>7, <1>12, <2>4
    <3>3. \A n \in 1 .. MaxLists + 1 : n > f => content'[w][n][k] = NoEntry
      <4> SUFFICES ASSUME NEW n \in 1 .. MaxLists + 1, n > f PROVE content'[w][n][k] = NoEntry
        OBVIOUS
      <4>1. n # f
        BY <1>7
      <4> QED BY <1>3, <1>9, <1>12, <4>1 DEF FilledInv
    <3>4. Latest(k)' = e
      BY <1>5, <1>7, <2>4, <3>2, <3>3, InsertedIsLatest
    <3> QED BY <2>2, <2>3, <3>1, <3>4 DEF Flow
  <2>5. CASE ~(writerID[k] = w /\ k = e.key)
    <3>1. \A n \in 1 .. MaxLists + 1 : content'[writerID[k]][n][k] = content[writerID[k]][n][k]
      BY <1>12, <2>1, <2>5
    <3>2. Pending(k) => Pending(k)'
      <4>1. ASSUME NEW i \in DOMAIN queue[writerID[k]], queue[writerID[k]][i].key = k PROVE Pending(k)'
        <5>1. CASE writerID[k] = w
          <6>1. i # 1
            BY <1>6, <2>5, <4>1, <5>1
          <6>2. i - 1 \in 1 .. Len(queue[w]) - 1
            BY <1>6, <4>1, <5>1, <6>1
          <6>3. i - 1 \in DOMAIN queue'[w] /\ queue'[w][i - 1] = queue[w][i]
            <7>1. (i - 1) + 1 = i
              BY <1>6, <4>1, <5>1
            <7> QED BY <1>6, <1>13, <6>2, <7>1
          <6> QED BY <4>1, <5>1, <6>3 DEF Pending
        <5>2. CASE writerID[k] # w
          <6>1. queue'[writerID[k]] = queue[writerID[k]]
            BY <1>13, <2>1, <5>2
          <6> QED BY <4>1, <6>1 DEF Pending
        <5> QED BY <5>1, <5>2
      <4>2. ASSUME NEW d \in Clients, sending[d] # NoEntry, sending[d].key = k PROVE Pending(k)'
        BY <1>1, <4>2 DEF Pending
      <4> QED BY <4>1, <4>2 DEF Pending
    <3>3. SameLast(k)
      BY <1>5, <3>1, <3>2, SameLatest DEF SameLast
    <3> QED BY <2>2, <2>3, <3>3 DEF Flow
  <2> QED BY <2>4, <2>5
<1>19. idx_' \in Nat /\ idx_ <= idx_'
  BY <1>1, <1>5
<1>21. StoringInv'
  <2>1. \A d \in Clients : partition(d)' = partition(d)
    BY <1>1 DEF partition
  <2>2. ASSUME NEW d \in Clients, part[d] # "none"
        PROVE  sending[d] # NoEntry /\ Len(queue'[partition(d)]) < kQueueSize
    <3>1. sending[d] # NoEntry /\ Len(queue[partition(d)]) < kQueueSize
      BY <2>2 DEF DBInv, StoringInv
    <3>2. sending[d] \in MemEntry
      BY <1>3, <3>1 DEF ClientTypes
    <3>3. partition(d) \in Writers
      BY <3>2, EntriesAre, YangKVAssumption DEF partition
    <3>4. CASE partition(d) = w
      <4>1. Len(queue'[w]) < Len(queue[w]) /\ Len(queue'[w]) \in Nat
        BY <1>6, <1>13
      <4> QED BY <1>5, <1>6, <3>1, <3>4, <4>1
    <3>5. CASE partition(d) # w
      BY <1>13, <3>1, <3>3, <3>5
    <3> QED BY <3>1, <3>4, <3>5
  <2> QED BY <1>1, <2>1, <2>2 DEF DBInv, StoringInv
<1>22. ASSUME NEW x \in Writers PROVE RingMoves(x)
  <2>1. CASE x = w
    <3>1. Len(popped[w]) + Len(queue[w]) <= Len(popped'[w]) + Len(queue'[w])
      <4>1. Len(popped'[w]) = Len(popped[w]) + 1 /\ Len(queue'[w]) = Len(queue[w]) - 1
        BY <1>6, <1>13, <1>pop
      <4> QED BY <1>6, <1>pop, <4>1, Sums
    <3>2. ASSUME NEW p \in 1 .. Len(popped'[w])
          PROVE  \/ p \in 1 .. Len(popped[w]) /\ popped'[w][p] = popped[w][p]
                 \/ \E i \in 1 .. Len(queue[w]) : popped'[w][p] = queue[w][i]
      <4>1. p \in 1 .. Len(popped[w]) \/ p = Len(popped[w]) + 1
        BY <1>pop
      <4>2. 1 \in 1 .. Len(queue[w]) /\ queue[w][1] = e
        BY <1>6
      <4> QED BY <1>pop, <4>1, <4>2
    <3> QED BY <2>1, <3>1, <3>2 DEF RingMoves
  <2>2. CASE x # w
    <3>1. Len(queue[x]) \in Nat /\ Len(popped[x]) \in Nat
      BY <1>3, SeqFacts DEF ClientTypes
    <3>2. popped'[x] = popped[x] /\ queue'[x] = queue[x]
      BY <1>13, <1>pop, <2>2
    <3>3. \A n \in Nat : n <= n
      OBVIOUS
    <3>4. Len(popped[x]) + Len(queue[x]) \in Nat
      BY <3>1, Sums
    <3> QED BY <3>2, <3>3, <3>4 DEF RingMoves
  <2> QED BY <2>1, <2>2
<1> QED BY <1>1, <1>4, <1>15, <1>16, <1>17, <1>18, <1>19, <1>21, <1>22, OthersStep DEF DBInv

LEMMA VersionSteps ==
  ASSUME DBInv,
         \/ \E w \in Writers : wrlock(w) \/ unlock(w) \/ freeze(w)
         \/ compactOrStop
         \/ UNCHANGED dbVars
  PROVE  DBInv'
<1>1. [Next]_vars
  BY DBStepIsStep DEF DBNext
<1>2. IInv' /\ VersionsMove
  BY <1>1, NextIInv, VersionsMoveOn DEF DBInv
<1>3. held \subseteq Writers
  BY DEF DBInv, DBTypeOK
<1>4. held' \subseteq Writers /\ UNCHANGED <<clientVars, content, readerVars>>
  BY <1>3 DEF wrlock, unlock, freeze, compactOrStop, listVars, dbVars
<1> QED BY <1>2, <1>4, NoEntryMoves

-----------------------------------------------------------------------------
(* Steps of one reader.                                                    *)

LEMMA Still ==
  ASSUME UNCHANGED <<vars, clientVars, listVars>>, NEW k \in Keys, NEW v, NEW w, NEW n
  PROVE  /\ LatestRank(k)' = LatestRank(k) /\ Latest(k)' = Latest(k)
         /\ Pending(k)' <=> Pending(k)
         /\ freed(v)' <=> freed(v)
         /\ InVersion(v, w, n)' <=> InVersion(v, w, n)
         /\ InMemory(w, n)' <=> InMemory(w, n)
<1>1. UNCHANGED <<versions, current_, filled, sending, queue, content>>
  BY DEF vars, setVars, writerVars, clientVars, listVars
<1>2. LatestRank(k)' = LatestRank(k) /\ Latest(k)' = Latest(k)
  BY <1>1, SameLatest, VersionSetAssumption
<1>3. Pending(k)' <=> Pending(k)
  BY <1>1 DEF Pending
<1>4. freed(v)' <=> freed(v)
  BY <1>1 DEF freed
<1>5. InVersion(v, w, n)' <=> InVersion(v, w, n)
  BY <1>1 DEF InVersion
<1>6. InMemory(w, n)' <=> InMemory(w, n)
  BY <1>1 DEF InMemory, freed
<1> QED BY <1>2, <1>3, <1>4, <1>5, <1>6

LEMMA ReaderStep ==
  ASSUME DBInv, NEW r \in Readers, UNCHANGED <<vars, clientVars, listVars>>, ReaderTypes',
         \A d \in Readers : d # r => SameReader(d),
         \A k \in Keys : rkey'[r] = k => Overlap(r, k)' /\ SearchAt(r, k)',
         ReaderAt(r)',
         \A k \in Keys, v, n \in Nat :
           rkey'[r] = k /\ curr_'[r] = v /\ LatestRank(k) = n => Where(r, k, v, n)'
  PROVE  DBInv'
<1>1. ClientTypes /\ ListTypes /\ NumberInv /\ FilledInv /\ IInv /\ DBTypeOK /\ TypeOK
  BY TypeParts DEF DBInv, IInv
<1>2. IInv' /\ VersionsMove
  BY <1>1, NextIInv, VersionsMoveOn
<1>3. UNCHANGED <<idx_, sending, part, queue, popped, held, content, filled, current_>>
  BY DEF vars, setVars, writerVars, clientVars, listVars
<1>4. DBTypeOK' /\ QueueInv'
  <2>1. ClientTypes' /\ ListTypes'
    BY <1>1, <1>3 DEF ClientTypes, ListTypes
  <2> QED BY <2>1, TypesOfParts
<1>5. NumberInv' /\ FilledInv'
  BY <1>1, <1>3 DEF NumberInv, FilledInv
<1>6. idx_' \in Nat /\ idx_ <= idx_'
  <2>1. idx_ \in Nat
    BY <1>1, DBTypes
  <2> QED BY <1>3, <2>1
<1>7. \A k \in Keys : Flow(k)
  BY <1>3, SameFlow
<1>8. OverlapInv'
  <2> SUFFICES ASSUME NEW d \in Readers, NEW k \in Keys, rkey'[d] = k, d # r PROVE Overlap(d, k)'
    BY DEF OverlapInv
  <2>1. SameReader(d) /\ rkey[d] = k
    BY DEF SameReader
  <2> QED BY <1>6, <1>7, <2>1, OverlapKept
<1>9. ReaderInv'
  <2> SUFFICES ASSUME NEW d \in Readers, d # r PROVE ReaderAt(d)'
    BY DEF ReaderInv
  <2>1. SameReader(d) /\ ReaderAt(d)
    BY DEF DBInv, ReaderInv
  <2> QED BY <1>3, <2>1 DEF SameReader, ReaderAt
<1>10. WhereInv'
  <2> SUFFICES ASSUME NEW d \in Readers, NEW k \in Keys, NEW v \in Nat, NEW n \in Nat,
                      rkey'[d] = k, curr_'[d] = v, LatestRank(k)' = n
               PROVE  Where(d, k, v, n)'
    BY DEF WhereInv
  <2>1. CASE d = r
    <3>1. LatestRank(k) = n
      BY Still
    <3> QED BY <2>1, <3>1
  <2>2. CASE d # r
    <3>1. SameReader(d) /\ rkey[d] = k /\ curr_[d] = v
      BY <2>2 DEF SameReader
    <3>2. rpc[d] # "idle" /\ Quiet(d, k)' => Quiet(d, k) /\ SameLast(k)
      BY <1>6, <1>7, <3>1, OverlapKept
    <3>3. TypeOK'
      BY <1>2 DEF IInv
    <3> QED BY <1>2, <3>1, <3>2, <3>3, WhereKept
  <2> QED BY <2>1, <2>2
<1>11. SearchInv'
  <2> SUFFICES ASSUME NEW d \in Readers, NEW k \in Keys, rkey'[d] = k, d # r PROVE SearchAt(d, k)'
    BY DEF SearchInv
  <2>1. SameReader(d) /\ rkey[d] = k /\ writerID[k] \in Writers
    BY YangKVAssumption DEF SameReader
  <2>2. RingMoves(writerID[k])
    BY <1>3, <2>1, RingStays DEF DBInv
  <2>3. rpc[d] # "idle" /\ Quiet(d, k)' => Quiet(d, k) /\ SameLast(k)
    BY <1>6, <1>7, <2>1, OverlapKept
  <2> QED BY <1>4, <2>1, <2>2, <2>3, SearchKept
<1>12. StoringInv'
  BY <1>3, StoringStays
<1> QED BY <1>2, <1>4, <1>5, <1>8, <1>9, <1>10, <1>11, <1>12 DEF DBInv

(* A get goes on: what it asked for stays, and what it has found is right. *)
LEMMA GetGoesOn ==
  ASSUME DBInv, NEW r \in Readers, rpc[r] # "idle",
         UNCHANGED <<vars, clientVars, listVars, rkey, seq, before>>, ReaderTypes',
         \A d \in Readers : d # r => /\ rpc'[d] = rpc[d] /\ curr_'[d] = curr_[d]
                                     /\ lists'[d] = lists[d] /\ answer'[d] = answer[d]
                                     /\ SameSearch(d),
         ReaderAt(r)',
         \A k \in Keys : rkey[r] = k => SearchAt(r, k)',
         \A k \in Keys, v, n \in Nat :
           rkey[r] = k /\ curr_'[r] = v /\ LatestRank(k) = n /\ Quiet(r, k) =>
             /\ rpc'[r] \in {"version", "get", "scan"} => n < filled[writerID[k]]
             /\ rpc'[r] = "scan" /\ ~freed(v) /\ InVersion(v, writerID[k], n) => ToLookAt(r, n)'
             /\ rpc'[r] = "done" /\ ~Pending(k) /\ (v # 0 => ~freed(v))
                  /\ InMemory(writerID[k], n) => answer'[r] = Latest(k)
  PROVE  DBInv'
<1>1. UNCHANGED <<idx_, sending, queue, filled>>
  BY DEF vars, writerVars, clientVars
<1>2. \A d \in Readers : d # r => SameReader(d)
  BY DEF SameReader
<1>3. ASSUME NEW k \in Keys, rkey'[r] = k PROVE Overlap(r, k)' /\ SearchAt(r, k)'
  <2>0. SearchAt(r, k)'
    BY <1>3
  <2> SUFFICES Overlap(r, k)'
    BY <2>0
  <2>1. Overlap(r, k)
    BY <1>3 DEF DBInv, OverlapInv
  <2>2. Latest(k)' = Latest(k)
    BY Still
  <2> QED BY <1>1, <2>1, <2>2 DEF Overlap, Newer
<1>4. ASSUME NEW k \in Keys, NEW v \in Nat, NEW n \in Nat,
             rkey'[r] = k, curr_'[r] = v, LatestRank(k) = n
      PROVE  Where(r, k, v, n)'
  <2>1. /\ Latest(k)' = Latest(k) /\ (Pending(k)' <=> Pending(k)) /\ (freed(v)' <=> freed(v))
        /\ InVersion(v, writerID[k], n)' <=> InVersion(v, writerID[k], n)
        /\ InMemory(writerID[k], n)' <=> InMemory(writerID[k], n)
    BY Still
  <2>2. Quiet(r, k)' <=> Quiet(r, k)
    BY <2>1 DEF Quiet
  <2>3. rkey[r] = k
    BY <1>4
  <2> QED BY <1>1, <1>4, <2>1, <2>2, <2>3 DEF Where
<1> QED BY <1>2, <1>3, <1>4, ReaderStep

(* After the ring.                                                         *)
LEMMA GoesOn ==
  ASSUME DBInv, NEW r \in Readers, rpc[r] # "idle",
         UNCHANGED <<vars, clientVars, listVars, rkey, seq, searchVars, before>>, ReaderTypes',
         \A d \in Readers : d # r => /\ rpc'[d] = rpc[d] /\ curr_'[d] = curr_[d]
                                     /\ lists'[d] = lists[d] /\ answer'[d] = answer[d],
         ReaderAt(r)', rpc'[r] \in {"version", "get", "scan", "done"},
         \A k \in Keys, v, n \in Nat :
           rkey[r] = k /\ curr_'[r] = v /\ LatestRank(k) = n /\ Quiet(r, k) =>
             /\ rpc'[r] \in {"version", "get", "scan"} => n < filled[writerID[k]]
             /\ rpc'[r] = "scan" /\ ~freed(v) /\ InVersion(v, writerID[k], n) => ToLookAt(r, n)'
             /\ rpc'[r] = "done" /\ ~Pending(k) /\ (v # 0 => ~freed(v))
                  /\ InMemory(writerID[k], n) => answer'[r] = Latest(k)
  PROVE  DBInv'
<1>1. \A d \in Readers : SameSearch(d)
  BY DEF searchVars, SameSearch
<1>2. \A k \in Keys : SearchAt(r, k)'
  BY DEF SearchAt
<1> QED BY <1>1, <1>2, GetGoesOn

(* In the ring: search answers only with the key of a set that overlaps.   *)
LEMMA SearchGoesOn ==
  ASSUME DBInv, NEW r \in Readers, rpc[r] # "idle",
         UNCHANGED <<vars, clientVars, listVars, rkey, seq, curr_, lists, before>>,
         \A d \in Readers : d # r => rpc'[d] = rpc[d] /\ answer'[d] = answer[d] /\ SameSearch(d),
         rpc' \in [Readers -> {"idle", "begin", "end", "loop", "slot", "list", "version",
                                "get", "scan", "done"}],
         begin' \in [Readers -> Nat], end' \in [Readers -> Nat \ {0}], pos' \in [Readers -> Nat],
         slotKey' \in [Readers -> Keys \cup {NoKey}], answer' \in [Readers -> MemEntry \cup {NoEntry}],
         rpc'[r] \in {"begin", "end", "loop", "slot", "list", "done"},
         rpc'[r] = "done" => Touched(r, rkey[r]),
         SearchAt(r, rkey[r])'
  PROVE  DBInv'
<1>1. ReaderTypes'
  <2>1. ReaderTypes
    BY TypeParts DEF DBInv
  <2> QED BY <2>1 DEF ReaderTypes, vars, setVars
<1>2. ReaderAt(r)'
  BY DEF ReaderAt
<1>3. \A k \in Keys : rkey[r] = k => SearchAt(r, k)'
  OBVIOUS
<1>4. \A k \in Keys : rkey[r] = k /\ rpc'[r] = "done" => Touched(r, k)
  OBVIOUS
<1>5. \A k \in Keys : Touched(r, k) => ~Quiet(r, k) \/ Pending(k)
  BY DEF Touched, Quiet
<1> QED BY <1>1, <1>2, <1>3, <1>4, <1>5, GetGoesOn

LEMMA getValueStep == ASSUME DBInv, NEW r \in Readers, NEW k \in Keys, getValue(r, k) PROVE DBInv'
<1> DEFINE b == [latest |-> Latest(k), pending |-> Pending(k)]
<1>1. /\ UNCHANGED <<vars, clientVars, listVars>>
      /\ rkey' = [rkey EXCEPT ![r] = k] /\ seq' = [seq EXCEPT ![r] = idx_]
      /\ before' = [before EXCEPT ![r] = b] /\ answer' = [answer EXCEPT ![r] = NoEntry]
      /\ rpc' = [rpc EXCEPT ![r] = "begin"] /\ UNCHANGED <<searchVars, curr_, lists>>
  BY DEF getValue
<1>2. ClientTypes /\ ReaderTypes /\ NumberInv /\ DBTypeOK /\ TypeOK
  BY TypeParts DEF DBInv, IInv
<1>3. Latest(k) \in MemEntry \cup {NoEntry} /\ Pending(k) \in BOOLEAN
  BY <1>2, LatestIs DEF Pending
<1>4. b \in [latest : MemEntry \cup {NoEntry}, pending : BOOLEAN] /\ b.latest = Latest(k)
      /\ (b.pending <=> Pending(k))
  <2>1. \A p \in BOOLEAN : [latest |-> Latest(k), pending |-> p]
                             \in [latest : MemEntry \cup {NoEntry}, pending : BOOLEAN]
    BY <1>3
  <2>2. b \in [latest : MemEntry \cup {NoEntry}, pending : BOOLEAN]
    BY <1>3, <2>1, Zenon
  <2>3. b.latest = Latest(k)
    OBVIOUS
  <2>4. b.pending = Pending(k)
    BY Zenon
  <2> QED BY <2>2, <2>3, <2>4
<1> HIDE DEF b
<1>5. /\ rpc'[r] = "begin" /\ rkey'[r] = k /\ seq'[r] = idx_ /\ before'[r] = b
      /\ \A d \in Readers : d # r => SameReader(d)
  BY <1>1, <1>2 DEF ReaderTypes, SameReader, SameSearch, searchVars
<1>6. UNCHANGED <<idx_, sending, queue, versions>>
  BY <1>1 DEF vars, setVars, clientVars
<1>7. ReaderTypes'
  <2>1. idx_ \in 0 .. MaxSets + 1
    BY <1>2, YangKVAssumption DEF ClientTypes
  <2> QED BY <1>1, <1>2, <1>4, <1>6, <2>1 DEF ReaderTypes, searchVars
<1>8. Latest(k).seq_num < idx_
  <2>1. CASE LatestRank(k) = 0
    <3>1. NoEntry.seq_num = 0 /\ idx_ \in 1 .. MaxSets + 1 /\ MaxSets \in Nat
      BY <1>2, EntriesAre, YangKVAssumption DEF ClientTypes
    <3> QED BY <1>2, <2>1, <3>1, LatestIs
  <2>2. CASE LatestRank(k) # 0
    <3>1. LatestRank(k) \in 1 .. MaxLists + 1
      <4>1. MaxLists \in Nat
        BY VersionSetAssumption
      <4> QED BY <1>2, <2>2, <4>1, LatestIs
    <3>2. writerID[k] \in Writers
      BY YangKVAssumption
    <3>3. content[writerID[k]][LatestRank(k)][k].seq_num < idx_
      BY <1>2, <3>1, <3>2 DEF NumberInv
    <3> QED BY <1>2, <2>2, <3>3, LatestIs
  <2> QED BY <2>1, <2>2
<1>9. Overlap(r, k)'
  <2>1. Latest(k)' = Latest(k)
    BY <1>1, Still
  <2>2. idx_ <= idx_
    BY <1>2, DBTypes
  <2> SUFFICES ASSUME ~Pending(k) PROVE Overlap(r, k)'
    BY <1>4, <1>5 DEF Overlap
  <2>3. \A c \in Clients : ~(sending[c] # NoEntry /\ sending[c].key = k)
    BY DEF Pending
  <2>4. \A i \in 1 .. Len(queue[writerID[k]]) : ~(queue[writerID[k]][i].key = k)
    <3>1. DOMAIN queue[writerID[k]] = 1 .. Len(queue[writerID[k]])
      BY <1>2, SeqFacts, YangKVAssumption DEF ClientTypes
    <3> QED BY <3>1 DEF Pending
  <2> QED BY <1>4, <1>5, <1>6, <1>8, <2>1, <2>2, <2>3, <2>4 DEF Overlap, Newer
<1>10. ReaderAt(r)'
  BY <1>5 DEF ReaderAt
<1>11. \A v, n \in Nat : Where(r, k, v, n)'
  BY <1>5 DEF Where
<1>12. SearchAt(r, k)'
  BY <1>5 DEF SearchAt
<1> QED BY <1>1, <1>5, <1>7, <1>9, <1>10, <1>11, <1>12, ReaderStep

LEMMA LastSelected ==
  ASSUME NEW m \in Nat, NEW T \in SUBSET (1 .. m)
  PROVE  T # {} => Max(T) \in T
<1>1. T \in SUBSET (0 .. m)
  OBVIOUS
<1>2. T # {} => \E i \in T : \A j \in T : i >= j
  <2>1. T # {} => \E i \in T : \A j \in T : j <= i
    BY <1>1, GreatestNumber
  <2>2. T \subseteq Nat
    BY <1>1
  <2> QED BY <2>1, <2>2
<1> QED BY <1>2 DEF Max

LEMMA TouchedStill ==
  ASSUME NEW r \in Readers, NEW k \in Keys, UNCHANGED <<vars, clientVars, listVars, before>>
  PROVE  Touched(r, k)' <=> Touched(r, k)
<1>1. Latest(k)' = Latest(k) /\ (Pending(k)' <=> Pending(k))
  BY Still
<1> QED BY <1>1 DEF Touched

LEMMA searchReturnsTypes ==
  ASSUME DBInv, NEW r \in Readers, searchReturns(r)
  PROVE  /\ begin' \in [Readers -> Nat] /\ end' \in [Readers -> Nat \ {0}] /\ pos' \in [Readers -> Nat]
         /\ slotKey' \in [Readers -> Keys \cup {NoKey}]
         /\ \A d \in Readers : d # r => SameSearch(d)
<1>1. ReaderTypes
  BY TypeParts DEF DBInv
<1> QED BY <1>1 DEF searchReturns, ReaderTypes, SameSearch

LEMMA readBeginStep == ASSUME DBInv, NEW r \in Readers, readBegin(r) PROVE DBInv'
<1> DEFINE w == writerID[rkey[r]]
           b == Len(popped[w]) + Len(queue[w])
<1>1. /\ rpc[r] = "begin" /\ UNCHANGED <<vars, clientVars, listVars, rkey, seq, curr_, lists, before>>
      /\ begin' = [begin EXCEPT ![r] = b] /\ rpc' = [rpc EXCEPT ![r] = "end"]
      /\ UNCHANGED <<end, pos, slotKey, answer>>
  BY DEF readBegin
<1>2. ClientTypes /\ ReaderTypes
  BY TypeParts DEF DBInv
<1>3. b \in Nat
  <2>1. rkey[r] \in Keys /\ w \in Writers
    BY <1>2, YangKVAssumption DEF ReaderTypes
  <2>2. Len(popped[w]) \in Nat /\ Len(queue[w]) \in Nat
    BY <1>2, <2>1, SeqFacts DEF ClientTypes
  <2> QED BY <2>2, Sums
<1>4. UNCHANGED <<popped, queue>>
  BY <1>1 DEF clientVars
<1>5. SearchAt(r, rkey[r])'
  <2>1. rpc'[r] = "end" /\ begin'[r] = b
    BY <1>1, <1>2 DEF ReaderTypes
  <2>2. b <= b
    BY <1>3
  <2> QED BY <1>1, <1>4, <2>1, <2>2 DEF SearchAt
<1> HIDE DEF b
<1>6. /\ rpc' \in [Readers -> {"idle", "begin", "end", "loop", "slot", "list", "version",
                               "get", "scan", "done"}]
      /\ begin' \in [Readers -> Nat] /\ rpc'[r] = "end"
      /\ \A d \in Readers : d # r => rpc'[d] = rpc[d] /\ answer'[d] = answer[d] /\ SameSearch(d)
  BY <1>1, <1>2, <1>3 DEF ReaderTypes, SameSearch
<1> QED BY <1>1, <1>2, <1>5, <1>6, SearchGoesOn DEF ReaderTypes

LEMMA readEndStep == ASSUME DBInv, NEW r \in Readers, readEnd(r) PROVE DBInv'
<1> DEFINE w == writerID[rkey[r]]
           x == Len(popped[w]) + 1
<1>1. /\ rpc[r] = "end" /\ UNCHANGED <<vars, clientVars, listVars, rkey, seq, curr_, lists, before>>
      /\ end' = [end EXCEPT ![r] = x] /\ pos' = [pos EXCEPT ![r] = begin[r]]
      /\ rpc' = [rpc EXCEPT ![r] = "loop"] /\ UNCHANGED <<begin, slotKey, answer>>
  BY DEF readEnd
<1>2. ClientTypes /\ ReaderTypes
  BY TypeParts DEF DBInv
<1>3. rkey[r] \in Keys /\ Len(popped[w]) \in Nat /\ x \in Nat \ {0}
  <2>1. rkey[r] \in Keys /\ w \in Writers
    BY <1>2, YangKVAssumption DEF ReaderTypes
  <2>2. Len(popped[w]) \in Nat
    BY <1>2, <2>1, SeqFacts DEF ClientTypes
  <2> QED BY <2>1, <2>2
<1>4. UNCHANGED <<popped, queue>>
  BY <1>1 DEF clientVars
<1>5. SearchAt(r, rkey[r])'
  <2>1. rpc'[r] = "loop" /\ end'[r] = x /\ pos'[r] = begin[r] /\ begin[r] \in Nat
    BY <1>1, <1>2 DEF ReaderTypes
  <2>2. begin[r] <= Len(popped[w]) + Len(queue[w])
    BY <1>1, <1>3 DEF DBInv, SearchInv, SearchAt
  <2>3. \A p \in 1 .. Len(popped[w]) : ~(x <= p)
    BY <1>3
  <2>4. begin[r] <= begin[r]
    BY <2>1
  <2> HIDE DEF x
  <2> QED BY <1>1, <1>4, <2>1, <2>2, <2>3, <2>4 DEF SearchAt
<1> HIDE DEF x
<1>6. /\ rpc' \in [Readers -> {"idle", "begin", "end", "loop", "slot", "list", "version",
                               "get", "scan", "done"}]
      /\ end' \in [Readers -> Nat \ {0}] /\ pos' \in [Readers -> Nat] /\ rpc'[r] = "loop"
      /\ \A d \in Readers : d # r => rpc'[d] = rpc[d] /\ answer'[d] = answer[d] /\ SameSearch(d)
  BY <1>1, <1>2, <1>3 DEF ReaderTypes, SameSearch
<1> QED BY <1>1, <1>2, <1>5, <1>6, SearchGoesOn DEF ReaderTypes

(* What a slot of the ring shows at a position that search visits: an      *)
(* entry, and one of the key only of a set that overlaps the get, whether  *)
(* it was pushed there at first, lies there instead or is being copied.    *)
LEMMA SlotShows ==
  ASSUME DBInv, NEW r \in Readers, rpc[r] \in {"loop", "slot"}, end[r] <= pos[r],
         NEW S, NEW e \in slotHolds(writerID[rkey[r]], pos[r], S)
  PROVE  e \in MemEntry /\ (e.key = rkey[r] => Touched(r, rkey[r]))
<1> DEFINE k == rkey[r]
           w == writerID[k]
           i == pos[r]
           s == popped[w] \o queue[w]
           SameSlot(p) == (p - i) % kQueueSize = 0
           copying == {c \in Copying(w) : part[c] \in S /\ SameSlot(Len(s) + 1)}
           T == {p \in i .. Len(s) : SameSlot(p)}
<1>1. ClientTypes /\ ReaderTypes /\ QueueInv /\ StoringInv
  BY TypeParts DEF DBInv
<1>2. k \in Keys /\ w \in Writers /\ i \in Nat \ {0} /\ end[r] \in Nat \ {0} /\ begin[r] \in Nat
  BY <1>1, YangKVAssumption DEF ReaderTypes
<1>3. SearchAt(r, k)
  BY <1>2 DEF DBInv, SearchInv
<1>4. popped[w] \in Seq(MemEntry) /\ queue[w] \in Seq(MemEntry)
  BY <1>1, <1>2 DEF ClientTypes
<1> DEFINE n == Len(popped[w])
           m == Len(queue[w])
<1>5. /\ n \in Nat /\ m \in Nat /\ s \in Seq(MemEntry) /\ Len(s) = n + m
      /\ \A p \in 1 .. n + m : s[p] = IF p <= n THEN popped[w][p] ELSE queue[w][p - n]
  <2>1. n \in Nat /\ m \in Nat
    BY <1>4, SeqFacts
  <2> QED BY <1>4, <2>1, ConcatProperties
<1>at. i <= begin[r] /\ begin[r] <= n + m
  BY <1>3 DEF SearchAt
<1>6. /\ copying # {} => e \in {sending[c] : c \in copying}
      /\ copying = {} => e = s[Max(T)]
  BY Zenon DEF slotHolds
<1>7. \A c \in copying : part[c] # "none" /\ c \in Clients
  BY DEF Copying
<1> HIDE DEF copying
<1>8. CASE copying # {}
  <2>1. PICK c \in copying : e = sending[c]
    BY <1>6, <1>8
  <2>2. c \in Clients /\ sending[c] # NoEntry /\ sending[c] \in MemEntry
    BY <1>1, <1>7, <2>1 DEF StoringInv, ClientTypes
  <2>3. e.key = k => Pending(k)
    BY <2>1, <2>2 DEF Pending
  <2> QED BY <2>1, <2>2, <2>3 DEF Touched
<1> HIDE DEF n, m, s, SameSlot
<1>9. CASE copying = {}
  <2> DEFINE x == n + m
             g == Max(T)
  <2>1. x \in Nat /\ i <= x /\ Len(s) = x
    BY <1>2, <1>5, <1>at
  <2>2. T \in SUBSET (1 .. x) /\ \A p \in T : i <= p
    BY <1>2, <2>1
  <2>3. i \in T
    <3>1. i - i = 0 /\ i \in i .. x
      BY <1>2, <2>1
    <3>2. 0 % kQueueSize = 0
      BY YangKVAssumption
    <3> QED BY <2>1, <3>1, <3>2 DEF SameSlot
  <2> HIDE DEF T, x
  <2>4. g \in T
    BY <2>1, <2>2, <2>3, LastSelected
  <2>5. e = s[g]
    BY <1>6, <1>9
  <2> HIDE DEF g
  <2>6. g \in 1 .. x /\ g \in Nat /\ end[r] <= g
    BY <1>2, <2>1, <2>2, <2>4
  <2>7. e \in MemEntry
    BY <1>5, <2>1, <2>5, <2>6, SeqFacts
  <2>8. CASE g <= n
    <3>1. g \in 1 .. n /\ e = popped[w][g]
      BY <1>5, <2>5, <2>6, <2>8 DEF x
    <3> QED BY <1>3, <2>6, <2>7, <3>1 DEF SearchAt, n
  <2>9. CASE ~(g <= n)
    <3>1. g - n \in 1 .. m /\ e = queue[w][g - n]
      BY <1>5, <2>5, <2>6, <2>9 DEF x
    <3>2. e.key = k => Pending(k)
      BY <1>1, <1>2, <3>1, QueuedIsPending DEF m
    <3> QED BY <2>7, <3>2 DEF Touched
  <2> QED BY <2>8, <2>9
<1> QED BY <1>8, <1>9

LEMMA readSlotKeyStep == ASSUME DBInv, NEW r \in Readers, readSlotKey(r) PROVE DBInv'
<1>1. PICK e \in slotHolds(writerID[rkey[r]], pos[r], {"key", "all"}) :
        slotKey' = [slotKey EXCEPT ![r] = e.key]
  BY DEF readSlotKey
<1>2. /\ rpc[r] = "loop" /\ pos[r] >= end[r] /\ rpc' = [rpc EXCEPT ![r] = "slot"]
      /\ UNCHANGED <<vars, clientVars, listVars, rkey, seq, curr_, lists, before>>
      /\ UNCHANGED <<begin, end, pos, answer>>
  BY DEF readSlotKey
<1>3. ReaderTypes
  BY TypeParts DEF DBInv
<1>4. end[r] <= pos[r] /\ rkey[r] \in Keys
  BY <1>2, <1>3 DEF ReaderTypes
<1>5. e \in MemEntry /\ (e.key = rkey[r] => Touched(r, rkey[r]))
  BY <1>2, <1>4, SlotShows
<1>6. e.key \in Keys
  BY <1>5, EntriesAre
<1>7. /\ rpc' \in [Readers -> {"idle", "begin", "end", "loop", "slot", "list", "version",
                               "get", "scan", "done"}]
      /\ slotKey' \in [Readers -> Keys \cup {NoKey}] /\ rpc'[r] = "slot" /\ slotKey'[r] = e.key
      /\ \A d \in Readers : d # r => rpc'[d] = rpc[d] /\ answer'[d] = answer[d] /\ SameSearch(d)
  BY <1>1, <1>2, <1>3, <1>6 DEF ReaderTypes, SameSearch
<1>8. SearchAt(r, rkey[r])'
  <2>1. Touched(r, rkey[r])' <=> Touched(r, rkey[r])
    BY <1>2, <1>4, TouchedStill
  <2>2. UNCHANGED <<popped, queue>>
    BY <1>2 DEF clientVars
  <2>3. SearchAt(r, rkey[r])
    BY <1>4 DEF DBInv, SearchInv
  <2> QED BY <1>2, <1>4, <1>5, <1>7, <2>1, <2>2, <2>3 DEF SearchAt
<1> QED BY <1>2, <1>3, <1>7, <1>8, SearchGoesOn DEF ReaderTypes

LEMMA readSlotRestStep == ASSUME DBInv, NEW r \in Readers, readSlotRest(r) PROVE DBInv'
<1> DEFINE k == rkey[r]
           hit(e) == slotKey[r] = k /\ seq[r] <= e.seq_num
<1>1. /\ rpc[r] = "slot"
      /\ UNCHANGED <<vars, clientVars, listVars, rkey, seq, curr_, lists, before>>
  BY DEF readSlotRest
<1>2. PICK e \in slotHolds(writerID[k], pos[r], {"all"}) :
        \/ /\ hit(e) /\ answer' = [answer EXCEPT ![r] = [e EXCEPT !.key = slotKey[r]]]
           /\ rpc' = [rpc EXCEPT ![r] = "done"] /\ searchReturns(r)
        \/ /\ pos' = [pos EXCEPT ![r] = pos[r] - 1] /\ slotKey' = [slotKey EXCEPT ![r] = NoKey]
           /\ rpc' = [rpc EXCEPT ![r] = "loop"] /\ UNCHANGED <<begin, end, answer>>
  BY DEF readSlotRest
<1>3. ReaderTypes
  BY TypeParts DEF DBInv
<1>4. k \in Keys /\ pos[r] \in Nat /\ end[r] \in Nat \ {0} /\ begin[r] \in Nat
  BY <1>3 DEF ReaderTypes
<1>5. SearchAt(r, k)
  BY <1>4 DEF DBInv, SearchInv
<1>6. end[r] <= pos[r] /\ (slotKey[r] = k => Touched(r, k))
  BY <1>1, <1>5 DEF SearchAt
<1>7. e \in MemEntry
  BY <1>1, <1>6, SlotShows
<1>8. CASE /\ hit(e) /\ answer' = [answer EXCEPT ![r] = [e EXCEPT !.key = slotKey[r]]]
           /\ rpc' = [rpc EXCEPT ![r] = "done"] /\ searchReturns(r)
  <2> DEFINE a == [e EXCEPT !.key = slotKey[r]]
  <2>1. a \in MemEntry
    <3>1. slotKey[r] \in Keys
      BY <1>4, <1>8
    <3> QED BY <1>7, <3>1 DEF MemEntry
  <2> HIDE DEF a
  <2>2. answer' = [answer EXCEPT ![r] = a]
    BY <1>8 DEF a
  <2>3. /\ rpc' \in [Readers -> {"idle", "begin", "end", "loop", "slot", "list", "version",
                                 "get", "scan", "done"}]
        /\ answer' \in [Readers -> MemEntry \cup {NoEntry}] /\ rpc'[r] = "done"
        /\ \A d \in Readers : d # r => rpc'[d] = rpc[d] /\ answer'[d] = answer[d]
    <3>1. /\ rpc' = [rpc EXCEPT ![r] = "done"]
          /\ answer \in [Readers -> MemEntry \cup {NoEntry}]
          /\ rpc \in [Readers -> {"idle", "begin", "end", "loop", "slot", "list", "version",
                                  "get", "scan", "done"}]
      BY <1>3, <1>8 DEF ReaderTypes
    <3> QED BY <2>1, <2>2, <3>1
  <2>4. SearchAt(r, k)'
    BY <2>3 DEF SearchAt
  <2> QED BY <1>1, <1>6, <1>8, <2>3, <2>4, searchReturnsTypes, SearchGoesOn
<1>9. CASE /\ pos' = [pos EXCEPT ![r] = pos[r] - 1] /\ slotKey' = [slotKey EXCEPT ![r] = NoKey]
           /\ rpc' = [rpc EXCEPT ![r] = "loop"] /\ UNCHANGED <<begin, end, answer>>
  <2>1. pos[r] - 1 \in Nat /\ (pos[r] <= begin[r] => pos[r] - 1 <= begin[r])
    BY <1>4, <1>6
  <2>2. /\ rpc' \in [Readers -> {"idle", "begin", "end", "loop", "slot", "list", "version",
                                 "get", "scan", "done"}]
        /\ pos' \in [Readers -> Nat] /\ slotKey' \in [Readers -> Keys \cup {NoKey}]
        /\ rpc'[r] = "loop" /\ pos'[r] = pos[r] - 1
        /\ \A d \in Readers : d # r => rpc'[d] = rpc[d] /\ answer'[d] = answer[d] /\ SameSearch(d)
    BY <1>3, <1>9, <2>1 DEF ReaderTypes, SameSearch
  <2>3. SearchAt(r, k)'
    <3>1. Touched(r, k)' <=> Touched(r, k)
      BY <1>1, <1>4, TouchedStill
    <3>2. UNCHANGED <<popped, queue>>
      BY <1>1 DEF clientVars
    <3> QED BY <1>1, <1>5, <1>9, <2>1, <2>2, <3>1, <3>2 DEF SearchAt
  <2> QED BY <1>1, <1>3, <1>9, <2>2, <2>3, SearchGoesOn DEF ReaderTypes
<1> QED BY <1>2, <1>8, <1>9

LEMMA endOfLoopStep == ASSUME DBInv, NEW r \in Readers, endOfLoop(r) PROVE DBInv'
<1>1. /\ rpc[r] = "loop" /\ rpc' = [rpc EXCEPT ![r] = "list"] /\ searchReturns(r)
      /\ UNCHANGED <<vars, clientVars, listVars, rkey, seq, curr_, lists, answer, before>>
  BY DEF endOfLoop
<1>2. ReaderTypes
  BY TypeParts DEF DBInv
<1>3. /\ rpc' \in [Readers -> {"idle", "begin", "end", "loop", "slot", "list", "version",
                               "get", "scan", "done"}]
      /\ rpc'[r] = "list" /\ answer' \in [Readers -> MemEntry \cup {NoEntry}]
      /\ \A d \in Readers : d # r => rpc'[d] = rpc[d] /\ answer'[d] = answer[d]
  BY <1>1, <1>2 DEF ReaderTypes
<1>4. SearchAt(r, rkey[r])'
  BY <1>3 DEF SearchAt
<1> QED BY <1>1, <1>3, <1>4, searchReturnsTypes, SearchGoesOn

LEMMA searchStep == ASSUME DBInv, NEW r \in Readers, search(r) PROVE DBInv'
  BY readBeginStep, readEndStep, readSlotKeyStep, readSlotRestStep, endOfLoopStep DEF search

LEMMA getEntryStep == ASSUME DBInv, NEW r \in Readers, getEntry(r) PROVE DBInv'
<1> DEFINE k == rkey[r]
           w == writerID[k]
           e == content[w][filled[w]][k]
           none == e = NoEntry \/ e.seq_num > seq[r]
<1>1. /\ rpc[r] = "list" /\ UNCHANGED <<vars, clientVars, listVars, rkey, seq, searchVars, curr_, lists, before>>
      /\ answer' = [answer EXCEPT ![r] = IF none THEN NoEntry ELSE e]
      /\ rpc' = [rpc EXCEPT ![r] = IF none THEN "version" ELSE "done"]
  BY DEF getEntry, list_
<1>2. ListTypes /\ ReaderTypes /\ DBTypeOK /\ TypeOK
  BY TypeParts DEF DBInv, IInv
<1>3. k \in Keys /\ w \in Writers /\ filled[w] \in 1 .. MaxLists + 1 /\ filled[w] \in Nat \ {0}
      /\ MaxLists \in Nat /\ seq[r] \in Nat
  BY <1>2, Types, DBTypes DEF TypeOK
<1>4. e \in MemEntry \cup {NoEntry} /\ e.seq_num \in Nat
  BY <1>2, <1>3, DBTypes, EntriesAre
<1>5. LatestRank(k) \in Nat /\ LatestRank(k) <= filled[w]
  BY <1>2, <1>3, LatestIs, RankIsFilled
<1>6. Quiet(r, k) /\ LatestRank(k) = filled[w] => e = Latest(k) /\ ~none
  <2> SUFFICES ASSUME Quiet(r, k), LatestRank(k) = filled[w] PROVE e = Latest(k) /\ ~none
    OBVIOUS
  <2>1. LatestRank(k) # 0
    BY <1>3
  <2>2. e = Latest(k) /\ e # NoEntry
    BY <1>2, <1>3, <2>1, LatestIs
  <2>3. Overlap(r, k)
    BY <1>3 DEF DBInv, OverlapInv
  <2>4. e.seq_num < seq[r]
    BY <1>1, <2>2, <2>3 DEF Overlap, Quiet
  <2>5. ~(e.seq_num > seq[r])
    BY <1>3, <1>4, <2>4
  <2> QED BY <2>2, <2>5
<1>7. ~none => LatestRank(k) = filled[w]
  <2>1. ~none => filled[w] <= LatestRank(k)
    BY SMTT(30), <1>2, <1>3, LatestIs
  <2> QED BY <1>3, <1>5, <2>1
<1>8. /\ rpc'[r] = (IF none THEN "version" ELSE "done") /\ answer'[r] = (IF none THEN NoEntry ELSE e)
      /\ \A d \in Readers : d # r => /\ rpc'[d] = rpc[d] /\ curr_'[d] = curr_[d]
                                     /\ lists'[d] = lists[d] /\ answer'[d] = answer[d]
  BY SMTT(30), <1>1, <1>2 DEF ReaderTypes
<1>9. ReaderTypes'
  BY <1>1, <1>2, <1>4 DEF ReaderTypes, searchVars, vars, setVars
<1>10. ReaderAt(r)'
  BY <1>8 DEF ReaderAt
<1> HIDE DEF none, e
<1>11. ASSUME NEW n \in Nat, LatestRank(k) = n, Quiet(r, k)
       PROVE  /\ rpc'[r] \in {"version", "get", "scan"} => n < filled[w]
              /\ rpc'[r] # "scan"
              /\ rpc'[r] = "done" => answer'[r] = Latest(k)
  <2>1. CASE none
    <3>1. n # filled[w]
      BY <1>6, <1>11, <2>1
    <3>2. n < filled[w]
      BY <1>3, <1>5, <1>11, <3>1
    <3> QED BY <1>8, <2>1, <3>2
  <2>2. CASE ~none
    BY <1>6, <1>7, <1>8, <1>11, <2>2
  <2> QED BY <2>1, <2>2
<1> QED BY <1>1, <1>8, <1>9, <1>10, <1>11, GoesOn

LEMMA CurrentStep == ASSUME DBInv, NEW r \in Readers, Current(r) PROVE DBInv'
<1>1. /\ rpc[r] = "version" /\ UNCHANGED <<vars, clientVars, listVars, rkey, seq, searchVars, lists, answer, before>>
      /\ curr_' = [curr_ EXCEPT ![r] = current_] /\ rpc' = [rpc EXCEPT ![r] = "get"]
  BY DEF Current
<1>2. ReaderTypes /\ TypeOK
  BY TypeParts DEF DBInv, IInv
<1>3. current_ \in 1 .. current_ /\ current_ \in DOMAIN versions
  <2>1. current_ \in 1 .. Len(versions) /\ Len(versions) \in Nat /\ DOMAIN versions = 1 .. Len(versions)
    BY <1>2, Types
  <2> QED BY <2>1
<1>4. /\ rpc'[r] = "get" /\ curr_'[r] = current_ /\ UNCHANGED <<versions, current_>>
      /\ \A d \in Readers : d # r => /\ rpc'[d] = rpc[d] /\ curr_'[d] = curr_[d]
                                     /\ lists'[d] = lists[d] /\ answer'[d] = answer[d]
  BY <1>1, <1>2 DEF ReaderTypes, vars, setVars
<1>5. ReaderTypes'
  BY <1>1, <1>2, <1>3, <1>4 DEF ReaderTypes, searchVars
<1>6. ReaderAt(r)'
  BY <1>3, <1>4 DEF ReaderAt
<1>7. \A k \in Keys, n \in Nat :
        rkey[r] = k /\ LatestRank(k) = n /\ Quiet(r, k) => n < filled[writerID[k]]
  <2>1. curr_[r] \in Nat
    BY <1>2, DBTypes DEF DBInv
  <2> QED BY <1>1, <2>1 DEF DBInv, WhereInv, Where
<1> QED BY <1>1, <1>4, <1>5, <1>6, <1>7, GoesOn

(* A version that was not freed, and of which a reader knows, is current.  *)
LEMMA NotFreedIsCurrent ==
  ASSUME DBInv, NEW v \in 1 .. current_, ~freed(v)
  PROVE  v = current_ /\ visible = current_
<1>1. current_ \in Nat /\ \A x \in 1 .. current_ - 1 : freed(x)
  BY Types DEF DBInv, IInv, ShapeInv
<1>2. v = current_
  BY <1>1
<1> QED BY <1>2 DEF visible

(* The frozen lists of the current version are in the order they were      *)
(* filled.                                                                 *)
LEMMA FrozenAscend ==
  ASSUME DBInv, NEW w \in Writers, ~freed(current_)
  PROVE  LET l == versions[current_].list_[w]
         IN \A i, j \in 1 .. Len(l) : i < j => l[i] < l[j]
<1> DEFINE l == versions[current_].list_[w]
           d == OnDisk(current_, w)
           s == Append(d, l)
<1>1. TypeOK /\ current_ \in 1 .. Len(versions) /\ current_ \in 1 .. current_
  BY Types DEF DBInv, IInv
<1>2. Ascending(s)
  BY <1>1, NotFreedIsCurrent DEF DBInv, IInv, HistoryInv, Recorded, Shown, Path
<1>3. d \in Seq(Seq(Ranks)) /\ l \in Seq(Ranks)
  BY <1>1, OnDiskType, Types
<1> HIDE DEF d, l
<1>4. Len(d) + 1 \in DOMAIN s /\ s[Len(d) + 1] = l /\ DOMAIN l = 1 .. Len(l)
  BY <1>3, LastSegment
<1> HIDE DEF s
<1>5. \A i, j \in 1 .. Len(l) : i < j => l[i] < l[j]
  BY <1>2, <1>4 DEF Ascending
<1> QED BY <1>5 DEF l

LEMMA GetBeginStep == ASSUME DBInv, NEW r \in Readers, GetBegin(r) PROVE DBInv'
<1> DEFINE v == curr_[r]
           w == writerID[rkey[r]]
           l == versions[v].list_[w]
<1>1. /\ rpc[r] = "get" /\ ~freed(v)
      /\ UNCHANGED <<vars, clientVars, listVars, rkey, seq, searchVars, curr_, answer, before>>
      /\ lists' = [lists EXCEPT ![r] = l] /\ rpc' = [rpc EXCEPT ![r] = "scan"]
  BY DEF GetBegin
<1>2. ReaderTypes /\ TypeOK /\ DBTypeOK
  BY TypeParts DEF DBInv, IInv
<1>3. v \in 1 .. current_ /\ w \in Writers
  BY <1>1, <1>2, YangKVAssumption DEF DBInv, ReaderInv, ReaderAt, ReaderTypes
<1>4. v = current_
  BY <1>1, <1>3, NotFreedIsCurrent
<1>5. \A i, j \in 1 .. Len(l) : i < j => l[i] < l[j]
  BY <1>1, <1>3, <1>4, FrozenAscend
<1>6. l \in Seq(Ranks) /\ DOMAIN l = 1 .. Len(l)
  <2>1. l \in Seq(Ranks)
    BY SMTT(30), <1>2, <1>3, <1>4, Types
  <2> HIDE DEF l
  <2> QED BY <2>1, SeqFacts
<1>7. \A n : InVersion(v, w, n) => \E i \in 1 .. Len(l) : l[i] = n
  BY <1>6 DEF InVersion
<1> HIDE DEF l
<1>8. /\ rpc'[r] = "scan" /\ lists'[r] = l /\ curr_'[r] = v /\ UNCHANGED <<versions, current_>>
      /\ \A d \in Readers : d # r => /\ rpc'[d] = rpc[d] /\ curr_'[d] = curr_[d]
                                     /\ lists'[d] = lists[d] /\ answer'[d] = answer[d]
  BY <1>1, <1>2 DEF ReaderTypes, vars, setVars
<1>9. ReaderTypes'
  BY <1>1, <1>2, <1>6, <1>8 DEF ReaderTypes, searchVars
<1>10. ReaderAt(r)'
  BY <1>3, <1>5, <1>8 DEF ReaderAt
<1>11. ASSUME NEW k \in Keys, NEW n \in Nat, rkey[r] = k, LatestRank(k) = n, Quiet(r, k)
       PROVE  /\ n < filled[writerID[k]]
              /\ InVersion(v, writerID[k], n) => ToLookAt(r, n)'
  <2>1. v \in Nat
    BY <1>2, DBTypes
  <2>2. Where(r, k, v, n)
    BY <1>11, <2>1 DEF DBInv, WhereInv
  <2> QED BY <1>1, <1>7, <1>8, <1>11, <2>2 DEF Where, ToLookAt
<1> QED BY <1>1, <1>8, <1>9, <1>10, <1>11, GoesOn

(* What a get of a live version that is in memory still has to look at.    *)
LEMMA StillToLookAt ==
  ASSUME DBInv, NEW r \in Readers, NEW k \in Keys, rkey[r] = k, rpc[r] = "scan", ~freed(curr_[r]),
         Quiet(r, k)
  PROVE  /\ InVersion(curr_[r], writerID[k], LatestRank(k)) => ToLookAt(r, LatestRank(k))
         /\ InMemory(writerID[k], LatestRank(k)) => ToLookAt(r, LatestRank(k))
         /\ LatestRank(k) < filled[writerID[k]]
<1> DEFINE v == curr_[r]
           n == LatestRank(k)
           w == writerID[k]
<1>1. DBTypeOK /\ TypeOK
  BY DEF DBInv, IInv
<1>2. v \in Nat /\ n \in Nat /\ w \in Writers /\ filled[w] \in Nat
  BY <1>1, DBTypes, LatestIs
<1>3. Where(r, k, v, n)
  BY <1>2 DEF DBInv, WhereInv
<1>4. v = current_
  BY NotFreedIsCurrent DEF DBInv, ReaderInv, ReaderAt
<1>5. n < filled[w] /\ (InVersion(v, w, n) => ToLookAt(r, n))
  BY <1>3 DEF Where
<1>6. InMemory(w, n) => InVersion(v, w, n)
  <2>1. n # filled[w]
    BY <1>2, <1>5
  <2> QED BY <1>4, <2>1, InMemoryIs
<1> QED BY <1>5, <1>6

LEMMA FrontFacts ==
  ASSUME NEW S, NEW s \in Seq(S), s # <<>>
  PROVE  /\ Len(s) \in Nat \ {0}
         /\ SubSeq(s, 1, Len(s) - 1) \in Seq(S) /\ Len(SubSeq(s, 1, Len(s) - 1)) = Len(s) - 1
         /\ \A i \in 1 .. Len(s) - 1 : SubSeq(s, 1, Len(s) - 1)[i] = s[i]
<1>1. Len(s) \in Nat \ {0} /\ \A i \in 1 .. Len(s) - 1 : s[i] \in S
  BY SMT
<1> DEFINE m == Len(s) - 1
<1>2. m \in Nat /\ m \in Int /\ 1 \in Int /\ \A i \in 1 .. m : s[i] \in S
  BY <1>1
<1> HIDE DEF m
<1>3. /\ SubSeq(s, 1, m) \in Seq(S) /\ Len(SubSeq(s, 1, m)) = IF 1 <= m THEN m - 1 + 1 ELSE 0
      /\ \A i \in 1 .. m - 1 + 1 : SubSeq(s, 1, m)[i] = s[1 + i - 1]
  BY <1>2, SubSeqProperties
<1>4. m - 1 + 1 = m /\ (~(1 <= m) => m = 0) /\ \A i \in 1 .. m : 1 + i - 1 = i
  BY <1>2
<1>5. Len(SubSeq(s, 1, m)) = m /\ \A i \in 1 .. m : SubSeq(s, 1, m)[i] = s[i]
  BY <1>3, <1>4
<1> QED BY <1>1, <1>3, <1>5 DEF m

LEMMA GetListStep == ASSUME DBInv, NEW r \in Readers, GetList(r) PROVE DBInv'
<1> DEFINE k == rkey[r]
           w == writerID[k]
           l == lists[r]
           last == Len(l)
           e == content[w][l[last]][k]
           m == SubSeq(l, 1, last - 1)
<1>1. /\ rpc[r] = "scan" /\ ~freed(curr_[r]) /\ l # <<>>
      /\ UNCHANGED <<vars, clientVars, listVars, rkey, seq, searchVars, curr_, before>>
      /\ answer' = [answer EXCEPT ![r] = e]
      /\ rpc' = [rpc EXCEPT ![r] = IF e = NoEntry THEN "scan" ELSE "done"]
      /\ lists' = [lists EXCEPT ![r] = m]
  BY DEF GetList
<1>2. ReaderTypes /\ TypeOK /\ DBTypeOK
  BY TypeParts DEF DBInv, IInv
<1>3. k \in Keys /\ w \in Writers /\ l \in Seq(Ranks)
  BY <1>2, YangKVAssumption DEF ReaderTypes
<1>4. /\ last \in Nat \ {0} /\ last \in 1 .. last /\ l[last] \in Ranks
      /\ m \in Seq(Ranks) /\ Len(m) = last - 1 /\ \A i \in 1 .. last - 1 : m[i] = l[i]
  <2>1. /\ last \in Nat \ {0} /\ m \in Seq(Ranks) /\ Len(m) = last - 1
        /\ \A i \in 1 .. last - 1 : m[i] = l[i]
    BY <1>1, <1>3, FrontFacts
  <2>2. last \in 1 .. last
    BY <2>1
  <2>3. l[last] \in Ranks
    BY <1>3, <2>2, SeqFacts
  <2> QED BY <2>1, <2>2, <2>3
<1>5. l[last] \in 1 .. MaxLists + 1 /\ l[last] \in Nat \ {0} /\ MaxLists \in Nat
  BY <1>4, VersionSetAssumption DEF Ranks
<1>6. e \in MemEntry \cup {NoEntry}
  BY <1>2, <1>3, <1>5, DBTypes
<1>7. \A i, j \in 1 .. last : i < j => l[i] < l[j]
  BY <1>1 DEF DBInv, ReaderInv, ReaderAt
<1>8. Quiet(r, k) /\ l[last] = LatestRank(k) => e = Latest(k) /\ e # NoEntry
  BY <1>2, <1>3, <1>5, LatestIs
<1>9. e # NoEntry => l[last] <= LatestRank(k) /\ LatestRank(k) # 0
  BY <1>2, <1>3, <1>5, LatestIs
<1>10. Quiet(r, k) =>
         /\ InVersion(curr_[r], w, LatestRank(k)) => ToLookAt(r, LatestRank(k))
         /\ InMemory(w, LatestRank(k)) => ToLookAt(r, LatestRank(k))
         /\ LatestRank(k) < filled[w]
  BY <1>1, <1>3, StillToLookAt
<1>11. ToLookAt(r, LatestRank(k)) =>
         LatestRank(k) = l[last] \/ \E i \in 1 .. last - 1 : l[i] = LatestRank(k) /\ l[i] < l[last]
  <2> SUFFICES ASSUME NEW i \in 1 .. last, l[i] = LatestRank(k), i # last
               PROVE  i \in 1 .. last - 1 /\ l[i] < l[last]
    BY DEF ToLookAt
  <2>1. i \in 1 .. last - 1 /\ i < last
    BY <1>4
  <2> QED BY <1>4, <1>7, <2>1
<1>12. \A i, j \in 1 .. Len(m) : i < j => m[i] < m[j]
  <2> SUFFICES ASSUME NEW i \in 1 .. Len(m), NEW j \in 1 .. Len(m), i < j PROVE m[i] < m[j]
    OBVIOUS
  <2>1. i \in 1 .. last - 1 /\ j \in 1 .. last - 1 /\ i \in 1 .. last /\ j \in 1 .. last
    BY <1>4
  <2> QED BY <1>4, <1>7, <2>1
<1>13. ASSUME Quiet(r, k), e = NoEntry, InVersion(curr_[r], w, LatestRank(k))
       PROVE  \E i \in 1 .. Len(m) : m[i] = LatestRank(k)
  BY <1>4, <1>8, <1>10, <1>11, <1>13
<1>14. ASSUME Quiet(r, k), e # NoEntry, InMemory(w, LatestRank(k)) PROVE e = Latest(k)
  <2>1. l[last] = LatestRank(k)
    <3>1. LatestRank(k) \in Nat
      BY <1>2, <1>3, LatestIs
    <3> QED BY <1>5, <1>9, <1>10, <1>11, <1>14, <3>1
  <2> QED BY <1>8, <1>14, <2>1
<1> HIDE DEF e, m
<1>15. /\ rpc'[r] = (IF e = NoEntry THEN "scan" ELSE "done") /\ answer'[r] = e /\ lists'[r] = m
       /\ curr_'[r] = curr_[r] /\ UNCHANGED <<versions, current_>>
       /\ \A d \in Readers : d # r => /\ rpc'[d] = rpc[d] /\ curr_'[d] = curr_[d]
                                      /\ lists'[d] = lists[d] /\ answer'[d] = answer[d]
  BY <1>1, <1>2 DEF ReaderTypes, vars, setVars
<1>16. ReaderTypes'
  BY <1>1, <1>2, <1>4, <1>6, <1>15 DEF ReaderTypes, searchVars
<1>17. ReaderAt(r)'
  <2>1. curr_[r] \in 1 .. current_
    BY <1>1 DEF DBInv, ReaderInv, ReaderAt
  <2> QED BY <1>12, <1>15, <2>1 DEF ReaderAt
<1>18. ASSUME NEW n \in Nat, LatestRank(k) = n, Quiet(r, k)
       PROVE  /\ n < filled[w]
              /\ rpc'[r] = "scan" /\ InVersion(curr_[r], w, n) => ToLookAt(r, n)'
              /\ rpc'[r] = "done" /\ InMemory(w, n) => answer'[r] = Latest(k)
  BY <1>10, <1>13, <1>14, <1>15, <1>18 DEF ToLookAt
<1> QED BY <1>1, <1>15, <1>16, <1>17, <1>18, GoesOn

LEMMA GetFilesStep == ASSUME DBInv, NEW r \in Readers, GetFiles(r) PROVE DBInv'
<1>1. /\ rpc[r] = "scan" /\ ~freed(curr_[r]) /\ lists[r] = <<>>
      /\ UNCHANGED <<vars, clientVars, listVars, rkey, seq, searchVars, curr_, lists, answer, before>>
      /\ rpc' = [rpc EXCEPT ![r] = "done"]
  BY DEF GetFiles
<1>2. ReaderTypes
  BY TypeParts DEF DBInv
<1>3. /\ rpc'[r] = "done" /\ UNCHANGED versions
      /\ \A d \in Readers : d # r => /\ rpc'[d] = rpc[d] /\ curr_'[d] = curr_[d]
                                     /\ lists'[d] = lists[d] /\ answer'[d] = answer[d]
  BY <1>1, <1>2 DEF ReaderTypes, vars, setVars
<1>4. ReaderTypes'
  BY <1>1, <1>2, <1>3 DEF ReaderTypes, searchVars
<1>5. ReaderAt(r)'
  BY <1>3 DEF ReaderAt
<1>6. \A n : ~ToLookAt(r, n)
  BY <1>1 DEF ToLookAt
<1>7. ASSUME NEW k \in Keys, rkey[r] = k, Quiet(r, k) PROVE ~InMemory(writerID[k], LatestRank(k))
  BY <1>1, <1>6, <1>7, StillToLookAt
<1> QED BY <1>1, <1>3, <1>4, <1>5, <1>7, GoesOn

LEMMA GetFreedStep == ASSUME DBInv, NEW r \in Readers, GetFreed(r) PROVE DBInv'
<1> DEFINE w == writerID[rkey[r]]
<1>1. PICK e : /\ answer' = [answer EXCEPT ![r] = e]
               /\ e = NoEntry \/ \E n \in 1 .. MaxLists, k \in Keys : e = content[w][n][k]
  BY DEF GetFreed
<1>2. /\ rpc[r] \in {"get", "scan"} /\ freed(curr_[r])
      /\ UNCHANGED <<vars, clientVars, listVars, rkey, seq, searchVars, curr_, lists, before>>
      /\ rpc' = [rpc EXCEPT ![r] = "done"]
  BY DEF GetFreed
<1>3. ReaderTypes /\ DBTypeOK /\ TypeOK
  BY TypeParts DEF DBInv, IInv
<1>4. e \in MemEntry \cup {NoEntry}
  <2>1. \A n \in 1 .. MaxLists : n \in 1 .. MaxLists + 1
    BY VersionSetAssumption
  <2>2. w \in Writers
    BY <1>3, YangKVAssumption DEF ReaderTypes
  <2>3. \A n \in 1 .. MaxLists, k \in Keys : content[w][n][k] \in MemEntry \cup {NoEntry}
    BY <1>3, <2>1, <2>2, DBTypes
  <2> QED BY <1>1, <2>3
<1>5. /\ rpc'[r] = "done" /\ curr_'[r] = curr_[r] /\ UNCHANGED versions
      /\ \A d \in Readers : d # r => /\ rpc'[d] = rpc[d] /\ curr_'[d] = curr_[d]
                                     /\ lists'[d] = lists[d] /\ answer'[d] = answer[d]
  BY <1>1, <1>2, <1>3 DEF ReaderTypes, vars, setVars
<1>6. ReaderTypes'
  BY <1>1, <1>2, <1>3, <1>4, <1>5 DEF ReaderTypes, searchVars
<1>7. ReaderAt(r)'
  BY <1>5 DEF ReaderAt
<1>8. curr_[r] # 0
  BY <1>2 DEF DBInv, ReaderInv, ReaderAt
<1> QED BY <1>2, <1>5, <1>6, <1>7, <1>8, GoesOn

LEMMA returnStep == ASSUME DBInv, NEW r \in Readers, return(r) PROVE DBInv'
<1>1. /\ UNCHANGED <<vars, clientVars, listVars, rkey, searchVars>>
      /\ rpc' = [rpc EXCEPT ![r] = "idle"] /\ seq' = [seq EXCEPT ![r] = 0]
      /\ curr_' = [curr_ EXCEPT ![r] = 0] /\ lists' = [lists EXCEPT ![r] = <<>>]
      /\ answer' = [answer EXCEPT ![r] = NoEntry] /\ before' = [before EXCEPT ![r] = NotAsked]
  BY DEF return
<1>2. ReaderTypes
  BY TypeParts DEF DBInv
<1>3. rpc'[r] = "idle" /\ \A d \in Readers : d # r => SameReader(d)
  BY <1>1, <1>2 DEF ReaderTypes, SameReader, SameSearch, searchVars
<1>4. ReaderTypes'
  <2>1. /\ 0 \in 0 .. MaxSets + 1 /\ <<>> \in Seq(Ranks)
        /\ NotAsked \in [latest : MemEntry \cup {NoEntry}, pending : BOOLEAN]
    BY YangKVAssumption DEF NotAsked
  <2>2. versions' = versions
    BY <1>1 DEF vars, setVars
  <2> QED BY <1>1, <1>2, <2>1, <2>2 DEF ReaderTypes, searchVars
<1>5. ReaderAt(r)' /\ \A k \in Keys : Overlap(r, k)' /\ SearchAt(r, k)'
  BY <1>3 DEF ReaderAt, Overlap, SearchAt
<1>6. \A k \in Keys, v, n \in Nat : Where(r, k, v, n)'
  BY <1>3 DEF Where
<1> QED BY <1>1, <1>3, <1>4, <1>5, <1>6, ReaderStep

-----------------------------------------------------------------------------
LEMMA InitDBInv == ASSUME DBInit PROVE DBInv
<1>1. Init /\ IInv
  BY InitIInv DEF DBInit
<1>2. MaxSets \in Nat /\ MaxLists \in Nat /\ kQueueSize \in Nat
  BY VersionSetAssumption, YangKVAssumption
<1>3. /\ idx_ = 1 /\ sending = [c \in Clients |-> NoEntry] /\ queue = [w \in Writers |-> <<>>]
      /\ part = [c \in Clients |-> "none"] /\ popped = [w \in Writers |-> <<>>]
      /\ content = [w \in Writers |-> [n \in 1 .. MaxLists + 1 |-> Empty]]
      /\ rpc = [r \in Readers |-> "idle"]
  BY DEF DBInit
<1>4. <<>> \in Seq(MemEntry) /\ Len(<<>>) = 0 /\ \A i : ~(i \in 1 .. Len(<<>>))
  OBVIOUS
<1>5. \A w \in Writers, n \in 1 .. MaxLists + 1, k \in Keys : content[w][n][k] = NoEntry
  BY <1>3 DEF Empty
<1>6. ClientTypes
  BY <1>2, <1>3, <1>4 DEF ClientTypes
<1>7. ListTypes
  <2>1. Empty \in [Keys -> MemEntry \cup {NoEntry}]
    BY DEF Empty
  <2> QED BY <1>3, <2>1 DEF ListTypes, DBInit
<1>8. ReaderTypes
  <2>1. /\ 0 \in 0 .. MaxSets + 1 /\ <<>> \in Seq(Ranks)
        /\ NotAsked \in [latest : MemEntry \cup {NoEntry}, pending : BOOLEAN]
    BY <1>2 DEF NotAsked
  <2> QED BY <2>1 DEF ReaderTypes, DBInit
<1>9. DBTypeOK /\ QueueInv
  <2>1. \A w \in Writers : queue[w] \in Seq(MemEntry) /\ popped[w] \in Seq(MemEntry)
    BY <1>6 DEF ClientTypes
  <2> QED BY <1>6, <1>7, <1>8, <2>1 DEF DBTypeOK, QueueInv, ClientTypes, ListTypes, ReaderTypes
<1>10. NumberInv
  <2>1. NoEntry.seq_num < idx_
    BY <1>3, EntriesAre
  <2> QED BY <1>3, <1>4, <1>5, <2>1 DEF NumberInv
<1>11. FilledInv
  BY <1>5 DEF FilledInv
<1>12. OverlapInv /\ ReaderInv /\ SearchInv /\ WhereInv /\ StoringInv
  BY <1>3 DEF OverlapInv, Overlap, ReaderInv, ReaderAt, SearchInv, SearchAt, WhereInv, Where,
              StoringInv
<1> QED BY <1>1, <1>9, <1>10, <1>11, <1>12 DEF DBInv

LEMMA NextDBInv == ASSUME DBInv, [DBNext]_dbVars PROVE DBInv'
<1>1. ASSUME NEW c \in Clients, NEW k \in Keys, NEW del \in DelFlags, setKey(c, k, del) PROVE DBInv'
  BY <1>1, setKeyStep
<1>2. ASSUME NEW c \in Clients, push(c) PROVE DBInv'
  BY <1>2, pushStoreKeyStep, pushStoreRestStep, pushPublishStep DEF push
<1>3. ASSUME NEW w \in Writers, insertMessage(w) PROVE DBInv'
  BY <1>3, insertMessageStep
<1>4. ASSUME \/ \E w \in Writers : wrlock(w) \/ unlock(w) \/ freeze(w)
             \/ compactOrStop
             \/ UNCHANGED dbVars
      PROVE  DBInv'
  BY <1>4, VersionSteps
<1>5. ASSUME NEW r \in Readers, NEW k \in Keys, getValue(r, k) PROVE DBInv'
  BY <1>5, getValueStep
<1>6. ASSUME NEW r \in Readers,
             \/ search(r) \/ getEntry(r) \/ Current(r) \/ GetBegin(r)
             \/ GetList(r) \/ GetFiles(r) \/ GetFreed(r) \/ return(r)
      PROVE  DBInv'
  BY <1>6, searchStep, getEntryStep, CurrentStep, GetBeginStep, GetListStep, GetFilesStep,
     GetFreedStep, returnStep
<1> QED BY <1>1, <1>2, <1>3, <1>4, <1>5, <1>6 DEF DBNext

-----------------------------------------------------------------------------
(* The inductive invariant holds in every reachable state, whatever the    *)
(* clients set, the readers get and the Writers and the Compacter move:    *)
(* search meets a get's key only through a set that overlaps the get, and  *)
(* the entry of any other get is further on in the direction it searches.  *)
THEOREM DBInductive == DBSpec => []DBInv
<1>1. DBInit => DBInv
  BY InitDBInv
<1>2. DBInv /\ [DBNext]_dbVars => DBInv'
  BY NextDBInv
<1> QED BY <1>1, <1>2, PTL DEF DBSpec

(* Every variable of the store has the type the code gives it: numbers and *)
(* entries as setKey makes them, a ring that is never overfull, readers    *)
(* with versions that were made.                                           *)
THEOREM DBTypeCorrect == DBSpec => []DBTypeOK
<1>1. DBInv => DBTypeOK
  BY DEF DBInv
<1> QED BY <1>1, DBInductive, PTL

(* getValue answers with exactly the last entry of its key when no set of  *)
(* the key overlaps it, that entry is in memory and the version it looked  *)
(* at was not freed under it: ring, active list and frozen lists are       *)
(* searched in the direction in which Writers and Compacter move entries.  *)
(* The search of the ring takes as many steps as the code does, and an     *)
(* answer of it that pairs one entry's key with another's number is only   *)
(* given to a get that a set of the key overlaps: an entry of the key was  *)
(* in the ring, or was put there, after the get read r_ptr.                *)
THEOREM QuietReadCorrect == DBSpec => []QuietReadIsExact
<1>1. DBInv => QuietReadIsExact
  <2> SUFFICES ASSUME DBInv, NEW r \in Readers, QuietGet(r),
                      InMemory(writerID[rkey[r]], LatestRank(rkey[r]))
               PROVE  answer[r] = Latest(rkey[r])
    BY DEF QuietReadIsExact
  <2> DEFINE k == rkey[r]
             v == curr_[r]
             n == LatestRank(k)
  <2>1. DBTypeOK /\ TypeOK
    BY DEF DBInv, IInv
  <2>2. k \in Keys /\ v \in Nat
    BY <2>1, DBTypes
  <2>3. n \in Nat
    BY <2>1, <2>2, LatestIs
  <2>4. Where(r, k, v, n)
    BY <2>2, <2>3 DEF DBInv, WhereInv
  <2>5. Quiet(r, k) /\ rpc[r] = "done" /\ ~Pending(k) /\ (v # 0 => ~freed(v))
    BY DEF QuietGet, Quiet
  <2> QED BY <2>4, <2>5 DEF Where
<1> QED BY <1>1, DBInductive, PTL

(* Whatever clients and readers do, freezing and compaction in the whole   *)
(* store are a behaviour of VersionSet, so that what is proved of the      *)
(* versions, the frozen lists and the table files holds of the store.      *)
THEOREM DBImplementsVersionSet == DBSpec => Spec
<1>1. DBInit => Init
  BY DEF DBInit
<1>2. [DBNext]_dbVars => [Next]_vars
  BY DBStepIsStep
<1> QED BY <1>1, <1>2, PTL DEF DBSpec, Spec

(* Compaction in the whole store is one atomic step of the abstract store  *)
(* of frozen lists.                                                        *)
THEOREM DBCompactionIsAtomic == DBSpec => CompactionIsAtomic
  BY DBImplementsVersionSet, CompactionImplementsStore
=============================================================================
