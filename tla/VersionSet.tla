----------------------------- MODULE VersionSet -----------------------------
(***************************************************************************)
(* Frozen lists, versions and compaction.  A Writer whose active list is   *)
(* full hands it to VersionSet::AppendFrozenList, which makes the Writer   *)
(* sleep on compact_lock_ while the current version holds kMaxFrozenList   *)
(* lists.  The Compacter polls the current version without a lock; when it *)
(* is full it merges the frozen lists into a level-0 table, builds the     *)
(* next version, frees the current one, installs the next and broadcasts.  *)
(*                                                                         *)
(* A list is identified by its Writer and its rank among the Writer's      *)
(* lists.  A version that was freed may still be reached through current_: *)
(* what is read there is arbitrary, and a list stored there is gone.       *)
(***************************************************************************)
EXTENDS Integers, Sequences, FiniteSets, SequencesExt

CONSTANTS
  kMaxWriter,       \* Writer threads (4 in env.h)
  kMaxFrozenList,   \* lists at which a version is full (10 in env.h)
  MaxLists,         \* bound: lists each Writer fills
  MaxSpurious,      \* bound: wake-ups of pthread_cond_wait without a broadcast
  MaxFailures       \* bound: tables that could not be written

ASSUME VersionSetAssumption ==
  /\ kMaxWriter \in Nat \ {0}
  /\ kMaxFrozenList \in Nat \ {0}
  /\ MaxLists \in Nat
  /\ MaxSpurious \in Nat /\ MaxFailures \in Nat

Writers == 1 .. kMaxWriter
NoWriter == 0
Ranks == 1 .. MaxLists

VARIABLES
  versions,   \* every version ever made, oldest first
  current_,   \* index of the version current_ points to
  tables,     \* per table file, the lists merged into it, and whether all went well
  fileRefs,   \* per table file, FileMetaData::refs
  mutex_,     \* holder of compact_lock_'s mutex
  cond_,      \* Writers asleep on its condition variable
  pc,         \* where each Writer is
  ptr,        \* the version AppendList works on, per Writer
  filled,     \* rank of the list each Writer fills or hands over
  cpc,        \* where the Compacter is
  cidx,       \* the Writer whose lists it merges next
  merged,     \* per Writer, the lists merged so far
  stopFLAG,   \* CompacterConfig::stopFLAG
  spurious,   \* spurious wake-ups so far
  late        \* lists stored in a version that was full or freed

setVars == <<versions, current_, tables, fileRefs>>
lockVars == <<mutex_, cond_>>
writerVars == <<pc, ptr, filled>>
compacterVars == <<cpc, cidx, merged>>
ghostVars == <<spurious, late>>
vars == <<setVars, lockVars, writerVars, compacterVars, stopFLAG, ghostVars>>

-----------------------------------------------------------------------------
NoLists == [w \in Writers |-> <<>>]

NewVersion(files) ==
  [list_ |-> NoLists, list_count_ |-> 0, files_ |-> files, state |-> "new"]

full(v) == versions[v].list_count_ >= kMaxFrozenList
freed(v) == versions[v].state = "freed"

(* What isFull may return: anything when the version has been freed.       *)
isFull(v) == IF freed(v) THEN BOOLEAN ELSE {full(v)}

(* The constructor of VersionSet installs an empty version.                *)
Init ==
  /\ versions = << [NewVersion(<<>>) EXCEPT !.state = "live"] >>
  /\ current_ = 1
  /\ tables = <<>>
  /\ fileRefs = <<>>
  /\ mutex_ = NoWriter
  /\ cond_ = {}
  /\ pc = [w \in Writers |-> "fill"]
  /\ ptr = [w \in Writers |-> 0]
  /\ filled = [w \in Writers |-> 1]
  /\ cpc = "poll"
  /\ cidx = 1
  /\ merged = NoLists
  /\ stopFLAG = FALSE
  /\ spurious = 0
  /\ late = {}

-----------------------------------------------------------------------------
(* AppendFrozenList, for Writer w.                                         *)

(* mayInsertMessage: the active list has reached kMaxActiveListSize.       *)
listFull(w) ==
  /\ pc[w] = "fill"
  /\ filled[w] <= MaxLists
  /\ pc' = [pc EXCEPT ![w] = "lock"]
  /\ UNCHANGED <<setVars, lockVars, ptr, filled, compacterVars, stopFLAG, ghostVars>>

Lock(w) ==
  /\ pc[w] = "lock"
  /\ mutex_ = NoWriter
  /\ mutex_' = w
  /\ pc' = [pc EXCEPT ![w] = "check"]
  /\ UNCHANGED <<setVars, cond_, ptr, filled, compacterVars, stopFLAG, ghostVars>>

(* Variant without the test.                                               *)
checkNothing(w) ==
  /\ pc[w] = "check"
  /\ pc' = [pc EXCEPT ![w] = "append"]
  /\ UNCHANGED <<setVars, lockVars, ptr, filled, compacterVars, stopFLAG, ghostVars>>

checkFull(w) ==
  /\ pc[w] = "check"
  /\ \E b \in isFull(current_) :
       pc' = [pc EXCEPT ![w] = IF b THEN "wait" ELSE "append"]
  /\ UNCHANGED <<setVars, lockVars, ptr, filled, compacterVars, stopFLAG, ghostVars>>

(* pthread_cond_wait releases the mutex and sleeps in one step, ...        *)
Wait(w) ==
  /\ pc[w] = "wait"
  /\ mutex_' = NoWriter
  /\ cond_' = cond_ \cup {w}
  /\ pc' = [pc EXCEPT ![w] = "asleep"]
  /\ UNCHANGED <<setVars, ptr, filled, compacterVars, stopFLAG, ghostVars>>

(* ... may return though nobody called broadcast, ...                      *)
wakeSpuriously(w) ==
  /\ w \in cond_
  /\ spurious < MaxSpurious
  /\ spurious' = spurious + 1
  /\ cond_' = cond_ \ {w}
  /\ pc' = [pc EXCEPT ![w] = "woken"]
  /\ UNCHANGED <<setVars, mutex_, ptr, filled, compacterVars, stopFLAG, late>>

(* ... and takes the mutex before it returns.  The Writer then appends     *)
(* without looking at isFull again.                                        *)
relock(w) ==
  /\ pc[w] = "woken"
  /\ mutex_ = NoWriter
  /\ mutex_' = w
  /\ pc' = [pc EXCEPT ![w] = "append"]
  /\ UNCHANGED <<setVars, cond_, ptr, filled, compacterVars, stopFLAG, ghostVars>>

(* current_->AppendList reads current_ ...                                 *)
readCurrent(w) ==
  /\ pc[w] = "append"
  /\ ptr' = [ptr EXCEPT ![w] = current_]
  /\ pc' = [pc EXCEPT ![w] = "push"]
  /\ UNCHANGED <<setVars, lockVars, filled, compacterVars, stopFLAG, ghostVars>>

(* ... stores the list ...                                                 *)
pushBack(w) ==
  LET v == ptr[w]
  IN /\ pc[w] = "push"
     /\ versions' = IF freed(v) THEN versions
                    ELSE [versions EXCEPT ![v].list_[w] = Append(@, filled[w])]
     /\ late' = IF freed(v) \/ full(v) THEN late \cup {<<w, filled[w]>>} ELSE late
     /\ pc' = [pc EXCEPT ![w] = "count"]
     /\ UNCHANGED <<current_, tables, fileRefs, lockVars, ptr, filled,
                    compacterVars, stopFLAG, spurious>>

(* ... counts it, and AppendFrozenList returns.                            *)
countAndUnlock(w) ==
  LET v == ptr[w]
  IN /\ pc[w] = "count"
     /\ versions' = IF freed(v) THEN versions
                    ELSE [versions EXCEPT ![v].list_count_ = @ + 1]
     /\ mutex_' = NoWriter
     /\ filled' = [filled EXCEPT ![w] = @ + 1]
     /\ pc' = [pc EXCEPT ![w] = "fill"]
     /\ UNCHANGED <<current_, tables, fileRefs, cond_, ptr, compacterVars,
                    stopFLAG, ghostVars>>

AppendFrozenList(w) ==
  \/ Lock(w) \/ checkFull(w) \/ Wait(w) \/ relock(w) \/ readCurrent(w)
  \/ pushBack(w) \/ countAndUnlock(w)

-----------------------------------------------------------------------------
(* Compacter::workRound.                                                   *)

(* Variant that tests == where isFull has >=.                              *)
pollExact ==
  /\ cpc = "poll"
  /\ ~stopFLAG
  /\ versions[current_].list_count_ = kMaxFrozenList
  /\ cpc' = "merge"
  /\ cidx' = 1
  /\ merged' = NoLists
  /\ UNCHANGED <<setVars, lockVars, writerVars, stopFLAG, ghostVars>>

(* Only the Compacter changes current_, so what it polls is not freed.     *)
poll ==
  /\ cpc = "poll"
  /\ ~stopFLAG
  /\ full(current_)
  /\ cpc' = "merge"
  /\ cidx' = 1
  /\ merged' = NoLists
  /\ UNCHANGED <<setVars, lockVars, writerVars, stopFLAG, ghostVars>>

(* Variant that begins with the second list.                               *)
mergeFromSecond ==
  /\ cpc = "merge"
  /\ cidx \in Writers
  /\ merged' = [merged EXCEPT ![cidx] =
                  SubSeq(versions[current_].list_[cidx], 2, Len(versions[current_].list_[cidx]))]
  /\ cidx' = cidx + 1
  /\ UNCHANGED <<setVars, lockVars, writerVars, cpc, stopFLAG, ghostVars>>

(* MergeIterator reads the frozen lists Writer by Writer, with no lock.    *)
merge ==
  /\ cpc = "merge"
  /\ cidx \in Writers
  /\ merged' = [merged EXCEPT ![cidx] = versions[current_].list_[cidx]]
  /\ cidx' = cidx + 1
  /\ UNCHANGED <<setVars, lockVars, writerVars, cpc, stopFLAG, ghostVars>>

(* BuildTable writes what was merged to a new file.  It answers OK also    *)
(* when a write, the sync or the close failed: the compaction goes on.     *)
Failed == {f \in DOMAIN tables : ~tables[f].whole}

BuildTable ==
  /\ cpc = "merge"
  /\ cidx \notin Writers
  /\ \E whole \in BOOLEAN :
       /\ whole \/ Cardinality(Failed) < MaxFailures
       /\ tables' = Append(tables, [lists |-> merged, whole |-> whole])
  /\ fileRefs' = Append(fileRefs, 0)
  /\ cpc' = "apply"
  /\ UNCHANGED <<versions, current_, lockVars, writerVars, cidx, merged,
                 stopFLAG, ghostVars>>

InFiles(f, v) == \E i \in DOMAIN v.files_ : v.files_[i] = f

(* Variants that forget the current version's files and that number the    *)
(* new file one too high.                                                  *)
applyForgetful ==
  LET v == NewVersion(<<Len(tables)>>)
  IN /\ cpc = "apply"
     /\ versions' = Append(versions, v)
     /\ fileRefs' = [f \in DOMAIN fileRefs |->
                       IF InFiles(f, v) THEN fileRefs[f] + 1 ELSE fileRefs[f]]
     /\ cpc' = "unref"
     /\ UNCHANGED <<current_, tables, lockVars, writerVars, cidx, merged,
                    stopFLAG, ghostVars>>

applyMisnumbered ==
  LET v == NewVersion(Append(versions[current_].files_, Len(tables) + 1))
  IN /\ cpc = "apply"
     /\ versions' = Append(versions, v)
     /\ fileRefs' = [f \in DOMAIN fileRefs |->
                       IF InFiles(f, v) THEN fileRefs[f] + 1 ELSE fileRefs[f]]
     /\ cpc' = "unref"
     /\ UNCHANGED <<current_, tables, lockVars, writerVars, cidx, merged,
                    stopFLAG, ghostVars>>

(* apply adds it to the current version's files in a new version, ...  *)
apply ==
  LET v == NewVersion(Append(versions[current_].files_, Len(tables)))
  IN /\ cpc = "apply"
     /\ versions' = Append(versions, v)
     /\ fileRefs' = [f \in DOMAIN fileRefs |->
                       IF InFiles(f, v) THEN fileRefs[f] + 1 ELSE fileRefs[f]]
     /\ cpc' = "unref"
     /\ UNCHANGED <<current_, tables, lockVars, writerVars, cidx, merged,
                    stopFLAG, ghostVars>>

(* Variant without the unref of the files in ~Version.                     *)
UnrefKeepingFiles ==
  /\ cpc = "unref"
  /\ versions' = [versions EXCEPT ![current_].state = "freed"]
  /\ cpc' = "install"
  /\ UNCHANGED <<current_, tables, fileRefs, lockVars, writerVars, cidx, merged,
                 stopFLAG, ghostVars>>

(* ... AppendVersion frees the current version, with its frozen lists,     *)
Unref ==
  /\ cpc = "unref"
  /\ versions' = [versions EXCEPT ![current_].state = "freed"]
  /\ fileRefs' = [f \in DOMAIN fileRefs |->
                    IF InFiles(f, versions[current_]) THEN fileRefs[f] - 1
                                                      ELSE fileRefs[f]]
  /\ cpc' = "install"
  /\ UNCHANGED <<current_, tables, lockVars, writerVars, cidx, merged,
                 stopFLAG, ghostVars>>

(* and only then makes the new one current; ...                            *)
install ==
  /\ cpc = "install"
  /\ current_' = Len(versions)
  /\ versions' = [versions EXCEPT ![Len(versions)].state = "live"]
  /\ cpc' = "broadcast"
  /\ UNCHANGED <<tables, fileRefs, lockVars, writerVars, cidx, merged, stopFLAG,
                 ghostVars>>

(* ... at last the sleeping Writers are woken, without the mutex.          *)
Boardcast ==
  /\ cpc = "broadcast"
  /\ pc' = [w \in Writers |-> IF w \in cond_ THEN "woken" ELSE pc[w]]
  /\ cond_' = {}
  /\ cpc' = "poll"
  /\ UNCHANGED <<setVars, mutex_, ptr, filled, cidx, merged, stopFLAG, ghostVars>>

quit ==
  /\ cpc = "poll"
  /\ stopFLAG
  /\ cpc' = "quit"
  /\ UNCHANGED <<setVars, lockVars, writerVars, cidx, merged, stopFLAG, ghostVars>>

Compacter == \/ poll \/ merge \/ BuildTable \/ apply \/ Unref \/ install
             \/ Boardcast \/ quit

stop ==
  /\ ~stopFLAG
  /\ stopFLAG' = TRUE
  /\ UNCHANGED <<setVars, lockVars, writerVars, compacterVars, ghostVars>>

Next == \/ \E w \in Writers : listFull(w) \/ AppendFrozenList(w) \/ wakeSpuriously(w)
        \/ Compacter
        \/ stop

Spec == Init /\ [][Next]_vars

(* Threads are scheduled.  A Writer need not fill another list, nobody has *)
(* to stop the system and no wake-up without a broadcast has to happen.    *)
FairSpec == /\ Spec
            /\ WF_vars(Compacter)
            /\ \A w \in Writers : SF_vars(AppendFrozenList(w))

-----------------------------------------------------------------------------
Version == [list_ : [Writers -> Seq(Ranks)], list_count_ : Nat,
            files_ : Seq(DOMAIN tables), state : {"new", "live", "freed"}]

TypeOK ==
  /\ versions \in Seq(Version)
  /\ current_ \in DOMAIN versions
  /\ tables \in Seq([lists : [Writers -> Seq(Ranks)], whole : BOOLEAN])
  /\ fileRefs \in [DOMAIN tables -> Nat]
  /\ mutex_ \in Writers \cup {NoWriter}
  /\ cond_ \subseteq Writers
  /\ pc \in [Writers -> {"fill", "lock", "check", "wait", "asleep", "woken",
                         "append", "push", "count"}]
  /\ ptr \in [Writers -> {0} \cup DOMAIN versions]
  /\ filled \in [Writers -> 1 .. MaxLists + 1]
  /\ cpc \in {"poll", "merge", "apply", "unref", "install", "broadcast", "quit"}
  /\ cidx \in 1 .. kMaxWriter + 1
  /\ merged \in [Writers -> Seq(Ranks)]
  /\ stopFLAG \in BOOLEAN
  /\ spurious \in 0 .. MaxSpurious
  /\ late \subseteq Writers \X Ranks

(* What version v leads to: the lists of Writer w in each of its tables,   *)
(* oldest table first (in one that failed, none), then its frozen lists.   *)
OnDisk(v, w) ==
  [i \in DOMAIN versions[v].files_ |->
     LET table == tables[versions[v].files_[i]]
     IN IF table.whole THEN table.lists[w] ELSE <<>>]
Segments(w) == Append(OnDisk(current_, w), versions[current_].list_[w])

Unsaved(w) == UNION {{tables[f].lists[w][p] : p \in DOMAIN tables[f].lists[w]} : f \in Failed}

(* A list stored while the version was not full is lost only with a table  *)
(* that could not be written: otherwise it is in the current version or in *)
(* one of its tables whatever the Compacter is doing, and what is there of *)
(* one Writer is in the order it was filled, each list once, so that newer *)
(* entries win in merges and lookups.                                      *)
HistoryKept ==
  ~freed(current_) =>
    \A w \in Writers :
      LET s == Segments(w)
      IN /\ \A i, j \in DOMAIN s : \A p \in DOMAIN s[i], q \in DOMAIN s[j] :
              i < j \/ (i = j /\ p < q) => s[i][p] < s[j][q]
         /\ \A n \in 1 .. filled[w] - 1 : <<w, n>> \notin late /\ n \notin Unsaved(w) =>
              \E i \in DOMAIN s : \E p \in DOMAIN s[i] : s[i][p] = n

(* The merge without a lock, the freeing of the old version, the           *)
(* installation of the new one and the Writers between them are as one     *)
(* step of FrozenLists: from the moment the old version is freed, the one  *)
(* made last counts.                                                       *)
visible == IF freed(current_) THEN Len(versions) ELSE current_
Store == INSTANCE FrozenLists WITH
           disk <- [w \in Writers |-> FlattenSeq(OnDisk(visible, w))],
           memory <- [w \in Writers |-> versions[visible].list_[w]]
CompactionIsAtomic == Store!Spec

(* AppendFrozenList tests isFull with an if, not a while, so a woken Writer *)
(* appends to the current version even when it is full.  Each Writer may do *)
(* so twice: once when an earlier broadcast woke it and the version was     *)
(* installed before it went on, and once when it filled the version, slept  *)
(* and was woken by the broadcast that follows the installation.            *)
OverfillBound ==
  \A v \in DOMAIN versions :
    versions[v].list_count_ <= kMaxFrozenList + 2 * kMaxWriter - 1 + spurious

(* A table file is referenced by exactly the versions that were not freed  *)
(* and list it, so a file of the current version always has a reference.   *)
RefsMatch ==
  \A f \in DOMAIN fileRefs :
    fileRefs[f] = Cardinality({v \in DOMAIN versions :
                                 ~freed(v) /\ InFiles(f, versions[v])})

(* A full version is compacted and replaced, whatever the Writers do and   *)
(* whoever holds compact_lock_, unless the system is stopped.              *)
FullIsCompacted ==
  \A v \in 1 .. kMaxWriter * MaxLists :
    (v = current_ /\ full(v)) ~> (v # current_ \/ stopFLAG)

(* "cease the write process, waiting for compact" (env.h): a Writer that   *)
(* waits goes on when a compaction has made room.                          *)
WaiterResumes ==
  \A w \in Writers : pc[w] = "asleep" ~> (pc[w] # "asleep" \/ stopFLAG)
=============================================================================
