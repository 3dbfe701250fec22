---------------------------- MODULE TableBuilder ----------------------------
(***************************************************************************)
(* BuildTable (main/builder.cpp) writing one table through TableBuilder    *)
(* and BlockBuilder (table/).  The keys come from MergeIterator's map, so  *)
(* in order and each once.  A block is its list of entries, prefix         *)
(* compressed as in the code, and the buffer of their bytes; the file is   *)
(* the list of the blocks that were appended.  Any Append or Flush of the  *)
(* file can fail (module WritableFile), which ends the writing.            *)
(***************************************************************************)
EXTENDS Comparator, Coding, SequencesExt

CONSTANTS
  KeySets,       \* the sets of keys a compaction may hand over
  ValueSizes,    \* sizes of values in bytes
  block_size,
  block_restart_interval

ASSUME TableBuilderAssumption ==
  /\ KeySets \subseteq SUBSET Bytes /\ {} \notin KeySets
  /\ ValueSizes \subseteq Nat
  /\ block_size \in Nat /\ block_restart_interval \in Nat \ {0}

kBlockTrailerSize == 5

VARIABLES
  iter,        \* the keys MergeIterator has still to return
  added,       \* the keys given to Add, in that order
  rep_,        \* the TableBuilder
  file_size,   \* of the FileMetaData
  pc           \* where BuildTable is

vars == <<iter, added, rep_, file_size, pc>>
-----------------------------------------------------------------------------
(* BlockBuilder.                                                           *)
EmptyBlock == [entries |-> <<>>, buffer |-> <<>>, restarts |-> <<0>>, counter |-> 0,
               last_key |-> <<>>]

(* In the buffer: three lengths, the part of the key not shared and the    *)
(* value.                                                                  *)
EntryBytes(e) ==
  PutVarint(e.shared) \o PutVarint(Len(e.delta)) \o PutVarint(Len(e.value))
    \o e.delta \o e.value

(* Four bytes more per restart point and four for their number.            *)
CurrentSizeEstimate(b) == Len(b.buffer) + 4 * Len(b.restarts) + 4

(* Variants: a restart point one entry late, and one with a shared prefix. *)
atRestartLate(b, interval) == b.counter > interval
atRestart(b, interval) == b.counter >= interval

prefixAlways(b, key, interval) == diff_index(b.last_key, key)
prefix(b, key, interval) ==
  IF atRestart(b, interval) THEN 0 ELSE diff_index(b.last_key, key)

(* A restart point is the place of an entry whose key is stored whole.     *)
BlockAdd(b, key, value, interval) ==
  LET shared == prefix(b, key, interval)
      delta == SubSeq(key, shared + 1, Len(key))
      e == [shared |-> shared, delta |-> delta, value |-> value]
  IN [entries |-> Append(b.entries, e),
      buffer |-> b.buffer \o EntryBytes(e),
      restarts |-> IF atRestart(b, interval) THEN Append(b.restarts, Len(b.entries))
                   ELSE b.restarts,
      counter |-> IF atRestart(b, interval) THEN 1 ELSE b.counter + 1,
      last_key |-> SubSeq(b.last_key, 1, shared) \o delta]

(* Reset empties everything, last_key_ too.                                *)
Reset(b) == EmptyBlock
-----------------------------------------------------------------------------
(* TableBuilder: its operations take and return its Rep.                   *)
NoHandle == [offset |-> 0, size |-> 0]
NewTable ==
  [offset |-> 0, ok |-> TRUE, closed |-> FALSE, num_entries |-> 0,
   data_block |-> EmptyBlock, index_block |-> EmptyBlock, last_key |-> <<>>,
   pending_index_entry |-> FALSE, pending_handle |-> NoHandle,
   file |-> <<>>, footer |-> <<>>]

Handle(r, b) == [offset |-> r.offset, size |-> CurrentSizeEstimate(b)]

(* Both Appends of WriteRawBlock succeed, or one fails and offset stays.   *)
WriteBlock(r, b, ok) ==
  IF ok THEN [r EXCEPT !.file = Append(@, [handle |-> Handle(r, b), block |-> b]),
                       !.offset = @ + CurrentSizeEstimate(b) + kBlockTrailerSize]
  ELSE [r EXCEPT !.ok = FALSE]

Flush(r, okWrite, okFlush) ==
  IF ~r.ok \/ r.data_block.entries = <<>> THEN r
  ELSE [WriteBlock(r, r.data_block, okWrite) EXCEPT
         !.data_block = Reset(r.data_block),
         !.pending_handle = Handle(r, r.data_block),
         !.pending_index_entry = okWrite,
         !.ok = okWrite /\ okFlush]

(* The index entry of the block before.                                    *)
AddIndexEntry(r, key) ==
  [r EXCEPT !.last_key = key,
            !.index_block = BlockAdd(@, key, EncodeHandle(r.pending_handle), 1),
            !.pending_index_entry = FALSE]

blockFull(b) == CurrentSizeEstimate(b) >= block_size

Add(r, key, value, okWrite, okFlush) ==
  IF ~r.ok THEN r
  ELSE LET i == IF ~r.pending_index_entry THEN r
                ELSE AddIndexEntry(r, FindShortestSeparator(r.last_key, key))
           d == [i EXCEPT !.last_key = key,
                          !.num_entries = @ + 1,
                          !.data_block = BlockAdd(@, key, value, block_restart_interval)]
       IN IF blockFull(d.data_block) THEN Flush(d, okWrite, okFlush) ELSE d

(* Variant of Finish that forgets the entry of the last block.             *)
noLastEntry(r) == r
addLastEntry(r) ==
  IF r.pending_index_entry THEN AddIndexEntry(r, FindShortSuccessor(r.last_key)) ELSE r

(* The blocks of the index and of the table stay in Rep for the properties *)
(* below and of TableReader; the code empties the index block once it is   *)
(* written.                                                                *)
Finish(r, okWrite, okFlush, okMeta, okIndex, okFooter) ==
  LET f == [Flush(r, okWrite, okFlush) EXCEPT !.closed = TRUE]
      m == IF f.ok THEN WriteBlock(f, EmptyBlock, okMeta) ELSE f
      i == IF m.ok THEN addLastEntry(m) ELSE m
      x == IF i.ok THEN WriteBlock(i, i.index_block, okIndex) ELSE i
  IN IF ~x.ok THEN x
     ELSE IF ~okFooter THEN [x EXCEPT !.ok = FALSE]
     ELSE [x EXCEPT !.footer = EncodeFooter([metaindex_handle |-> Handle(f, EmptyBlock),
                                             index_handle |-> Handle(i, i.index_block)]),
                    !.offset = @ + kEncodedLength]
-----------------------------------------------------------------------------
Init ==
  /\ iter \in KeySets
  /\ added = <<>>
  /\ rep_ = NewTable
  /\ file_size = 0
  /\ pc = "add"

GetNext(key) == key \in iter /\ \A k \in iter : LessEq(key, k)

addEntry ==
  /\ pc = "add"
  /\ \E key \in iter, size \in ValueSizes, okWrite, okFlush \in BOOLEAN :
       /\ GetNext(key)
       /\ iter' = iter \ {key}
       /\ added' = Append(added, key)
       /\ rep_' = Add(rep_, key, [i \in 1 .. size |-> 255], okWrite, okFlush)
  /\ UNCHANGED <<file_size, pc>>

(* What Sync and Close return is not looked at: BuildTable is OK anyway.   *)
finish ==
  /\ pc = "add" /\ iter = {}
  /\ \E okWrite, okFlush, okMeta, okIndex, okFooter \in BOOLEAN :
       rep_' = Finish(rep_, okWrite, okFlush, okMeta, okIndex, okFooter)
  /\ file_size' = IF rep_'.ok THEN rep_'.offset ELSE 0
  /\ pc' = "done"
  /\ UNCHANGED <<iter, added>>

Next == addEntry \/ finish

Spec == Init /\ [][Next]_vars
-----------------------------------------------------------------------------
(* Blocks have the shape BlockBuilder asserts: a counter within the        *)
(* restart interval.  "pending_index_entry is true only if data_block is   *)
(* empty" (table_builder.cpp:34).                                          *)
TypeOK ==
  /\ iter \in SUBSET Bytes /\ added \in Seq(Bytes)
  /\ rep_.data_block.counter \in 0 .. block_restart_interval
  /\ rep_.index_block.counter \in 0 .. 1
  /\ rep_.offset \in Nat /\ rep_.ok \in BOOLEAN /\ rep_.closed = (pc = "done")
  /\ rep_.last_key \in Bytes /\ rep_.num_entries \in 0 .. Len(added)
  /\ rep_.pending_index_entry \in BOOLEAN
  /\ rep_.pending_index_entry => rep_.data_block.entries = <<>>
  /\ file_size \in Nat
  /\ pc \in {"add", "done"}

(* The keys a reader of the whole block sees.                              *)
BlockKeys(b) ==
  LET key[i \in DOMAIN b.entries] ==
        (IF i = 1 THEN <<>> ELSE SubSeq(key[i - 1], 1, b.entries[i].shared))
          \o b.entries[i].delta
  IN key

(* All blocks but the last two of a finished table; nobody reads one whose *)
(* Finish failed.                                                          *)
DataBlocks == CASE pc = "add" -> rep_.file
                [] pc = "done" /\ rep_.footer # <<>> ->
                     SubSeq(rep_.file, 1, Len(rep_.file) - 2)
                [] OTHER -> <<>>

(* A reader that seeks begins at a restart point: keys there are whole,    *)
(* and it has at most an interval of entries to walk.                      *)
RestartsAreWhole ==
  \A b \in {rep_.data_block, rep_.index_block} \cup {x.block : x \in ToSet(rep_.file)} :
    \A i \in DOMAIN b.restarts :
      /\ b.restarts[i] + 1 \in DOMAIN b.entries => b.entries[b.restarts[i] + 1].shared = 0
      /\ (IF i = Len(b.restarts) THEN Len(b.entries) ELSE b.restarts[i + 1])
           - b.restarts[i] <= block_restart_interval

(* Entry j of the index leads to block j, under a key that no key of the   *)
(* block exceeds and that is below every key after it, those of the index  *)
(* too: BlockBuilder asserts that keys ascend (block_builder.cpp:48).      *)
IndexSeparates ==
  \A j \in DOMAIN rep_.index_block.entries \cap DOMAIN DataBlocks :
    LET key == BlockKeys(rep_.index_block)[j]
    IN /\ rep_.index_block.entries[j].value = EncodeHandle(rep_.file[j].handle)
       /\ \A k \in ToSet(BlockKeys(rep_.file[j].block)) : LessEq(k, key)
       /\ \A i \in j + 1 .. Len(DataBlocks) :
            \A k \in ToSet(BlockKeys(DataBlocks[i].block)) : Less(key, k)
       /\ \A k \in ToSet(BlockKeys(rep_.data_block)) : Less(key, k)
       /\ \A i \in 1 .. j - 1 : Less(BlockKeys(rep_.index_block)[i], key)

=============================================================================
