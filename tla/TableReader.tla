----------------------------- MODULE TableReader -----------------------------
(***************************************************************************)
(* A table that BuildTable finished (module TableBuilder) as bytes, and    *)
(* the code there is to read it: Footer::DecodeFrom, RandomAccessFile's    *)
(* Read, ReadBlock and Block (table/format.cpp, table/block.cpp), and the  *)
(* filter block that TableBuilder would write.  Nothing in the store calls *)
(* these yet; how they fit together is what the writer's comments and the  *)
(* format imply, and is stated with the properties.                        *)
(***************************************************************************)
EXTENDS TableBuilder, FilterBlock

kNoCompression == 0
-----------------------------------------------------------------------------
(* Finish: the restart points as offsets, and how many there are.          *)
BlockFinish(b) ==
  LET bytes(n) == Len(FlattenSeq([i \in 1 .. n |-> EntryBytes(b.entries[i])]))
  IN b.buffer \o FlattenSeq([i \in DOMAIN b.restarts |-> EncodeFixed(bytes(b.restarts[i]), 4)])
    \o EncodeFixed(Len(b.restarts), 4)

(* WriteRawBlock puts the type and a checksum of zero behind each block.   *)
WriteRawBlock(b) == BlockFinish(b) \o <<kNoCompression>> \o EncodeFixed(0, 4)
FileBytes(r) == FlattenSeq([j \in DOMAIN r.file |-> WriteRawBlock(r.file[j].block)]) \o r.footer
-----------------------------------------------------------------------------
(* What a pread of n bytes may return: any first part of what is there.    *)
pread(file, offset, n) ==
  LET there == SubSeq(file, offset + 1, offset + n)
  IN {SubSeq(there, 1, k) : k \in 0 .. Len(there)}

(* ReadBlock given what pread returned; a failed pread is refused like one *)
(* that returned too little.  The variant takes what it gets and leaves    *)
(* the rest of its buffer as it was.                                       *)
ReadBlockUnchecked(handle, contents) ==
  Read([i \in 1 .. handle.size |-> IF i <= Len(contents) THEN contents[i] ELSE 0], <<>>)
ReadBlock(handle, contents) ==
  IF /\ Len(contents) = handle.size + kBlockTrailerSize
     /\ contents[handle.size + 1] = kNoCompression
  THEN Read(SubSeq(contents, 1, handle.size), <<>>)
  ELSE Nothing

(* A Block over its contents; its size is 0 when they cannot be one.       *)
NumRestarts(data) == DecodeFixed(SubSeq(data, Len(data) - 3, Len(data)))
Block(data) ==
  IF Len(data) < 4 \/ NumRestarts(data) > (Len(data) - 4) \div 4
  THEN [data_ |-> data, size_ |-> 0, restart_offset_ |-> 0]
  ELSE [data_ |-> data, size_ |-> Len(data),
        restart_offset_ |-> Len(data) - (1 + NumRestarts(data)) * 4]
-----------------------------------------------------------------------------
(* A reader of the format, which the repository does not have: the entries *)
(* up to restart_offset_, each with its whole key, ...                     *)
NextEntry(s) ==
  LET shared == GetVarint32(s.rest)
      non_shared == GetVarint32(shared.rest)
      value_size == GetVarint32(non_shared.rest)
      key == SubSeq(s.key, 1, shared.value) \o SubSeq(value_size.rest, 1, non_shared.value)
      after == After(value_size.rest, non_shared.value)
  IN IF s.rest = <<>> THEN s
     ELSE [key |-> key,
           entries |-> Append(s.entries,
                              [key |-> key, value |-> SubSeq(after, 1, value_size.value)]),
           rest |-> After(after, value_size.value)]
EntriesOf(block) ==
  LET d == SubSeq(block.data_, 1, block.restart_offset_)
      n == Len(d) \div 3
      s[i \in 0 .. n] == IF i = 0 THEN [key |-> <<>>, entries |-> <<>>, rest |-> d]
                         ELSE NextEntry(s[i - 1])
  IN s[n].entries

(* ... the block of a handle, whole, ...                                   *)
EntriesAt(file, handle) ==
  LET contents == SubSeq(file, handle.offset + 1,
                         handle.offset + handle.size + kBlockTrailerSize)
  IN EntriesOf(Block(ReadBlock(handle, contents).value))

(* ... and the index, from the footer at the end of a file of file_size    *)
(* bytes.                                                                  *)
IndexOf(file) ==
  LET footer == DecodeFooter(SubSeq(file, file_size - kEncodedLength + 1, file_size))
  IN IF footer.ok THEN EntriesAt(file, footer.value.index_handle) ELSE <<>>

(* Every key BuildTable took from the lists is found in a table that has a *)
(* size, by its size, its footer and its index alone: in the block of the  *)
(* first index entry that is not below the key, and nowhere else.  The     *)
(* blocks in the order of the index have these keys and no others.         *)
TableReadsBack ==
  file_size # 0 =>
    LET file == FileBytes(rep_)
        index == IndexOf(file)
        blocks == [i \in DOMAIN index |->
                     EntriesAt(file, DecodeHandle(index[i].value).value)]
        First(key) == CHOOSE i \in DOMAIN index :
                        /\ LessEq(key, index[i].key)
                        /\ \A j \in 1 .. i - 1 : Less(index[j].key, key)
        In(block) == {e.key : e \in ToSet(block)}
    IN /\ Len(file) = file_size
       /\ index # <<>> /\ \A key \in ToSet(added) : LessEq(key, index[Len(index)].key)
       /\ \A key \in ToSet(added), i \in DOMAIN index : key \in In(blocks[i]) <=> i = First(key)
       /\ FlattenSeq([i \in DOMAIN blocks |-> [k \in DOMAIN blocks[i] |-> blocks[i][k].key]]) = added

(* A table that lost its end, or whose reads are cut short, is refused or  *)
(* read as it was: what ReadBlock returns for a handle is the block that   *)
(* was written there.                                                      *)
CutTableIsRefused ==
  file_size # 0 =>
    LET file == FileBytes(rep_)
    IN \A x \in ToSet(rep_.file) :
         \A contents \in pread(file, x.handle.offset, x.handle.size + kBlockTrailerSize) :
           LET data == ReadBlock(x.handle, contents)
           IN data.ok => data.value = BlockFinish(x.block) /\ Block(data.value).size_ # 0

(* The filter block the table would have.  The calls TableBuilder has in   *)
(* comments: StartBlock(0) at first, AddKey per key, StartBlock at the     *)
(* offset behind each block (table_builder.cpp:60, 104, 129, 189).         *)
FilterOf(blocks) ==
  LET builder[j \in 0 .. Len(blocks)] ==
        IF j = 0 THEN StartBlock(NewFilterBlock, 0)
        ELSE LET x == blocks[j]
             IN StartBlock(AddKeys(builder[j - 1], BlockKeys(x.block)),
                           x.handle.offset + x.handle.size + kBlockTrailerSize)
  IN FinishFilter(builder[Len(blocks)])

(* A block is passed over only when its filter excludes the key: no filter *)
(* misses a key of its block, and it has none of a block that begins in    *)
(* another stretch of the file.                                            *)
FilterMatchesItsBlock ==
  file_size # 0 =>
    LET reader == FilterReader(FilterOf(DataBlocks))
        Stretch(x) == x.handle.offset \div kFilterBase
    IN \A x \in ToSet(DataBlocks), key \in ToSet(added) :
         KeyMayMatch(reader, x.handle.offset, key) <=>
           \E y \in ToSet(DataBlocks) :
             Stretch(x) = Stretch(y) /\ key \in ToSet(BlockKeys(y.block))
=============================================================================
