----------------------------- MODULE FilterBlock -----------------------------
(***************************************************************************)
(* The filter block of a table (table/filter_block.cpp): a filter for each *)
(* kFilterBase bytes of the file, for the keys of the data blocks that     *)
(* begin there.  The file is in no build target and TableBuilder's calls   *)
(* of it are commented out; the module is those calls and what they do.    *)
(*                                                                         *)
(* A FilterPolicy is an interface without an implementation.  Here it is   *)
(* the exact one, whose filter is its keys, one element each: whatever it  *)
(* answers wrongly is then the doing of the block.                         *)
(***************************************************************************)
EXTENDS Coding, SequencesExt

CONSTANT kFilterBaseLg    \* 11 in filter_block.cpp, which shifts an int by it

ASSUME FilterBlockAssumption == kFilterBaseLg \in 0 .. 30

kFilterBase == 2^kFilterBaseLg

CreateFilter(keys) == keys
PolicyKeyMayMatch(key, filter) == key \in ToSet(filter)
-----------------------------------------------------------------------------
(* FilterBlockBuilder.                                                     *)
NewFilterBlock == [keys_ |-> <<>>, result_ |-> <<>>, filter_offsets_ |-> <<>>]

(* The filter of the keys that wait, none for no keys.                     *)
GenerateFilter(b) ==
  [keys_ |-> <<>>,
   result_ |-> IF b.keys_ = <<>> THEN b.result_ ELSE b.result_ \o CreateFilter(b.keys_),
   filter_offsets_ |-> Append(b.filter_offsets_, Len(b.result_))]

(* Filters until there is one for every stretch before block_offset's; a   *)
(* variant closes one stretch only.                                        *)
StartBlockOnce(b, block_offset) ==
  IF block_offset \div kFilterBase > Len(b.filter_offsets_) THEN GenerateFilter(b) ELSE b
StartBlock(b, block_offset) ==
  LET n == (block_offset \div kFilterBase) - Len(b.filter_offsets_)
      after[i \in 0 .. n] == IF i = 0 THEN b ELSE GenerateFilter(after[i - 1])
  IN IF n > 0 THEN after[n] ELSE b

(* AddKey, for each of keys.                                               *)
AddKeys(b, keys) == [b EXCEPT !.keys_ = @ \o keys]

(* The filters, where each begins, where that array begins, and the base.  *)
FinishFilter(b) ==
  LET f == IF b.keys_ = <<>> THEN b ELSE GenerateFilter(b)
  IN f.result_
       \o FlattenSeq([i \in DOMAIN f.filter_offsets_ |-> EncodeFixed(f.filter_offsets_[i], 4)])
       \o EncodeFixed(Len(f.result_), 4) \o <<kFilterBaseLg>>
-----------------------------------------------------------------------------
(* FilterBlockReader: contents too short or with an array past their end   *)
(* leave num_ at 0.                                                        *)
FilterReader(contents) ==
  LET n == Len(contents)
      last_word == DecodeFixed(SubSeq(contents, n - 4, n - 1))
  IN IF n < 5 \/ last_word > n - 5
     THEN [data_ |-> contents, offset_ |-> 0, num_ |-> 0, base_lg_ |-> 0]
     ELSE [data_ |-> contents, offset_ |-> last_word, num_ |-> (n - 5 - last_word) \div 4,
           base_lg_ |-> contents[n]]

(* The word behind the last offset is the array's own, where the last      *)
(* filter ends.                                                            *)
KeyMayMatch(r, block_offset, key) ==
  LET index == block_offset \div 2^r.base_lg_
      word(i) == DecodeFixed(SubSeq(r.data_, r.offset_ + 4 * i + 1, r.offset_ + 4 * i + 4))
      start == word(index)
      limit == word(index + 1)
  IN IF index >= r.num_ THEN TRUE
     ELSE IF start <= limit /\ limit <= r.offset_
          THEN PolicyKeyMayMatch(key, SubSeq(r.data_, start + 1, limit))
          ELSE start # limit
=============================================================================
