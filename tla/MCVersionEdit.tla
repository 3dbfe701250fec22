---------------------------- MODULE MCVersionEdit ---------------------------
(* Edits of every combination of fields, at both ends of the levels, with  *)
(* up to two new files; edits of one file whose numbers and lengths are on *)
(* both sides of the steps of the encodings; and the edits that versions   *)
(* are built from: of one file, of two that share what was read, of none.  *)
EXTENDS VersionBuilder

Entry(klen, vlen, n) == [key |-> [i \in 1 .. klen |-> 65], value |-> [i \in 1 .. vlen |-> 255],
                         seq_num |-> n, value_type |-> n % 2 = 1]
File(n, size, smallest, largest) == [number |-> n, file_size |-> size,
                                     smallest |-> smallest, largest |-> largest]
NewFiles == {[level |-> 0, file |-> File(1, 200, Entry(1, 0, 1), Entry(2, 0, 300))],
             [level |-> kMaxLevel - 1, file |-> File(300, 200, Entry(0, 1, 0), Entry(1, 1, 2))]}

FieldEdits ==
  [log_number_ : {Unset, [w \in 0 .. kMaxWriter - 1 |-> IF w = 1 THEN 300 ELSE 0]},
   prev_log_number_ : {Unset, 300}, next_file_number_ : {Unset, 1},
   last_sequence_ : {Unset, 128},
   deleted_files_ : SUBSET {<<0, 300>>, <<kMaxLevel - 1, 1>>},
   new_files_ : {<<>>} \cup {<<n>> : n \in NewFiles} \cup {<<m, n>> : m, n \in NewFiles}]

OneFile(m) == [Clear EXCEPT !.new_files_ = <<[level |-> 1, file |-> m]>>]
SizeEdits ==
  {OneFile(File(n, n + 1, Entry(118, 126, n), Entry(119, 127, n + 1))) :
     n \in {127, 255, 16383, 65535, 2097151, 268435455}}

Key(b) == [Entry(1, 1, b) EXCEPT !.key = <<b>>]
MCKeyRanges == {<<Key(1), Key(1)>>, <<Key(1), Key(2)>>, <<Key(2), Key(3)>>}
AnyRange(level, r) == [level |-> level, file |-> File(1, 1, r[1], r[2])]
MCRecorded ==
  {Clear, [Clear EXCEPT !.deleted_files_ = {<<1, 1>>}]}
    \cup {[Clear EXCEPT !.new_files_ = <<AnyRange(1, r)>>] : r \in MCKeyRanges}
    \cup {[Clear EXCEPT !.new_files_ = <<AnyRange(0, r), [AnyRange(1, r) EXCEPT !.file.number = 2]>>] :
             r \in {<<Key(1), Key(2)>>}}

MCEdits == FieldEdits \cup SizeEdits \cup MCRecorded
=============================================================================
