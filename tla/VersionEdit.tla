---------------------------- MODULE VersionEdit -----------------------------
(***************************************************************************)
(* The record of a change of versions as bytes and back                    *)
(* (main/versionedit.cpp).  EncodeTo writes the fields that are set, each  *)
(* behind a tag; DecodeFrom takes one field a round.  All new files it     *)
(* reads share one FileMetaData, allocated before the loop.  The bytes may *)
(* have been cut at any place.                                             *)
(*                                                                         *)
(* The log numbers of an edit (SetLogNumber) have a tag, kLogNumber, that  *)
(* EncodeTo never writes and DecodeFrom does not know.  Left out are       *)
(* has_comparator_, which nothing sets, and deleted_lists_, pointers to    *)
(* lists in memory, which have no tag.                                     *)
(***************************************************************************)
EXTENDS Coding

CONSTANTS
  Edits,       \* the edits to encode
  kMaxLevel,
  kMaxWriter,
  Unset        \* a number, or the log numbers, whose has_ flag is false

VARIABLES
  edit,        \* the edit that was encoded
  cut,         \* bytes missing at the end
  input,       \* what DecodeFrom has not read
  decoded,     \* the edit being filled; new_files_ holds the levels only, ...
  f,           \* ... as all its pointers are to this FileMetaData
  msg          \* "" while reading, then "done" or "corruption"

vars == <<edit, cut, input, decoded, f, msg>>

kNextFileNumber == 3
kLastSequence == 4
kDeletedFile == 6
kNewFile == 7
kPrevLogNumber == 9

(* Numbers, lengths and levels of an edit stay below 2^31 (module Coding). *)
Number == {n \in Nat : n <= 2147483647}
Text == {s \in Seq(0 .. 255) : Len(s) < 2^29}
MemEntry == [key : Text, value : Text, seq_num : Number, value_type : BOOLEAN]
FileMetaData == [number : Number, file_size : Number, smallest : MemEntry, largest : MemEntry]
NewFile == [level : 0 .. kMaxLevel - 1, file : FileMetaData]
Edit == [log_number_ : [0 .. kMaxWriter - 1 -> Number] \cup {Unset},
         prev_log_number_ : Number \cup {Unset}, next_file_number_ : Number \cup {Unset},
         last_sequence_ : Number \cup {Unset},
         deleted_files_ : SUBSET ((0 .. kMaxLevel - 1) \X Number), new_files_ : Seq(NewFile)]

ASSUME VersionEditAssumption ==
  /\ Unset \notin Nat /\ kMaxLevel \in Number \ {0}
  /\ kMaxWriter \in Nat \ {0} /\ Unset \notin [0 .. kMaxWriter - 1 -> Number]
  /\ \A e \in Edits : e \in Edit /\ IsFiniteSet(e.deleted_files_)

NoFile == [number |-> Unset, file_size |-> 0, smallest |-> Unset, largest |-> Unset]
Clear == [log_number_ |-> Unset, prev_log_number_ |-> Unset, next_file_number_ |-> Unset,
          last_sequence_ |-> Unset, deleted_files_ |-> {}, new_files_ |-> <<>>]
-----------------------------------------------------------------------------
PutNumber(tag, n) == IF n = Unset THEN <<>> ELSE PutVarint(tag) \o PutVarint(n)

(* A std::set of pairs: ordered by the level, then by the number.          *)
Earlier(a, b) == a[1] < b[1] \/ (a[1] = b[1] /\ a[2] < b[2])
Sorted(deleted) ==
  CHOOSE s \in SetToSeqs(deleted) :
    \A i \in 1 .. Cardinality(deleted) - 1 : Earlier(s[i], s[i + 1])
PutDeletedFile(d) == PutVarint(kDeletedFile) \o PutVarint(d[1]) \o PutVarint(d[2])
PutNewFile(n) ==
  PutVarint(kNewFile) \o PutVarint(n.level)
    \o PutVarint(n.file.number) \o PutVarint(n.file.file_size)
    \o PutLengthPrefixedSlice(EncodeMemEntry(n.file.smallest))
    \o PutLengthPrefixedSlice(EncodeMemEntry(n.file.largest))

(* The fields in the order they are written, those without a value empty;  *)
(* log_number_ is not among them.                                          *)
Fields(e) ==
  <<PutNumber(kPrevLogNumber, e.prev_log_number_),
    PutNumber(kNextFileNumber, e.next_file_number_),
    PutNumber(kLastSequence, e.last_sequence_)>>
    \o [i \in 1 .. Cardinality(e.deleted_files_) |-> PutDeletedFile(Sorted(e.deleted_files_)[i])]
    \o [i \in DOMAIN e.new_files_ |-> PutNewFile(e.new_files_[i])]

EncodeTo(e) == FlattenSeq(Fields(e))

Init ==
  /\ edit \in Edits
  /\ cut \in 0 .. Len(EncodeTo(edit))
  /\ input = SubSeq(EncodeTo(edit), 1, Len(EncodeTo(edit)) - cut)
  /\ decoded = Clear
  /\ f = NoFile
  /\ msg = ""
-----------------------------------------------------------------------------
(* Variant that refuses the last level.                                    *)
GetLevelBelow(s) ==
  LET v == GetVarint32(s)
  IN IF v.ok /\ v.value < kMaxLevel - 1 THEN v ELSE Nothing

GetLevel(s) ==
  LET v == GetVarint32(s)
  IN IF v.ok /\ v.value < kMaxLevel THEN v ELSE Nothing

GetMemEntry(s) ==
  LET str == GetLengthPrefixedSlice(s)
  IN IF str.ok THEN Read(DecodeMemEntry(str.value), str.rest) ELSE Nothing

tag == GetVarint32(input)
Reading(t) == msg = "" /\ tag.ok /\ tag.value = t

(* A scalar field: its value is set only when it could be read (a variant  *)
(* does not ask).                                                          *)
numberUnchecked(t, field) ==
  /\ Reading(t)
  /\ LET v == GetVarint64(tag.rest)
     IN decoded' = [decoded EXCEPT ![field] = v.value] /\ input' = v.rest
  /\ UNCHANGED <<edit, cut, f, msg>>

number(t, field) ==
  /\ Reading(t)
  /\ LET v == GetVarint64(tag.rest)
     IN IF v.ok THEN /\ decoded' = [decoded EXCEPT ![field] = v.value]
                     /\ input' = v.rest
                     /\ UNCHANGED msg
        ELSE msg' = "corruption" /\ UNCHANGED <<decoded, input>>
  /\ UNCHANGED <<edit, cut, f>>

deletedFile ==
  /\ Reading(kDeletedFile)
  /\ LET level == GetLevel(tag.rest)
         n == GetVarint64(level.rest)
     IN IF level.ok /\ n.ok
        THEN /\ decoded' = [decoded EXCEPT !.deleted_files_ = @ \cup {<<level.value, n.value>>}]
             /\ input' = n.rest
             /\ UNCHANGED msg
        ELSE msg' = "corruption" /\ UNCHANGED <<decoded, input>>
  /\ UNCHANGED <<edit, cut, f>>

(* The fields are read into the shared f one after the other, as far as    *)
(* they go.                                                                *)
readInto(level, n, size, smallest, largest) ==
  [number |-> IF level.ok /\ n.ok THEN n.value ELSE f.number,
   file_size |-> IF level.ok /\ n.ok /\ size.ok THEN size.value ELSE f.file_size,
   smallest |-> IF level.ok /\ n.ok /\ size.ok /\ smallest.ok THEN smallest.value
                ELSE f.smallest,
   largest |-> IF level.ok /\ n.ok /\ size.ok /\ smallest.ok /\ largest.ok
               THEN largest.value ELSE f.largest]

newFile ==
  /\ Reading(kNewFile)
  /\ LET level == GetLevel(tag.rest)
         n == GetVarint64(level.rest)
         size == GetVarint64(n.rest)
         smallest == GetMemEntry(size.rest)
         largest == GetMemEntry(smallest.rest)
     IN /\ f' = readInto(level, n, size, smallest, largest)
        /\ IF level.ok /\ n.ok /\ size.ok /\ smallest.ok /\ largest.ok
           THEN /\ decoded' = [decoded EXCEPT !.new_files_ = Append(@, level.value)]
                /\ input' = largest.rest
                /\ UNCHANGED msg
           ELSE msg' = "corruption" /\ UNCHANGED <<decoded, input>>
  /\ UNCHANGED <<edit, cut>>

(* No tag can be read, or none the code knows.                             *)
endOfLoop ==
  /\ msg = ""
  /\ \/ ~tag.ok
     \/ tag.value \notin {kPrevLogNumber, kNextFileNumber, kLastSequence,
                          kDeletedFile, kNewFile}
  /\ msg' = IF input = <<>> THEN "done" ELSE "corruption"
  /\ UNCHANGED <<edit, cut, input, decoded, f>>

Next == \/ number(kPrevLogNumber, "prev_log_number_")
        \/ number(kNextFileNumber, "next_file_number_")
        \/ number(kLastSequence, "last_sequence_")
        \/ deletedFile \/ newFile \/ endOfLoop

Spec == Init /\ [][Next]_vars
-----------------------------------------------------------------------------
Levels(e) == [i \in DOMAIN e.new_files_ |-> e.new_files_[i].level]

(* Of a whole edit these come back: its three single numbers, the files it *)
(* deletes and the levels it adds to.  These are lost: its log numbers     *)
(* and, of the files it adds, all but the last one.                        *)
WholeEditIsReadBack ==
  cut = 0 /\ msg # "" =>
    /\ msg = "done"
    /\ decoded = [edit EXCEPT !.new_files_ = Levels(edit), !.log_number_ = Unset]
    /\ edit.new_files_ # <<>> => f = edit.new_files_[Len(edit.new_files_)].file

(* EncodeMemEntry fills the buffer it allocates and no more, as it asserts *)
(* (dbformat.cpp:35): two functions count the bytes of a length.           *)
LengthsAgree ==
  \A i \in DOMAIN edit.new_files_ :
    LET file == edit.new_files_[i].file
    IN \A e \in {file.smallest, file.largest} : Len(EncodeMemEntry(e)) = encoded_len(e)

(* A cut edit is reported, or nothing in it is read as something else:     *)
(* of what is written, a number is the edit's or not set, the deleted      *)
(* files are some of the edit's and the new ones its first ones, the last  *)
(* of them with its own file.                                              *)
CutEditIsNotMisread ==
  msg = "done" =>
    /\ \A field \in {"prev_log_number_", "next_file_number_", "last_sequence_"} :
         decoded[field] \in {Unset, edit[field]}
    /\ decoded.deleted_files_ \subseteq edit.deleted_files_
    /\ IsPrefix(decoded.new_files_, Levels(edit))
    /\ decoded.new_files_ # <<>> => f = edit.new_files_[Len(decoded.new_files_)].file
=============================================================================
