------------------------------- MODULE Coding -------------------------------
(***************************************************************************)
(* The byte formats of log records, table footers and version edits        *)
(* (utils/dbformat.cpp, table/format.cpp).  Numbers of 32 and 64 bits are  *)
(* naturals below 2^31 here, which every length, offset and file number of *)
(* the program stays under; on these the two widths give the same bytes.   *)
(***************************************************************************)
EXTENDS Integers, SequencesExt

(* What the readers return: whether there was a value, and what follows.   *)
Read(value, rest) == [ok |-> TRUE, value |-> value, rest |-> rest]
Nothing == [ok |-> FALSE, value |-> 0, rest |-> <<>>]

After(s, n) == SubSeq(s, n + 1, Len(s))
-----------------------------------------------------------------------------
(* The loop of VarintLength, and the branches of EncodeVarint32 (a variant *)
(* has one bound off by one): the code counts the bytes in both ways.      *)
VarintLength(v) == Min({n \in 1 .. 5 : n = 5 \/ v < 128^n})

branchLate(v) == IF v <= 2^7 THEN 1 ELSE IF v < 2^14 THEN 2
                 ELSE IF v < 2^21 THEN 3 ELSE IF v < 2^28 THEN 4 ELSE 5
branch(v) == IF v < 2^7 THEN 1 ELSE IF v < 2^14 THEN 2
             ELSE IF v < 2^21 THEN 3 ELSE IF v < 2^28 THEN 4 ELSE 5

(* Seven bits a byte, the lowest first, all but the last with the top bit. *)
PutVarint(v) ==
  [i \in 1 .. branch(v) |->
     ((v \div 128^(i - 1)) % 128) + IF i < branch(v) THEN 128 ELSE 0]

(* The value ends at the first byte below 128, among the first limit ones. *)
GetVarint(s, limit) ==
  LET ends == {i \in 1 .. limit : i <= Len(s) /\ s[i] < 128}
      n == Min(ends)
      value[i \in 1 .. n + 1] == IF i > n THEN 0 ELSE (s[i] % 128) + 128 * value[i + 1]
  IN IF ends = {} THEN Nothing ELSE Read(value[1], After(s, n))

GetVarint32(s) == GetVarint(s, 5)
GetVarint64(s) == GetVarint(s, 10)

(* Little-endian numbers of n bytes.                                       *)
EncodeFixed(v, n) == [i \in 1 .. n |-> IF i > 4 THEN 0 ELSE (v \div 256^(i - 1)) % 256]
DecodeFixed(s) ==
  LET value[i \in 1 .. Len(s) + 1] == IF i > Len(s) THEN 0 ELSE s[i] + 256 * value[i + 1]
  IN value[1]

PutLengthPrefixedSlice(s) == PutVarint(Len(s)) \o s

GetLengthPrefixedSlice(s) ==
  LET len == GetVarint32(s)
  IN IF len.ok /\ Len(len.rest) >= len.value
     THEN Read(SubSeq(len.rest, 1, len.value), After(len.rest, len.value))
     ELSE Nothing
-----------------------------------------------------------------------------
(* MemEntry: the key with a zero and eight bytes of number and type, its   *)
(* length before it; then the length of the value, and it with a zero.     *)
EncodeMemEntry(e) ==
  PutVarint(Len(e.key) + 9) \o e.key \o <<0>>
    \o <<IF e.value_type THEN 1 ELSE 0>> \o EncodeFixed(e.seq_num, 7)
    \o PutVarint(Len(e.value) + 1) \o e.value \o <<0>>

DecodeMemEntry(s) ==
  LET k == GetVarint32(s)
      v == GetVarint32(After(k.rest, k.value))
  IN [key |-> SubSeq(k.rest, 1, k.value - 9),
      value_type |-> k.rest[k.value - 7] # 0,
      seq_num |-> DecodeFixed(SubSeq(k.rest, k.value - 6, k.value)),
      value |-> SubSeq(v.rest, 1, v.value - 1)]

(* What EncodeMemEntry allocates and then asserts to have filled.          *)
encoded_len(e) ==
  VarintLength(Len(e.key) + 9) + Len(e.key) + 9
    + VarintLength(Len(e.value) + 1) + Len(e.value) + 1
-----------------------------------------------------------------------------
(* BlockHandle and Footer: two handles, padded, and the magic number.      *)
kMaxEncodedLength == 20
kEncodedLength == 2 * kMaxEncodedLength + 8
kTableMagicNumber == <<87, 251, 128, 139, 36, 117, 71, 219>>

EncodeHandle(h) == PutVarint(h.offset) \o PutVarint(h.size)

DecodeHandle(s) ==
  LET offset == GetVarint64(s)
      size == GetVarint64(offset.rest)
  IN IF offset.ok /\ size.ok
     THEN Read([offset |-> offset.value, size |-> size.value], size.rest)
     ELSE Nothing

EncodeFooter(f) ==
  LET handles == EncodeHandle(f.metaindex_handle) \o EncodeHandle(f.index_handle)
  IN handles \o [i \in 1 .. 2 * kMaxEncodedLength - Len(handles) |-> 0]
       \o kTableMagicNumber

DecodeFooter(s) ==
  LET metaindex == DecodeHandle(s)
      index == DecodeHandle(metaindex.rest)
  IN IF SubSeq(s, kEncodedLength - 7, kEncodedLength) = kTableMagicNumber
        /\ metaindex.ok /\ index.ok
     THEN Read([metaindex_handle |-> metaindex.value, index_handle |-> index.value],
               After(s, kEncodedLength))
     ELSE Nothing
=============================================================================
