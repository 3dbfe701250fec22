----------------------------- MODULE Comparator -----------------------------
(***************************************************************************)
(* The order on keys and the two operations that shorten the keys of an    *)
(* index block (utils/comparator.h).  A key is a sequence of bytes.        *)
(***************************************************************************)
EXTENDS Integers, Sequences

CONSTANT MaxByte   \* 0xff

ASSUME MaxByteAssumption == MaxByte \in Nat

Byte == 0 .. MaxByte
Bytes == Seq(Byte)

Shorter(a, b) == IF Len(a) <= Len(b) THEN Len(a) ELSE Len(b)

(* n bytes in common and no more: diff_index of FindShortestSeparator.     *)
CommonPrefix(a, b, n) ==
  /\ \A i \in 1 .. n : a[i] = b[i]
  /\ n < Shorter(a, b) => a[n + 1] # b[n + 1]

diff_index(a, b) == CHOOSE n \in 0 .. Shorter(a, b) : CommonPrefix(a, b, n)

(* Slice::compare: memcmp of the common length, then the lengths.          *)
Less(a, b) ==
  \E n \in 0 .. Shorter(a, b) :
    /\ CommonPrefix(a, b, n)
    /\ IF n = Shorter(a, b) THEN Len(a) < Len(b) ELSE a[n + 1] < b[n + 1]

LessEq(a, b) == a = b \/ Less(a, b)

(* Variant without the comparison with limit's byte.                       *)
SeparatorUnchecked(start, limit) ==
  LET n == diff_index(start, limit)
  IN IF n < Shorter(start, limit) /\ start[n + 1] < MaxByte
     THEN Append(SubSeq(start, 1, n), start[n + 1] + 1)
     ELSE start

(* The byte that differs is raised by one if that keeps it below limit's.  *)
FindShortestSeparator(start, limit) ==
  LET n == diff_index(start, limit)
  IN IF n < Shorter(start, limit) /\ start[n + 1] < MaxByte
        /\ start[n + 1] + 1 < limit[n + 1]
     THEN Append(SubSeq(start, 1, n), start[n + 1] + 1)
     ELSE start

(* The first byte below 0xff is raised by one and ends the key.            *)
FindShortSuccessor(key) ==
  LET Raisable == {i \in 1 .. Len(key) : key[i] # MaxByte}
  IN IF Raisable = {} THEN key
     ELSE LET i == CHOOSE j \in Raisable : \A k \in Raisable : j <= k
          IN Append(SubSeq(key, 1, i - 1), key[i] + 1)
=============================================================================
