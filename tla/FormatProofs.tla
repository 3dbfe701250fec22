---------------------------- MODULE FormatProofs -----------------------------
(***************************************************************************)
(* Proofs about Comparator, for keys of any length over bytes of any       *)
(* width, and about Coding: the keys of an index block separate its        *)
(* neighbours, and what the encoders write the decoders read back, also    *)
(* from bytes that end too early.                                          *)
(***************************************************************************)
EXTENDS Comparator, Coding, WellFoundedInduction, SequenceTheorems, TLAPS


(* The common prefix of two keys is at most as long as either.             *)
LEMMA ShorterType ==
  ASSUME NEW a \in Bytes, NEW b \in Bytes
  PROVE  /\ Shorter(a, b) \in Nat
         /\ Shorter(a, b) <= Len(a) /\ Shorter(a, b) <= Len(b)
         /\ Shorter(a, b) = Len(a) \/ Shorter(a, b) = Len(b)
  BY DEF Shorter, Bytes

(* Two keys have one length of common prefix.                              *)
LEMMA PrefixUnique ==
  ASSUME NEW a \in Bytes, NEW b \in Bytes,
         NEW m \in 0 .. Shorter(a, b), NEW n \in 0 .. Shorter(a, b),
         CommonPrefix(a, b, m), CommonPrefix(a, b, n)
  PROVE  m = n
<1>1. SUFFICES ASSUME NEW i \in 0 .. Shorter(a, b), NEW j \in 0 .. Shorter(a, b), i < j,
                      CommonPrefix(a, b, i), CommonPrefix(a, b, j)
               PROVE  FALSE
  BY ShorterType
<1>2. i + 1 \in 1 .. j /\ i < Shorter(a, b)
  BY <1>1, ShorterType
<1> QED BY <1>1, <1>2 DEF CommonPrefix

(* The loop of FindShortestSeparator finds that length when one key is     *)
(* below the other.                                                        *)
LEMMA DiffIndex ==
  ASSUME NEW a \in Bytes, NEW b \in Bytes, Less(a, b)
  PROVE  LET n == diff_index(a, b)
         IN /\ n \in 0 .. Shorter(a, b) /\ CommonPrefix(a, b, n)
            /\ IF n = Shorter(a, b) THEN Len(a) < Len(b) ELSE a[n + 1] < b[n + 1]
<1>1. PICK m \in 0 .. Shorter(a, b) :
        /\ CommonPrefix(a, b, m)
        /\ IF m = Shorter(a, b) THEN Len(a) < Len(b) ELSE a[m + 1] < b[m + 1]
  BY DEF Less
<1>2. diff_index(a, b) \in 0 .. Shorter(a, b) /\ CommonPrefix(a, b, diff_index(a, b))
  BY <1>1 DEF diff_index
<1>3. m = diff_index(a, b)
  BY <1>1, <1>2, PrefixUnique
<1> QED BY <1>1, <1>2, <1>3

(* The order on keys is transitive.                                        *)
LEMMA LessTransitive ==
  ASSUME NEW a \in Bytes, NEW b \in Bytes, NEW c \in Bytes, Less(a, b), Less(b, c)
  PROVE  Less(a, c)
<1>1. PICK m \in 0 .. Shorter(a, b) :
        /\ CommonPrefix(a, b, m)
        /\ IF m = Shorter(a, b) THEN Len(a) < Len(b) ELSE a[m + 1] < b[m + 1]
  BY DEF Less
<1>2. PICK n \in 0 .. Shorter(b, c) :
        /\ CommonPrefix(b, c, n)
        /\ IF n = Shorter(b, c) THEN Len(b) < Len(c) ELSE b[n + 1] < c[n + 1]
  BY DEF Less
<1>3. /\ Len(a) \in Nat /\ Len(b) \in Nat /\ Len(c) \in Nat /\ m \in Nat /\ n \in Nat
      /\ m <= Len(a) /\ m <= Len(b) /\ n <= Len(b) /\ n <= Len(c)
      /\ m = Shorter(a, b) => m = Len(a)
      /\ n = Shorter(b, c) => n = Len(b)
  BY <1>1, <1>2, ShorterType DEF Bytes, Shorter
<1>4. /\ \A i \in 1 .. Len(a) : a[i] \in Nat
      /\ \A i \in 1 .. Len(b) : b[i] \in Nat
      /\ \A i \in 1 .. Len(c) : c[i] \in Nat
  BY MaxByteAssumption DEF Bytes, Byte
<1>5. /\ \A i \in 1 .. m : a[i] = b[i]
      /\ \A i \in 1 .. n : b[i] = c[i]
  BY <1>1, <1>2 DEF CommonPrefix
<1>6. CASE m < n
  <2>1. \A i \in 1 .. m : a[i] = c[i]
    BY <1>3, <1>5, <1>6
  <2>2. b[m + 1] = c[m + 1] /\ m < Len(c)
    BY <1>3, <1>5, <1>6
  <2>3. CASE m = Len(a)
    <3>1. m = Shorter(a, c) /\ Len(a) < Len(c)
      BY <1>3, <2>2, <2>3 DEF Shorter
    <3> QED BY <1>3, <2>1, <3>1 DEF Less, CommonPrefix
  <2>4. CASE m # Len(a)
    <3>1. m < Shorter(a, c) /\ Shorter(a, c) \in Nat
      BY <1>3, <2>2, <2>4 DEF Shorter
    <3>2. a[m + 1] < c[m + 1] /\ a[m + 1] # c[m + 1]
      <4>1. m + 1 \in 1 .. Len(a) /\ m + 1 \in 1 .. Len(c)
        BY <1>3, <2>2, <2>4
      <4>2. a[m + 1] < c[m + 1]
        BY <1>1, <1>3, <2>2, <2>4
      <4> QED BY <1>4, <4>1, <4>2
    <3>3. m \in 0 .. Shorter(a, c) /\ CommonPrefix(a, c, m)
      BY <1>3, <2>1, <3>1, <3>2 DEF CommonPrefix
    <3> QED BY <3>1, <3>2, <3>3 DEF Less
  <2> QED BY <2>3, <2>4
<1>7. CASE n <= m
  <2>1. \A i \in 1 .. n : a[i] = c[i]
    BY <1>3, <1>5, <1>7
  <2>2. n # Len(b)
    BY <1>1, <1>3, <1>7 DEF Shorter
  <2>3. n < Len(b) /\ n < Len(c) /\ b[n + 1] < c[n + 1]
    BY <1>2, <1>3, <2>2, ShorterType
  <2>4. CASE n = Len(a)
    <3>1. n = Shorter(a, c) /\ Len(a) < Len(c)
      BY <1>3, <2>3, <2>4 DEF Shorter
    <3> QED BY <1>3, <2>1, <3>1 DEF Less, CommonPrefix
  <2>5. CASE n # Len(a)
    <3>1. n < Shorter(a, c) /\ Shorter(a, c) \in Nat
      BY <1>3, <1>7, <2>3, <2>5 DEF Shorter
    <3>2. a[n + 1] < c[n + 1] /\ a[n + 1] # c[n + 1]
      <4>1. n + 1 \in 1 .. Len(a) /\ n + 1 \in 1 .. Len(b) /\ n + 1 \in 1 .. Len(c)
        BY <1>3, <1>7, <2>3, <2>5
      <4>2. a[n + 1] = b[n + 1] \/ a[n + 1] < b[n + 1]
        BY <1>1, <1>3, <1>5, <1>7, <2>5, <4>1
      <4>3. a[n + 1] \in Nat /\ b[n + 1] \in Nat /\ c[n + 1] \in Nat
        BY <1>4, <4>1
      <4> QED BY <2>3, <4>2, <4>3
    <3>3. n \in 0 .. Shorter(a, c) /\ CommonPrefix(a, c, n)
      BY <1>3, <2>1, <3>1, <3>2 DEF CommonPrefix
    <3> QED BY <3>1, <3>2, <3>3 DEF Less
  <2> QED BY <2>4, <2>5
<1> QED BY <1>3, <1>6, <1>7

LEMMA LessEqTransitive ==
  ASSUME NEW a \in Bytes, NEW b \in Bytes, NEW c \in Bytes
  PROVE  /\ LessEq(a, b) /\ Less(b, c) => Less(a, c)
         /\ Less(a, b) /\ LessEq(b, c) => Less(a, c)
         /\ LessEq(a, b) /\ LessEq(b, c) => LessEq(a, c)
  BY LessTransitive DEF LessEq

(* A key cut after its first n bytes, with byte n + 1 raised by one: a key *)
(* again, no longer than the old one.                                      *)
LEMMA RaisedByte ==
  ASSUME NEW a \in Bytes, NEW n \in 0 .. Len(a) - 1, a[n + 1] < MaxByte
  PROVE  LET r == Append(SubSeq(a, 1, n), a[n + 1] + 1)
         IN /\ r \in Bytes /\ Len(r) = n + 1
            /\ \A i \in 1 .. n : r[i] = a[i]
            /\ r[n + 1] = a[n + 1] + 1
<1>1. Len(a) \in Nat /\ n + 1 \in 1 .. Len(a) /\ a[n + 1] \in Byte
  BY DEF Bytes
<1>2. /\ SubSeq(a, 1, n) \in Seq(Byte) /\ Len(SubSeq(a, 1, n)) = n
      /\ \A i \in 1 .. n : SubSeq(a, 1, n)[i] = a[i]
  BY <1>1 DEF Bytes
<1>3. a[n + 1] + 1 \in Byte
  BY <1>1, MaxByteAssumption DEF Byte
<1> HIDE DEF Byte
<1> QED BY <1>2, <1>3 DEF Bytes

(* Raising a byte makes a key larger.                                      *)
LEMMA RaisedIsLarger ==
  ASSUME NEW a \in Bytes, NEW r \in Bytes, NEW n \in 0 .. Len(a) - 1,
         Len(r) = n + 1, \A i \in 1 .. n : r[i] = a[i], r[n + 1] = a[n + 1] + 1
  PROVE  Less(a, r)
<1>1. a[n + 1] \in Nat /\ Len(a) \in Nat
  BY MaxByteAssumption DEF Bytes, Byte
<1>2. n \in 0 .. Shorter(a, r) /\ n < Shorter(a, r)
  BY <1>1 DEF Shorter
<1>3. CommonPrefix(a, r, n)
  BY <1>1 DEF CommonPrefix
<1> QED BY <1>1, <1>2, <1>3 DEF Less

(* The index key FindShortestSeparator makes of the last key of a block    *)
(* and the first key of the next is at least the one and below the other,  *)
(* and never longer than the last key.                                     *)
THEOREM SeparatorSeparates ==
  ASSUME NEW start \in Bytes, NEW limit \in Bytes, Less(start, limit)
  PROVE  LET key == FindShortestSeparator(start, limit)
         IN /\ key \in Bytes /\ Len(key) <= Len(start)
            /\ LessEq(start, key) /\ Less(key, limit)
<1> DEFINE n == diff_index(start, limit)
           r == Append(SubSeq(start, 1, n), start[n + 1] + 1)
<1>1. /\ n \in 0 .. Shorter(start, limit) /\ CommonPrefix(start, limit, n)
      /\ Shorter(start, limit) \in Nat
      /\ Shorter(start, limit) <= Len(start) /\ Shorter(start, limit) <= Len(limit)
      /\ Len(start) \in Nat /\ Len(limit) \in Nat
  BY DiffIndex, ShorterType DEF Bytes
<1>2. CASE ~(n < Shorter(start, limit) /\ start[n + 1] < MaxByte
             /\ start[n + 1] + 1 < limit[n + 1])
  BY <1>1, <1>2 DEF FindShortestSeparator, LessEq
<1>3. CASE n < Shorter(start, limit) /\ start[n + 1] < MaxByte
           /\ start[n + 1] + 1 < limit[n + 1]
  <2>1. FindShortestSeparator(start, limit) = r
    BY <1>3 DEF FindShortestSeparator
  <2>2. n \in 0 .. Len(start) - 1
    BY <1>1, <1>3
  <2> HIDE DEF n
  <2>3. /\ r \in Bytes /\ Len(r) = n + 1
        /\ \A i \in 1 .. n : r[i] = start[i]
        /\ r[n + 1] = start[n + 1] + 1
    BY <1>3, <2>2, RaisedByte
  <2> HIDE DEF r
  <2>4. Less(start, r)
    BY <2>2, <2>3, RaisedIsLarger
  <2>5. Shorter(r, limit) = n + 1
    BY <1>1, <1>3, <2>3 DEF Shorter
  <2>6. \A i \in 1 .. n : r[i] = limit[i]
    BY <1>1, <2>3 DEF CommonPrefix
  <2>7. CommonPrefix(r, limit, n) /\ r[n + 1] < limit[n + 1]
    <3>1. n + 1 \in 1 .. Len(start) /\ n + 1 \in 1 .. Len(limit)
      BY <1>1, <1>3
    <3>2. start[n + 1] \in Byte /\ limit[n + 1] \in Byte
      BY <3>1 DEF Bytes
    <3>3. start[n + 1] \in Nat /\ limit[n + 1] \in Nat
      BY <3>2, MaxByteAssumption DEF Byte
    <3> QED BY <1>1, <1>3, <2>3, <2>6, <3>3 DEF CommonPrefix
  <2>8. Less(r, limit)
    BY <1>1, <2>5, <2>7 DEF Less
  <2> QED BY <1>1, <1>3, <2>1, <2>3, <2>4, <2>8 DEF LessEq
<1> QED BY <1>2, <1>3
-----------------------------------------------------------------------------
(* A set of numbers that is not empty has a smallest one: the byte at      *)
(* which FindShortSuccessor's loop stops.                                  *)
LEMMA SmallestExists ==
  ASSUME NEW S \in SUBSET Nat, S # {}
  PROVE  \E j \in S : \A k \in S : j <= k
<1>1. PICK j \in S : \A k \in S : <<k, j>> \notin OpToRel(<, Nat)
  BY NatLessThanWellFounded, WFMin
<1>2. ASSUME NEW k \in S, k < j PROVE FALSE
  <2>1. <<k, j>> \in Nat \X Nat /\ <<k, j>>[1] < <<k, j>>[2]
    BY <1>2
  <2> QED BY <1>1, <2>1, Zenon DEF OpToRel
<1>3. \A k \in S : j \in Nat /\ k \in Nat /\ ~(k < j)
  BY <1>2
<1> QED BY <1>3

(* The index key FindShortSuccessor makes of the last key of a table is at *)
(* least that key, and never longer.                                       *)
THEOREM SuccessorIsLater ==
  ASSUME NEW key \in Bytes
  PROVE  LET s == FindShortSuccessor(key)
         IN s \in Bytes /\ Len(s) <= Len(key) /\ LessEq(key, s)
<1> DEFINE Raisable == {i \in 1 .. Len(key) : key[i] # MaxByte}
           i == CHOOSE j \in Raisable : \A k \in Raisable : j <= k
           n == i - 1
           r == Append(SubSeq(key, 1, n), key[n + 1] + 1)
<1>1. Len(key) \in Nat
  BY DEF Bytes
<1>2. CASE Raisable = {}
  BY <1>1, <1>2 DEF FindShortSuccessor, LessEq
<1>3. CASE Raisable # {}
  <2>1. i \in Raisable
    <3>1. Raisable \in SUBSET Nat
      BY <1>1
    <3>2. \E j \in Raisable : \A k \in Raisable : j <= k
      BY <1>3, <3>1, SmallestExists
    <3> HIDE DEF Raisable
    <3> QED BY <3>2
  <2>2. FindShortSuccessor(key) = Append(SubSeq(key, 1, i - 1), key[i] + 1)
    BY <1>3 DEF FindShortSuccessor
  <2>3. n \in 0 .. Len(key) - 1 /\ i = n + 1 /\ key[n + 1] # MaxByte
    <3> HIDE DEF i
    <3> QED BY <1>1, <2>1
  <2>4. key[n + 1] < MaxByte
    <3> HIDE DEF n
    <3>1. key[n + 1] \in Byte
      BY <1>1, <2>3 DEF Bytes
    <3> QED BY <2>3, <3>1, MaxByteAssumption DEF Byte
  <2>5. FindShortSuccessor(key) = r
    BY <2>2, <2>3
  <2> HIDE DEF n
  <2>6. /\ r \in Bytes /\ Len(r) = n + 1
        /\ \A k \in 1 .. n : r[k] = key[k]
        /\ r[n + 1] = key[n + 1] + 1
    BY <2>3, <2>4, RaisedByte
  <2> HIDE DEF r
  <2>7. Less(key, r)
    BY <2>3, <2>6, RaisedIsLarger
  <2> QED BY <1>1, <2>3, <2>5, <2>6, <2>7 DEF LessEq
<1> QED BY <1>2, <1>3
-----------------------------------------------------------------------------
(* Facts about sequences, with nothing else for the provers to unfold.     *)
LEMMA SeqFacts ==
  ASSUME NEW S, NEW s \in Seq(S)
  PROVE  /\ Len(s) \in Nat /\ DOMAIN s = 1 .. Len(s)
         /\ \A i \in 1 .. Len(s) : s[i] \in S
         /\ s = <<>> <=> Len(s) = 0
         /\ s = <<>> <=> DOMAIN s = {}
  OBVIOUS

LEMMA AppendFacts ==
  ASSUME NEW S, NEW s \in Seq(S), NEW x \in S
  PROVE  /\ Append(s, x) \in Seq(S) /\ Append(s, x) # <<>>
         /\ Len(Append(s, x)) = Len(s) + 1
         /\ DOMAIN Append(s, x) = 1 .. Len(s) + 1
         /\ \A i \in 1 .. Len(s) : Append(s, x)[i] = s[i]
         /\ Append(s, x)[Len(s) + 1] = x
  OBVIOUS

LEMMA OneMore ==
  ASSUME NEW n \in Nat, NEW i \in 1 .. n + 1 PROVE i \in 1 .. n \/ i = n + 1
  OBVIOUS

LEMMA UpToUnique ==
  ASSUME NEW m \in Nat, NEW n \in Nat, 1 .. m = 1 .. n PROVE m = n
  OBVIOUS

LEMMA SeqIsFunction ==
  ASSUME NEW S, NEW s \in Seq(S)
  PROVE  s = [i \in DOMAIN s |-> s[i]]
  OBVIOUS

LEMMA ConcatIs ==
  ASSUME NEW s \in Seq(Nat), NEW t \in Seq(Nat)
  PROVE  /\ s \o t \in Seq(Nat) /\ Len(s \o t) = Len(s) + Len(t)
         /\ \A i \in 1 .. Len(s) : (s \o t)[i] = s[i]
         /\ \A i \in 1 .. Len(t) : (s \o t)[Len(s) + i] = t[i]
  OBVIOUS

Assoc(s, t, u) == (s \o t) \o u = s \o (t \o u)

LEMMA AssocIs ==
  ASSUME NEW s \in Seq(Nat), NEW t \in Seq(Nat), NEW u \in Seq(Nat)
  PROVE  Assoc(s, t, u)
  BY ConcatAssociative, SMTT(30) DEF Assoc

(* The weights of the bytes of an encoded number.                          *)
LEMMA PowersOf128 ==
  ASSUME NEW k \in 0 .. 4
  PROVE  128^k \in Nat \ {0}
<1>1. 128^0 \in Nat \ {0} /\ 128^1 \in Nat \ {0} /\ 128^2 \in Nat \ {0}
  BY SMT
<1>2. 128^3 \in Nat \ {0} /\ 128^4 \in Nat \ {0}
  BY SMT
<1>3. k = 0 \/ k = 1 \/ k = 2 \/ k = 3 \/ k = 4
  OBVIOUS
<1> QED BY <1>1, <1>2, <1>3, ZenonT(60)

(* An encoded number is a sequence of bytes.                               *)
LEMMA PutVarintType ==
  ASSUME NEW v \in Nat
  PROVE  PutVarint(v) \in Seq(Nat) /\ branch(v) \in 1 .. 5
<1>1. branch(v) \in 1 .. 5
  BY DEF branch
<1>2. ASSUME NEW i \in 1 .. branch(v)
      PROVE  ((v \div 128^(i - 1)) % 128) + (IF i < branch(v) THEN 128 ELSE 0) \in Nat
  <2>1. i - 1 \in 0 .. 4
    BY <1>1
  <2> DEFINE d == 128^(i - 1)
  <2>2. d \in Nat \ {0}
    BY <2>1, PowersOf128, Zenon
  <2> HIDE DEF d
  <2>3. (v \div d) % 128 \in Nat
    BY <2>2
  <2>4. (IF i < branch(v) THEN 128 ELSE 0) \in Nat
    OBVIOUS
  <2> QED BY <2>3, <2>4 DEF d
<1>3. branch(v) \in Nat
  BY <1>1
<1> DEFINE n == branch(v)
<1> HIDE DEF n
<1> QED BY <1>1, <1>2, <1>3 DEF PutVarint, n
-----------------------------------------------------------------------------
(* Encoded numbers and how they are read back.                             *)
LEMMA Powers ==
  /\ 128^0 = 1 /\ 128^1 = 128 /\ 128^2 = 16384 /\ 128^3 = 2097152 /\ 128^4 = 268435456
  /\ 2^7 = 128 /\ 2^14 = 16384 /\ 2^21 = 2097152 /\ 2^28 = 268435456
  /\ 256^0 = 1 /\ 256^1 = 256 /\ 256^2 = 65536 /\ 256^3 = 16777216
  BY SMT

(* The power under a name of its own, as the provers evaluate it.          *)
Weight(j) == 128^j

LEMMA Weights ==
  /\ Weight(0) = 1 /\ Weight(1) = 128 /\ Weight(2) = 16384 /\ Weight(3) = 2097152
  /\ Weight(4) = 268435456
  BY Powers DEF Weight

LEMMA MinIs ==
  ASSUME NEW S \in SUBSET Nat, NEW m \in S, \A k \in S : m <= k
  PROVE  Min(S) = m
<1> DEFINE x == CHOOSE y \in S : \A k \in S : y <= k
<1>1. x \in S /\ \A k \in S : x <= k
  OBVIOUS
<1>2. Min(S) = x
  BY DEF Min
<1> HIDE DEF x
<1>3. x <= m /\ m <= x /\ x \in Nat /\ m \in Nat
  BY <1>1
<1> QED BY <1>2, <1>3

(* EncodeVarint's branches.                                                *)
LEMMA Branches ==
  ASSUME NEW v \in Nat
  PROVE  \/ branch(v) = 1 /\ v < 128
         \/ branch(v) = 2 /\ v >= 128 /\ v < 16384
         \/ branch(v) = 3 /\ v >= 16384 /\ v < 2097152
         \/ branch(v) = 4 /\ v >= 2097152 /\ v < 268435456
         \/ branch(v) = 5 /\ v >= 268435456
  BY Powers DEF branch

(* EncodeMemEntry counts the bytes of a length in two ways.                *)
LEMMA VarintLengthIs ==
  ASSUME NEW v \in Nat
  PROVE  VarintLength(v) = branch(v)
<1> DEFINE S == {n \in 1 .. 5 : n = 5 \/ v < Weight(n)}
           m == branch(v)
<1>1. \A n \in 1 .. 5 : n \in S <=> n = 5 \/ v < Weight(n)
  OBVIOUS
<1>2. S = {n \in 1 .. 5 : n = 5 \/ v < 128^n}
  BY DEF Weight
<1>3. S \in SUBSET Nat /\ S \subseteq 1 .. 5
  OBVIOUS
<1>4. \A n \in 1 .. 5 : /\ n = 1 => (n \in S <=> v < 128)
                        /\ n = 2 => (n \in S <=> v < 16384)
                        /\ n = 3 => (n \in S <=> v < 2097152)
                        /\ n = 4 => (n \in S <=> v < 268435456)
                        /\ n = 5 => n \in S
  <2> HIDE DEF S
  <2> QED BY <1>1, Weights
<1> HIDE DEF S
<1>5. m \in S /\ \A n \in S : m <= n
  <2>1. \A n \in S : n = 1 \/ n = 2 \/ n = 3 \/ n = 4 \/ n = 5
    BY <1>3
  <2> QED BY <1>3, <1>4, <2>1, Branches
<1>6. Min(S) = m
  BY <1>3, <1>5, MinIs
<1> QED BY <1>2, <1>6, Zenon DEF VarintLength

(* What is left of v before its byte i is written.                         *)
Left(v, i) == v \div Weight(i - 1)

LEMMA LeftIs ==
  ASSUME NEW v \in Nat, NEW i \in 1 .. 5
  PROVE  /\ Left(v, i) \in Nat
         /\ i = 1 => Left(v, i) = v
         /\ i < 5 => Left(v, i + 1) = Left(v, i) \div 128
<1>2. /\ 1 - 1 = 0 /\ 2 - 1 = 1 /\ 3 - 1 = 2 /\ 4 - 1 = 3 /\ 5 - 1 = 4
  OBVIOUS
<1>3. /\ Left(v, 1) = v \div 1 /\ Left(v, 2) = v \div 128 /\ Left(v, 3) = v \div 16384
      /\ Left(v, 4) = v \div 2097152 /\ Left(v, 5) = v \div 268435456
  BY <1>2, Weights DEF Left
<1>4. /\ v \div 1 = v /\ v \div 128 \in Nat /\ v \div 16384 \in Nat /\ v \div 2097152 \in Nat
      /\ v \div 268435456 \in Nat
  OBVIOUS
<1>5. v \div 128 = (v \div 1) \div 128 /\ v \div 16384 = (v \div 128) \div 128
  OBVIOUS
<1>6. v \div 2097152 = (v \div 16384) \div 128 /\ v \div 268435456 = (v \div 2097152) \div 128
  OBVIOUS
<1>7. i = 1 \/ i = 2 \/ i = 3 \/ i = 4 \/ i = 5
  OBVIOUS
<1>8. 1 + 1 = 2 /\ 2 + 1 = 3 /\ 3 + 1 = 4 /\ 4 + 1 = 5 /\ 2 # 1 /\ 3 # 1 /\ 4 # 1 /\ 5 # 1
      /\ ~ (5 < 5)
  OBVIOUS
<1> QED BY <1>3, <1>4, <1>5, <1>6, <1>7, <1>8

(* The numbers that are encoded; their bound is hidden from the provers.   *)
Small(v) == v \in Nat /\ v < 2147483648

LEMMA VarintBytes ==
  ASSUME NEW v, Small(v)
  PROVE  /\ branch(v) \in 1 .. 5 /\ Left(v, branch(v)) < 128
         /\ PutVarint(v) \in Seq(Nat) /\ Len(PutVarint(v)) = branch(v)
         /\ \A i \in 1 .. branch(v) : /\ PutVarint(v)[i] % 128 = Left(v, i) % 128
                                      /\ PutVarint(v)[i] < 128 <=> i = branch(v)
<1> DEFINE n == branch(v)
           s == PutVarint(v)
<1>0. v \in Nat
  BY DEF Small
<1>1. n \in 1 .. 5 /\ Left(v, n) < 128
  <2>1. \/ n = 1 /\ v < 128
        \/ n = 2 /\ v < 16384
        \/ n = 3 /\ v < 2097152
        \/ n = 4 /\ v < 268435456
        \/ n = 5
    BY <1>0, Branches
  <2>2. /\ 1 - 1 = 0 /\ 2 - 1 = 1 /\ 3 - 1 = 2 /\ 4 - 1 = 3 /\ 5 - 1 = 4
    OBVIOUS
  <2>3. /\ Left(v, 1) = v \div 1 /\ Left(v, 2) = v \div 128 /\ Left(v, 3) = v \div 16384
        /\ Left(v, 4) = v \div 2097152 /\ Left(v, 5) = v \div 268435456
    BY <2>2, Weights DEF Left
  <2>4. /\ v < 128 => v \div 1 < 128
        /\ v < 16384 => v \div 128 < 128
        /\ v < 2097152 => v \div 16384 < 128
        /\ v < 268435456 => v \div 2097152 < 128
        /\ v \div 268435456 < 128
    BY SMT DEF Small
  <2> HIDE DEF n
  <2>5. n \in 1 .. 5
    BY <2>1
  <2>6. Left(v, n) < 128
    BY <2>1, <2>3, <2>4
  <2> QED BY <2>5, <2>6
<1>2. s = [i \in 1 .. n |-> (Left(v, i) % 128) + IF i < n THEN 128 ELSE 0]
  BY Zenon DEF PutVarint, Left, Weight
<1>3. s \in Seq(Nat)
  BY <1>0, PutVarintType
<1> HIDE DEF n, s
<1>4. DOMAIN s = 1 .. n /\ Len(s) \in Nat /\ DOMAIN s = 1 .. Len(s)
  BY <1>2, <1>3, SeqFacts
<1>5. n \in Nat /\ Len(s) = n
  BY <1>1, <1>4, UpToUnique
<1>6. ASSUME NEW i \in 1 .. n
      PROVE  s[i] % 128 = Left(v, i) % 128 /\ (s[i] < 128 <=> i = n)
  <2>1. s[i] = (Left(v, i) % 128) + IF i < n THEN 128 ELSE 0
    BY <1>2
  <2>2. Left(v, i) \in Nat
    BY <1>0, <1>1, LeftIs
  <2> DEFINE d == Left(v, i)
  <2> HIDE DEF d
  <2>3. d \in Nat /\ s[i] = (d % 128) + IF i < n THEN 128 ELSE 0
    BY <2>1, <2>2 DEF d
  <2>4. d % 128 \in 0 .. 127 /\ (d % 128) % 128 = d % 128 /\ ((d % 128) + 128) % 128 = d % 128
    BY <2>3
  <2>5. i < n <=> i # n
    BY <1>1
  <2>6. s[i] % 128 = d % 128 /\ (s[i] < 128 <=> i = n)
    <3>1. CASE i < n
      BY <2>3, <2>4, <2>5, <3>1
    <3>2. CASE ~ (i < n)
      BY <2>3, <2>4, <2>5, <3>2
    <3> QED BY <3>1, <3>2
  <2> QED BY <2>6 DEF d
<1> QED BY <1>1, <1>3, <1>5, <1>6 DEF n, s

(* The recursion that sums up the digits d[1], ..., d[n] of a number has   *)
(* one solution.                                                           *)
SameDown(f, g, n) ==
  /\ f = [i \in 1 .. n + 1 |-> f[i]] /\ g = [i \in 1 .. n + 1 |-> g[i]]
  /\ f[n + 1] = g[n + 1]
  /\ \A i \in 1 .. n : f[i + 1] = g[i + 1] => f[i] = g[i]

LEMMA DownUnique ==
  ASSUME NEW n \in Nat, NEW f, NEW g, SameDown(f, g, n)
  PROVE  f = g
<1>0. /\ f = [i \in 1 .. n + 1 |-> f[i]] /\ g = [i \in 1 .. n + 1 |-> g[i]]
      /\ f[n + 1] = g[n + 1]
      /\ \A i \in 1 .. n : f[i + 1] = g[i + 1] => f[i] = g[i]
  BY DEF SameDown
<1> DEFINE D == {k \in 0 .. n : f[n + 1 - k] # g[n + 1 - k]}
<1>1. D = {}
  <2> SUFFICES ASSUME D # {} PROVE FALSE
    OBVIOUS
  <2>1. D \in SUBSET Nat
    OBVIOUS
  <2>2. PICK k \in D : \A j \in D : k <= j
    BY <2>1, SmallestExists
  <2>3. k \in 0 .. n /\ f[n + 1 - k] # g[n + 1 - k]
    OBVIOUS
  <2> DEFINE i == n + 1 - k
  <2>4. k # 0 /\ i \in 1 .. n /\ i + 1 = n + 1 - (k - 1) /\ k - 1 \in 0 .. n /\ ~ (k <= k - 1)
    <3>1. k # 0
      <4> SUFFICES ASSUME k = 0 PROVE FALSE
        OBVIOUS
      <4>1. n + 1 - k = n + 1
        OBVIOUS
      <4> QED BY <1>0, <2>3, <4>1
    <3> QED BY <2>3, <3>1
  <2>5. f[n + 1 - (k - 1)] = g[n + 1 - (k - 1)]
    BY <2>2, <2>4
  <2>6. f[i + 1] = g[i + 1] /\ f[i] # g[i] /\ i \in 1 .. n
    BY <2>3, <2>4, <2>5
  <2> HIDE DEF i, D
  <2> QED BY <1>0, <2>6
<1>2. ASSUME NEW i \in 1 .. n + 1 PROVE f[i] = g[i]
  <2>1. n + 1 - i \in 0 .. n /\ n + 1 - (n + 1 - i) = i
    OBVIOUS
  <2> QED BY <1>1, <2>1
<1> QED BY <1>0, <1>2, Zenon

(* The recursion of GetVarint from byte i on, among the first n of s.      *)
Sums(f, s, n) == f = [i \in 1 .. n + 1 |-> IF i > n THEN 0 ELSE (s[i] % 128) + 128 * f[i + 1]]

LEMMA GetVarintIsChosen ==
  ASSUME NEW s, NEW limit
  PROVE  LET ends == {i \in 1 .. limit : i <= Len(s) /\ s[i] < 128}
         IN GetVarint(s, limit) =
              IF ends = {} THEN Nothing
              ELSE Read((CHOOSE f : Sums(f, s, Min(ends)))[1], After(s, Min(ends)))
  BY DEF GetVarint, Sums

(* The bytes of v are read back as v, wherever they are cut it fails.      *)
LEMMA GetVarintOf ==
  ASSUME NEW v, Small(v), NEW limit \in Nat, 5 <= limit, NEW w \in Seq(Nat),
         \A i \in 1 .. Len(w) : i <= branch(v) => w[i] = PutVarint(v)[i]
  PROVE  GetVarint(w, limit) = IF Len(w) < branch(v) THEN Nothing
                               ELSE Read(v, After(w, branch(v)))
<1> DEFINE n == branch(v)
           s == PutVarint(v)
           ends == {i \in 1 .. limit : i <= Len(w) /\ w[i] < 128}
<1>1. /\ n \in 1 .. 5 /\ Left(v, n) < 128 /\ v \in Nat
      /\ \A i \in 1 .. n : s[i] % 128 = Left(v, i) % 128 /\ (s[i] < 128 <=> i = n)
  BY VarintBytes DEF Small
<1>2. \A i \in 1 .. Len(w) : i <= n => w[i] = s[i]
  OBVIOUS
<1>3. GetVarint(w, limit) = IF ends = {} THEN Nothing
                            ELSE Read((CHOOSE f : Sums(f, w, Min(ends)))[1], After(w, Min(ends)))
  BY GetVarintIsChosen
<1>4. Len(w) \in Nat /\ n \in Nat /\ n \in 1 .. limit
  BY <1>1
<1> HIDE DEF n, s
<1>5. \A i \in ends : ~ (i < n)
  BY <1>1, <1>2, <1>4
<1>6. CASE Len(w) < n
  <2>1. ends = {}
    BY <1>4, <1>5, <1>6
  <2> QED BY <1>3, <1>6, <2>1 DEF n
<1>7. CASE ~ (Len(w) < n)
  <2>1. n \in ends
    BY <1>1, <1>2, <1>4, <1>7
  <2>2. ends \in SUBSET Nat /\ \A i \in ends : n <= i
    BY <1>4, <1>5
  <2>3. Min(ends) = n
    <3> HIDE DEF ends
    <3> QED BY <2>1, <2>2, MinIs
  <2> DEFINE g == [i \in 1 .. n + 1 |-> IF i > n THEN 0 ELSE Left(v, i)]
  <2>4. \A i \in 1 .. n : g[i] = Left(v, i) /\ g[i] \in Nat
    <3>1. \A i \in 1 .. n : i \in 1 .. 5 /\ i \in 1 .. n + 1 /\ ~ (i > n)
      BY <1>1
    <3>2. \A i \in 1 .. 5 : Left(v, i) \in Nat
      BY <1>1, LeftIs
    <3> QED BY <3>1, <3>2, Zenon
  <2>5. g[n + 1] = 0 /\ g = [i \in 1 .. n + 1 |-> g[i]]
    BY <1>4
  <2> HIDE DEF g
  <2>6. ASSUME NEW i \in 1 .. n
        PROVE  g[i] = (w[i] % 128) + 128 * g[i + 1]
    <3>1. w[i] % 128 = Left(v, i) % 128
      BY <1>1, <1>2, <1>4, <1>7
    <3> DEFINE d == Left(v, i)
    <3>2. d \in Nat /\ g[i] = d
      BY <2>4
    <3>3. CASE i = n
      <4>1. d < 128 /\ g[i + 1] = 0
        BY <1>1, <2>5, <3>3
      <4> HIDE DEF d
      <4> QED BY <3>1, <3>2, <4>1, SMTT(30) DEF d
    <3>4. CASE i # n
      <4>1. i < 5 /\ i \in 1 .. 5 /\ i + 1 \in 1 .. n
        BY <1>1, <3>4
      <4>2. Left(v, i + 1) = d \div 128
        BY <1>1, <4>1, LeftIs, ZenonT(60)
      <4>3. g[i + 1] = d \div 128
        BY <2>4, <4>1, <4>2
      <4>4. w[i] % 128 = d % 128
        BY <3>1
      <4> HIDE DEF d
      <4> QED BY <3>2, <4>3, <4>4
    <3> QED BY <3>3, <3>4
  <2>7. Sums(g, w, n)
    <3> DEFINE h == [i \in 1 .. n + 1 |-> IF i > n THEN 0 ELSE (w[i] % 128) + 128 * g[i + 1]]
    <3>1. \A i \in 1 .. n + 1 : h[i] = g[i]
      <4>1. \A i \in 1 .. n + 1 : i > n => i = n + 1
        BY <1>4
      <4>2. \A i \in 1 .. n + 1 : ~ (i > n) => i \in 1 .. n
        BY <1>4
      <4> QED BY <2>5, <2>6, <4>1, <4>2, Zenon
    <3>2. h = [i \in 1 .. n + 1 |-> h[i]]
      OBVIOUS
    <3> HIDE DEF h
    <3>3. g = h
      BY <2>5, <3>1, <3>2, Zenon
    <3> QED BY <3>3 DEF Sums, h
  <2> DEFINE f == CHOOSE x : Sums(x, w, n)
  <2>8. Sums(f, w, n)
    BY <2>7
  <2> HIDE DEF f
  <2>9. f = g
    <3>1. /\ \A i \in 1 .. n + 1 : f[i] = IF i > n THEN 0 ELSE (w[i] % 128) + 128 * f[i + 1]
          /\ f = [i \in 1 .. n + 1 |-> f[i]]
      BY <2>8 DEF Sums
    <3>2. n + 1 \in 1 .. n + 1 /\ n + 1 > n /\ \A i \in 1 .. n : i \in 1 .. n + 1 /\ ~ (i > n)
      BY <1>4
    <3>3. f[n + 1] = g[n + 1]
      BY <2>5, <3>1, <3>2, Zenon
    <3>4. \A i \in 1 .. n : f[i] = (w[i] % 128) + 128 * f[i + 1]
      BY <3>1, <3>2, Zenon
    <3>5. \A i \in 1 .. n : f[i + 1] = g[i + 1] => f[i] = g[i]
      <4> SUFFICES ASSUME NEW i \in 1 .. n, f[i + 1] = g[i + 1] PROVE f[i] = g[i]
        OBVIOUS
      <4>1. f[i] = (w[i] % 128) + 128 * f[i + 1]
        BY <3>4, Zenon
      <4>2. g[i] = (w[i] % 128) + 128 * g[i + 1]
        BY <2>6, Zenon
      <4> QED BY <4>1, <4>2
    <3>6. n \in Nat
      BY <1>4
    <3>7. f = [i \in 1 .. n + 1 |-> f[i]]
      BY <3>1
    <3>8. g = [i \in 1 .. n + 1 |-> g[i]]
      BY <2>5
    <3>9. SameDown(f, g, n)
      BY <3>3, <3>5, <3>7, <3>8, Zenon DEF SameDown
    <3> QED BY <3>6, <3>9, DownUnique
  <2>10. f[1] = v
    <3>1. 1 \in 1 .. n /\ 1 \in 1 .. 5
      BY <1>1
    <3>2. Left(v, 1) = v
      BY <1>1, <3>1, LeftIs
    <3> QED BY <2>4, <2>9, <3>1, <3>2
  <2>11. GetVarint(w, limit) = Read(f[1], After(w, n))
    <3>1. ends # {}
      BY <2>1
    <3> QED BY <1>3, <2>3, <3>1 DEF f
  <2> QED BY <1>7, <2>10, <2>11 DEF n
<1> QED BY <1>6, <1>7

(* The same for a number of seven bytes, the last three of them zero.      *)
ByteWeight(j) == 256^j
FixedLeft(v, i) == IF i > 4 THEN 0 ELSE v \div ByteWeight(i - 1)

LEMMA FixedLeftIs ==
  ASSUME NEW v, Small(v), NEW i \in 1 .. 7
  PROVE  /\ FixedLeft(v, i) \in Nat
         /\ i = 1 => FixedLeft(v, i) = v
         /\ FixedLeft(v, i) = (FixedLeft(v, i) % 256) + 256 * FixedLeft(v, i + 1)
         /\ EncodeFixed(v, 7)[i] = FixedLeft(v, i) % 256
<1>1. /\ ByteWeight(0) = 1 /\ ByteWeight(1) = 256 /\ ByteWeight(2) = 65536
      /\ ByteWeight(3) = 16777216
  BY Powers DEF ByteWeight
<1>2. /\ 1 - 1 = 0 /\ 2 - 1 = 1 /\ 3 - 1 = 2 /\ 4 - 1 = 3
      /\ ~ (1 > 4) /\ ~ (2 > 4) /\ ~ (3 > 4) /\ ~ (4 > 4) /\ 5 > 4 /\ 6 > 4 /\ 7 > 4 /\ 8 > 4
  OBVIOUS
<1>3. /\ FixedLeft(v, 1) = v \div 1 /\ FixedLeft(v, 2) = v \div 256
      /\ FixedLeft(v, 3) = v \div 65536 /\ FixedLeft(v, 4) = v \div 16777216
      /\ FixedLeft(v, 5) = 0 /\ FixedLeft(v, 6) = 0 /\ FixedLeft(v, 7) = 0 /\ FixedLeft(v, 8) = 0
  BY <1>1, <1>2 DEF FixedLeft
<1>4. /\ v \div 1 = v /\ v \div 256 \in Nat /\ v \div 65536 \in Nat /\ v \div 16777216 \in Nat
      /\ v \in Nat /\ v \div 16777216 < 256
  BY SMT DEF Small
<1>5. /\ v = (v % 256) + 256 * (v \div 256)
      /\ v \div 256 = ((v \div 256) % 256) + 256 * (v \div 65536)
      /\ v \div 65536 = ((v \div 65536) % 256) + 256 * (v \div 16777216)
      /\ v \div 16777216 = ((v \div 16777216) % 256) + 256 * 0
      /\ 0 = (0 % 256) + 256 * 0
  BY <1>4, SMT
<1>6. i = 1 \/ i = 2 \/ i = 3 \/ i = 4 \/ i = 5 \/ i = 6 \/ i = 7
  OBVIOUS
<1>7. FixedLeft(v, i) \in Nat /\ (i = 1 => FixedLeft(v, i) = v)
  BY <1>3, <1>4, <1>6, SMT
<1>8. FixedLeft(v, i) = (FixedLeft(v, i) % 256) + 256 * FixedLeft(v, i + 1)
  <2>1. 1 + 1 = 2 /\ 2 + 1 = 3 /\ 3 + 1 = 4 /\ 4 + 1 = 5 /\ 5 + 1 = 6 /\ 6 + 1 = 7 /\ 7 + 1 = 8
    OBVIOUS
  <2>2. v = v \div 1
    BY <1>4
  <2> QED BY <1>3, <1>5, <1>6, <2>1, <2>2, SMT
<1>9. EncodeFixed(v, 7)[i] = FixedLeft(v, i) % 256
  <2>1. EncodeFixed(v, 7)[i] = IF i > 4 THEN 0 ELSE (v \div ByteWeight(i - 1)) % 256
    BY Zenon DEF EncodeFixed, ByteWeight
  <2>2. 0 % 256 = 0
    BY SMT
  <2> QED BY <2>1, <2>2, Zenon DEF FixedLeft
<1> QED BY <1>7, <1>8, <1>9

LEMMA EncodeFixedType ==
  ASSUME NEW v, Small(v)
  PROVE  EncodeFixed(v, 7) \in Seq(Nat) /\ Len(EncodeFixed(v, 7)) = 7
<1>1. EncodeFixed(v, 7) = [i \in 1 .. 7 |-> EncodeFixed(v, 7)[i]]
  BY DEF EncodeFixed
<1>2. ASSUME NEW i \in 1 .. 7 PROVE EncodeFixed(v, 7)[i] \in Nat
  <2> DEFINE d == FixedLeft(v, i)
  <2>1. d \in Nat /\ EncodeFixed(v, 7)[i] = d % 256
    BY FixedLeftIs
  <2> HIDE DEF d
  <2> QED BY <2>1
<1> DEFINE s == EncodeFixed(v, 7)
<1>3. s = [i \in 1 .. 7 |-> s[i]] /\ \A i \in 1 .. 7 : s[i] \in Nat
  BY <1>1, <1>2, Zenon
<1> HIDE DEF s
<1>4. s \in Seq(Nat) /\ Len(s) = 7
  BY <1>3
<1> QED BY <1>4 DEF s

FixedSums(f, s, n) ==
  f = [i \in 1 .. n + 1 |-> IF i > n THEN 0 ELSE s[i] + 256 * f[i + 1]]

LEMMA DecodeFixedIsChosen ==
  ASSUME NEW s, NEW n, Len(s) = n
  PROVE  DecodeFixed(s) = (CHOOSE f : FixedSums(f, s, n))[1]
  BY DEF DecodeFixed, FixedSums

LEMMA DecodeFixedOf ==
  ASSUME NEW v, Small(v)
  PROVE  DecodeFixed(EncodeFixed(v, 7)) = v
<1> DEFINE s == EncodeFixed(v, 7)
           g == [i \in 1 .. 8 |-> FixedLeft(v, i)]
           f == CHOOSE x : FixedSums(x, s, 7)
<1>1. Len(s) = 7 /\ Len(s) + 1 = 8 /\ \A i \in 1 .. 7 : s[i] = FixedLeft(v, i) % 256
  <2>1. Len(s) = 7
    BY EncodeFixedType, Zenon
  <2>2. \A i \in 1 .. 7 : s[i] = FixedLeft(v, i) % 256
    BY FixedLeftIs, Zenon
  <2> HIDE DEF s
  <2> QED BY <2>1, <2>2
<1>2. DecodeFixed(s) = f[1]
  BY <1>1, DecodeFixedIsChosen
<1> HIDE DEF s
<1>3. \A i \in 1 .. 8 : /\ i > 7 => i = 8
                        /\ ~ (i > 7) => i \in 1 .. 7
  OBVIOUS
<1>4. \A i \in 1 .. 7 : i \in 1 .. 8 /\ i + 1 \in 1 .. 8 /\ ~ (i > 7)
  OBVIOUS
<1>5. \A i \in 1 .. 8 : g[i] = FixedLeft(v, i)
  OBVIOUS
<1>6. g[8] = 0 /\ g = [i \in 1 .. 8 |-> g[i]] /\ 8 \in 1 .. 8 /\ 8 > 7 /\ 7 + 1 = 8 /\ 7 \in Nat
  BY <1>5 DEF FixedLeft
<1> HIDE DEF g
<1>7. \A i \in 1 .. 7 : g[i] = s[i] + 256 * g[i + 1]
  <2> SUFFICES ASSUME NEW i \in 1 .. 7 PROVE g[i] = s[i] + 256 * g[i + 1]
    OBVIOUS
  <2>1. g[i] = FixedLeft(v, i) /\ g[i + 1] = FixedLeft(v, i + 1)
    BY <1>4, <1>5, Zenon
  <2> QED BY <1>1, <2>1, FixedLeftIs
<1>8. FixedSums(g, s, 7)
  <2> DEFINE h == [i \in 1 .. 7 + 1 |-> IF i > 7 THEN 0 ELSE s[i] + 256 * g[i + 1]]
  <2>1. \A i \in 1 .. 8 : h[i] = g[i]
    BY <1>3, <1>6, <1>7, ZenonT(60)
  <2>2. h = [i \in 1 .. 8 |-> h[i]]
    OBVIOUS
  <2> HIDE DEF h
  <2>3. g = h
    BY <1>6, <2>1, <2>2, Zenon
  <2> QED BY <2>3, Zenon DEF FixedSums, h
<1>9. FixedSums(f, s, 7)
  BY <1>8, Zenon
<1> HIDE DEF f
<1>10. f = g
  <2>1. f = [i \in 1 .. 8 |-> IF i > 7 THEN 0 ELSE s[i] + 256 * f[i + 1]]
    BY <1>6, <1>9 DEF FixedSums
  <2>2. /\ \A i \in 1 .. 8 : f[i] = IF i > 7 THEN 0 ELSE s[i] + 256 * f[i + 1]
        /\ f = [i \in 1 .. 8 |-> f[i]]
    BY <2>1
  <2>3. f[8] = g[8]
    BY <1>6, <2>2, Zenon
  <2>4. \A i \in 1 .. 7 : f[i] = s[i] + 256 * f[i + 1]
    BY <1>4, <2>2, ZenonT(60)
  <2>5. \A i \in 1 .. 7 : f[i + 1] = g[i + 1] => f[i] = g[i]
    BY <1>7, <2>4, ZenonT(60)
  <2>6. SameDown(f, g, 7)
    BY <1>6, <2>2, <2>3, <2>5, Zenon DEF SameDown
  <2> QED BY <1>6, <2>6, DownUnique, Zenon
<1>11. g[1] = v
  <2>1. 1 \in 1 .. 8 /\ 1 \in 1 .. 7
    OBVIOUS
  <2> QED BY <1>5, <2>1, FixedLeftIs, ZenonT(60)
<1> QED BY <1>2, <1>10, <1>11 DEF s
-----------------------------------------------------------------------------
(* Reading what is left of an encoding when it was cut at some place.      *)
Cut(w, s) ==
  /\ w \in Seq(Nat) /\ s \in Seq(Nat) /\ Len(w) <= Len(s)
  /\ \A i \in 1 .. Len(w) : w[i] = s[i]

LEMMA CutWhole ==
  ASSUME NEW w, NEW s, Cut(w, s), Len(w) = Len(s)
  PROVE  w = s
<1>1. /\ w \in Seq(Nat) /\ s \in Seq(Nat) /\ Len(w) = Len(s)
      /\ \A i \in 1 .. Len(w) : w[i] = s[i]
  BY DEF Cut
<1> QED BY <1>1, SeqEqual

LEMMA CutSelf ==
  ASSUME NEW s \in Seq(Nat)
  PROVE  Cut(s, s)
<1>1. Len(s) \in Nat
  OBVIOUS
<1> QED BY <1>1 DEF Cut

LEMMA CutFirst ==
  ASSUME NEW s \in Seq(Nat), NEW k \in 0 .. Len(s)
  PROVE  Cut(SubSeq(s, 1, k), s) /\ Len(SubSeq(s, 1, k)) = k
<1> DEFINE w == SubSeq(s, 1, k)
<1>1. w \in Seq(Nat) /\ Len(w) = k /\ \A i \in 1 .. k : w[i] = s[i]
  OBVIOUS
<1> HIDE DEF w
<1>2. Cut(w, s) /\ Len(w) = k
  BY <1>1 DEF Cut
<1> QED BY <1>2 DEF w

LEMMA Parts ==
  ASSUME NEW s \in Seq(Nat), NEW k \in 0 .. Len(s)
  PROVE  /\ SubSeq(s, 1, k) \in Seq(Nat) /\ Len(SubSeq(s, 1, k)) = k
         /\ \A i \in 1 .. k : SubSeq(s, 1, k)[i] = s[i]
         /\ After(s, k) \in Seq(Nat) /\ Len(After(s, k)) = Len(s) - k
         /\ \A i \in 1 .. Len(s) - k : After(s, k)[i] = s[k + i]
<1> DEFINE n == Len(s)
           a == SubSeq(s, k + 1, n)
<1>1. n \in Nat /\ k \in Nat /\ k <= n
  OBVIOUS
<1>2. SubSeq(s, 1, k) \in Seq(Nat) /\ Len(SubSeq(s, 1, k)) = k
      /\ \A i \in 1 .. k : SubSeq(s, 1, k)[i] = s[i]
  OBVIOUS
<1>3. /\ a \in Seq(Nat) /\ Len(a) = (IF k + 1 <= n THEN n - (k + 1) + 1 ELSE 0)
      /\ \A i \in 1 .. n - (k + 1) + 1 : a[i] = s[k + 1 + i - 1]
  <2>1. k + 1 \in Int /\ n \in Int /\ \A i \in k + 1 .. n : s[i] \in Nat
    BY <1>1
  <2> HIDE DEF n
  <2> QED BY <2>1, SubSeqProperties, SMTT(30)
<1> HIDE DEF n
<1>4. /\ (IF k + 1 <= n THEN n - (k + 1) + 1 ELSE 0) = n - k /\ n - (k + 1) + 1 = n - k
      /\ \A i \in 1 .. n - k : k + 1 + i - 1 = k + i
  BY <1>1
<1> HIDE DEF a
<1>5. a \in Seq(Nat) /\ Len(a) = n - k /\ \A i \in 1 .. n - k : a[i] = s[k + i]
  BY <1>3, <1>4
<1> QED BY <1>2, <1>5 DEF After, a, n

(* A part p that is whole in w, and what follows it.                       *)
Splits(w, p, t) ==
  /\ \A i \in 1 .. Len(w) : i <= Len(p) => w[i] = p[i]
  /\ Len(p) <= Len(w) => /\ SubSeq(w, 1, Len(p)) = p
                         /\ Cut(After(w, Len(p)), t)
                         /\ Len(After(w, Len(p))) = Len(w) - Len(p)

LEMMA CutSplits ==
  ASSUME NEW p \in Seq(Nat), NEW t \in Seq(Nat), NEW w, Cut(w, p \o t)
  PROVE  Splits(w, p, t)
<1> DEFINE s == p \o t
           n == Len(p)
           r == After(w, n)
           q == SubSeq(w, 1, n)
<1>1. /\ s \in Seq(Nat) /\ Len(s) = n + Len(t) /\ n \in Nat /\ Len(t) \in Nat
      /\ \A i \in 1 .. n : s[i] = p[i]
      /\ \A i \in 1 .. Len(t) : s[n + i] = t[i]
  OBVIOUS
<1>2. /\ w \in Seq(Nat) /\ Len(w) <= Len(s) /\ Len(w) \in Nat
      /\ \A i \in 1 .. Len(w) : w[i] = s[i]
  BY DEF Cut
<1>3. n <= Len(w) => /\ r \in Seq(Nat) /\ Len(r) = Len(w) - n
                     /\ \A i \in 1 .. Len(w) - n : r[i] = w[n + i]
                     /\ q \in Seq(Nat) /\ Len(q) = n /\ \A i \in 1 .. n : q[i] = w[i]
  <2> SUFFICES ASSUME n <= Len(w)
               PROVE  /\ r \in Seq(Nat) /\ Len(r) = Len(w) - n
                      /\ \A i \in 1 .. Len(w) - n : r[i] = w[n + i]
                      /\ q \in Seq(Nat) /\ Len(q) = n /\ \A i \in 1 .. n : q[i] = w[i]
    OBVIOUS
  <2>1. n \in 0 .. Len(w)
    BY <1>1, <1>2
  <2> HIDE DEF n
  <2> QED BY <1>2, <2>1, Parts
<1> HIDE DEF s, n, r, q
<1>4. \A i \in 1 .. Len(w) : i <= n => w[i] = p[i]
  BY <1>1, <1>2
<1>5. ASSUME n <= Len(w) PROVE q = p /\ Cut(r, t) /\ Len(r) = Len(w) - n
  <2>1. \A i \in 1 .. n : q[i] = p[i]
    <3> SUFFICES ASSUME NEW i \in 1 .. n PROVE q[i] = p[i]
      OBVIOUS
    <3>1. i \in 1 .. Len(w)
      BY <1>1, <1>2, <1>5
    <3>2. q[i] = w[i]
      BY <1>3, <1>5
    <3> QED BY <1>1, <1>2, <3>1, <3>2
  <2>2. q = p
    BY <1>3, <1>5, <2>1, SeqEqual DEF n
  <2>3. Len(r) <= Len(t) /\ Len(r) \in Nat
    BY <1>1, <1>2, <1>3, <1>5
  <2>4. \A i \in 1 .. Len(r) : r[i] = t[i]
    <3> SUFFICES ASSUME NEW i \in 1 .. Len(r) PROVE r[i] = t[i]
      OBVIOUS
    <3> DEFINE m == Len(w)
               l == Len(r)
               k == Len(t)
    <3>1. m \in Nat /\ n \in Nat /\ n <= m /\ l = m - n /\ l <= k /\ k \in Nat /\ i \in 1 .. l
      BY <1>1, <1>2, <1>3, <1>5, <2>3
    <3>2. i \in 1 .. m - n /\ n + i \in 1 .. m /\ i \in 1 .. k
      <4> HIDE DEF m, l, k
      <4> QED BY <3>1
    <3> QED BY <1>1, <1>2, <1>3, <1>5, <3>2
  <2> QED BY <1>3, <1>5, <2>2, <2>3, <2>4 DEF Cut
<1> QED BY <1>4, <1>5, Zenon DEF Splits, n, r, q

(* A reader that returns v from the first n bytes of w, before t; or       *)
(* nothing when they are not all there.                                    *)
Parsed(r, v, n, w, t) ==
  IF Len(w) < n THEN r = Nothing
  ELSE r.ok /\ r.value = v /\ Cut(r.rest, t) /\ Len(r.rest) = Len(w) - n

LEMMA VarintParsed ==
  ASSUME NEW v, Small(v), NEW limit \in Nat, 5 <= limit, NEW t \in Seq(Nat),
         NEW w, Cut(w, PutVarint(v) \o t)
  PROVE  Parsed(GetVarint(w, limit), v, Len(PutVarint(v)), w, t)
<1> DEFINE p == PutVarint(v)
<1>1. p \in Seq(Nat) /\ Len(p) = branch(v) /\ branch(v) \in 1 .. 5
  BY VarintBytes
<1>2. Splits(w, p, t) /\ w \in Seq(Nat)
  BY <1>1, CutSplits DEF Cut
<1>3. GetVarint(w, limit) = IF Len(w) < branch(v) THEN Nothing ELSE Read(v, After(w, branch(v)))
  <2>1. \A i \in 1 .. Len(w) : i <= branch(v) => w[i] = p[i]
    BY <1>1, <1>2 DEF Splits
  <2> QED BY <1>2, <2>1, GetVarintOf
<1> HIDE DEF p
<1>4. CASE Len(w) < branch(v)
  BY <1>1, <1>3, <1>4 DEF Parsed, p
<1>5. CASE ~ (Len(w) < branch(v))
  <2> DEFINE r == After(w, branch(v))
  <2>1. GetVarint(w, limit) = Read(v, r) /\ ~ (Len(w) < Len(p))
    BY <1>1, <1>3, <1>5
  <2>2. Cut(r, t) /\ Len(r) = Len(w) - Len(p)
    <3>1. Len(p) <= Len(w)
      BY <1>1, <1>2, <1>5
    <3> QED BY <1>1, <1>2, <3>1 DEF Splits
  <2> HIDE DEF r
  <2> QED BY <2>1, <2>2 DEF Parsed, Read, p
<1> QED BY <1>4, <1>5

(* A slice, its length before it.                                          *)
LEMMA PutSliceIs ==
  ASSUME NEW p \in Seq(Nat), Small(Len(p))
  PROVE  /\ PutLengthPrefixedSlice(p) \in Seq(Nat)
         /\ Len(PutLengthPrefixedSlice(p)) = Len(PutVarint(Len(p))) + Len(p)
         /\ PutVarint(Len(p)) \in Seq(Nat)
         /\ Len(PutVarint(Len(p))) \in Nat \ {0}
<1> DEFINE q == PutVarint(Len(p))
<1>1. q \in Seq(Nat) /\ Len(q) \in Nat \ {0}
  BY VarintBytes
<1> HIDE DEF q
<1>2. q \o p \in Seq(Nat) /\ Len(q \o p) = Len(q) + Len(p)
  BY <1>1
<1> QED BY <1>1, <1>2 DEF q, PutLengthPrefixedSlice

LEMMA SliceParsed ==
  ASSUME NEW p \in Seq(Nat), Small(Len(p)), NEW t \in Seq(Nat),
         NEW w, Cut(w, PutLengthPrefixedSlice(p) \o t)
  PROVE  Parsed(GetLengthPrefixedSlice(w), p, Len(PutLengthPrefixedSlice(p)), w, t)
<1> DEFINE q == PutVarint(Len(p))
           s == PutLengthPrefixedSlice(p)
           len == GetVarint(w, 5)
           g == GetLengthPrefixedSlice(w)
<1>1. q \in Seq(Nat) /\ Len(q) \in Nat \ {0} /\ Len(p) \in Nat /\ Len(s) = Len(q) + Len(p)
  BY PutSliceIs
<1>2. s \o t = q \o (p \o t) /\ p \o t \in Seq(Nat)
  <2>1. q \in Seq(Nat)
    BY <1>1
  <2> HIDE DEF q
  <2>2. (q \o p) \o t = q \o (p \o t) /\ p \o t \in Seq(Nat)
    BY <2>1, ConcatAssociative, SMTT(30)
  <2> QED BY <2>2 DEF PutLengthPrefixedSlice, q
<1>3. Parsed(len, Len(p), Len(q), w, p \o t)
  <2>1. 5 \in Nat /\ 5 <= 5
    OBVIOUS
  <2>2. Cut(w, q \o (p \o t)) /\ p \o t \in Seq(Nat)
    BY <1>2
  <2> QED BY <2>1, <2>2, VarintParsed, Zenon
<1>4. g = IF len.ok /\ Len(len.rest) >= len.value
          THEN Read(SubSeq(len.rest, 1, len.value), After(len.rest, len.value))
          ELSE Nothing
  BY DEF GetLengthPrefixedSlice, GetVarint32
<1>5. Len(w) \in Nat
  BY DEF Cut
<1> HIDE DEF q, s, len, g
<1>6. CASE Len(w) < Len(q)
  <2>1. len = Nothing /\ Len(w) < Len(s)
    BY <1>1, <1>3, <1>5, <1>6 DEF Parsed
  <2>2. g = Nothing
    BY <1>4, <2>1 DEF Nothing
  <2>3. Parsed(g, p, Len(s), w, t)
    BY <2>1, <2>2 DEF Parsed
  <2> QED BY <2>3 DEF g, s
<1>7. CASE ~ (Len(w) < Len(q))
  <2> DEFINE x == len.rest
             a == After(x, Len(p))
  <2>1. len.ok /\ len.value = Len(p) /\ Cut(x, p \o t) /\ Len(x) = Len(w) - Len(q)
    BY <1>3, <1>7 DEF Parsed
  <2>2. Splits(x, p, t)
    BY <2>1, CutSplits
  <2>3. g = IF Len(x) >= Len(p) THEN Read(SubSeq(x, 1, Len(p)), a) ELSE Nothing
    BY <1>4, <2>1
  <2>4. Len(x) \in Nat
    BY <2>1 DEF Cut
  <2>5. Len(p) <= Len(x) => SubSeq(x, 1, Len(p)) = p /\ Cut(a, t) /\ Len(a) = Len(x) - Len(p)
    BY <2>2 DEF Splits
  <2> HIDE DEF x, a
  <2>6. CASE Len(x) >= Len(p)
    <3>1. g = Read(p, a) /\ Cut(a, t) /\ Len(a) = Len(w) - Len(s) /\ ~ (Len(w) < Len(s))
      <4>1. Len(p) <= Len(x)
        BY <1>1, <2>4, <2>6
      <4>2. g = Read(p, a)
        BY <2>3, <2>5, <2>6, <4>1
      <4>3. Cut(a, t) /\ Len(a) = Len(x) - Len(p)
        BY <2>5, <4>1
      <4> DEFINE lw == Len(w)
                 lx == Len(x)
                 lp == Len(p)
                 lq == Len(q)
      <4>4. lw \in Nat /\ lx \in Nat /\ lp \in Nat /\ lq \in Nat /\ lx = lw - lq /\ lp <= lx
        BY <1>1, <1>5, <2>1, <2>4, <4>1
      <4>5. lx - lp = lw - (lq + lp) /\ ~ (lw < lq + lp)
        <5> HIDE DEF lw, lx, lp, lq
        <5> QED BY <4>4
      <4> QED BY <1>1, <4>2, <4>3, <4>5
    <3>2. Parsed(g, p, Len(s), w, t)
      BY <3>1 DEF Parsed, Read
    <3> QED BY <3>2 DEF g, s
  <2>7. CASE ~ (Len(x) >= Len(p))
    <3>1. g = Nothing /\ Len(w) < Len(s)
      BY <1>1, <1>5, <1>7, <2>1, <2>3, <2>4, <2>7
    <3>2. Parsed(g, p, Len(s), w, t)
      BY <3>1 DEF Parsed
    <3> QED BY <3>2 DEF g, s
  <2> QED BY <2>6, <2>7
<1> QED BY <1>6, <1>7
-----------------------------------------------------------------------------
(* Induction over 0 .. n, by the smallest number that is missing.          *)
LEMMA Reaches ==
  ASSUME NEW n \in Nat, NEW D, 0 \in D, \A i \in 1 .. n : i - 1 \in D => i \in D
  PROVE  \A i \in 0 .. n : i \in D
<1> DEFINE E == (0 .. n) \ D
<1> SUFFICES ASSUME E # {} PROVE FALSE
  OBVIOUS
<1>1. E \in SUBSET Nat
  OBVIOUS
<1>2. PICK i \in E : \A j \in E : i <= j
  BY <1>1, SmallestExists
<1>3. i \in 1 .. n /\ i - 1 \in 0 .. n /\ ~ (i <= i - 1)
  <2>1. i # 0 /\ i \in 0 .. n
    OBVIOUS
  <2> QED BY <2>1
<1>4. i - 1 \in D
  BY <1>2, <1>3
<1> QED BY <1>3, <1>4

(* FlattenSeq, whose result is computed from the first sequence on.        *)
Flattens(h, s, n) ==
  h = [i \in 1 .. n |-> IF i = 1 THEN s[i] ELSE h[i - 1] \o s[i]]

LEMMA FlattenIsChosen ==
  ASSUME NEW s, NEW n \in Nat \ {0}, Len(s) = n
  PROVE  FlattenSeq(s) = (CHOOSE h : Flattens(h, s, n))[n]
  BY DEF FlattenSeq, Flattens

LEMMA FlattensExists ==
  ASSUME NEW s, NEW n \in Nat
  PROVE  \E h : Flattens(h, s, n)
<1> DEFINE D == {k \in Nat : ~ \E h : Flattens(h, s, k)}
<1> SUFFICES ASSUME D # {} PROVE FALSE
  OBVIOUS
<1>1. PICK k \in D : \A j \in D : k <= j
  <2>1. D \in SUBSET Nat
    OBVIOUS
  <2> QED BY <2>1, SmallestExists
<1>2. k \in Nat /\ ~ \E h : Flattens(h, s, k)
  OBVIOUS
<1>3. k # 0
  <2> SUFFICES ASSUME k = 0 PROVE FALSE
    OBVIOUS
  <2>1. Flattens(<<>>, s, 0)
    BY DEF Flattens
  <2> QED BY <1>2, <2>1
<1>4. k - 1 \in Nat /\ ~ (k <= k - 1)
  BY <1>2, <1>3
<1>5. PICK h : Flattens(h, s, k - 1)
  BY <1>1, <1>4
<1> DEFINE g == [i \in 1 .. k |-> IF i = 1 THEN s[i] ELSE h[i - 1] \o s[i]]
<1>6. \A i \in 1 .. k - 1 : g[i] = h[i]
  <2>1. \A i \in 1 .. k - 1 : h[i] = IF i = 1 THEN s[i] ELSE h[i - 1] \o s[i]
    BY <1>5 DEF Flattens
  <2>2. 1 .. k - 1 \subseteq 1 .. k
    BY <1>2, <1>4
  <2> QED BY <2>1, <2>2
<1>7. \A i \in 1 .. k : i # 1 => i - 1 \in 1 .. k - 1
  BY <1>2
<1>8. \A i \in 1 .. k : i # 1 => h[i - 1] = g[i - 1]
  BY <1>6, <1>7
<1>9. g = [i \in 1 .. k |-> IF i = 1 THEN s[i] ELSE g[i - 1] \o s[i]]
  <2> DEFINE x == [i \in 1 .. k |-> IF i = 1 THEN s[i] ELSE g[i - 1] \o s[i]]
  <2>1. \A i \in 1 .. k : g[i] = x[i]
    BY <1>8
  <2>2. g = [i \in 1 .. k |-> g[i]] /\ x = [i \in 1 .. k |-> x[i]]
    OBVIOUS
  <2> HIDE DEF g, x
  <2>3. g = x
    BY <2>1, <2>2
  <2> QED BY <2>3 DEF x
<1>10. Flattens(g, s, k)
  <2> HIDE DEF g
  <2> QED BY <1>9 DEF Flattens
<1> QED BY <1>2, <1>10

LEMMA FlattenIs ==
  ASSUME NEW s, NEW n \in Nat \ {0}, Len(s) = n
  PROVE  \E h : Flattens(h, s, n) /\ FlattenSeq(s) = h[n]
<1> DEFINE h == CHOOSE g : Flattens(g, s, n)
<1>1. Flattens(h, s, n)
  BY FlattensExists
<1>2. FlattenSeq(s) = h[n]
  BY FlattenIsChosen
<1> QED BY <1>1, <1>2

LEMMA FlattenEmpty == FlattenSeq(<<>>) = <<>>
  BY DEF FlattenSeq

LEMMA FlattenType ==
  ASSUME NEW S, NEW s \in Seq(Seq(S))
  PROVE  FlattenSeq(s) \in Seq(S)
<1>1. CASE s = <<>>
  <2>1. <<>> \in Seq(S)
    OBVIOUS
  <2> QED BY <1>1, <2>1, FlattenEmpty
<1>2. CASE s # <<>>
  <2> DEFINE n == Len(s)
  <2>1. n \in Nat \ {0} /\ \A i \in 1 .. n : s[i] \in Seq(S)
    BY <1>2, ElementOfSeq, LenProperties, EmptySeq
  <2> HIDE DEF n
  <2>2. PICK h : Flattens(h, s, n) /\ FlattenSeq(s) = h[n]
    BY <2>1, FlattenIs DEF n
  <2> DEFINE D == {i \in 1 .. n : h[i] \notin Seq(S)}
  <2>3. D = {}
    <3> SUFFICES ASSUME D # {} PROVE FALSE
      OBVIOUS
    <3>1. PICK i \in D : \A j \in D : i <= j
      <4>1. D \in SUBSET Nat
        OBVIOUS
      <4> QED BY <4>1, SmallestExists
    <3>2. i \in 1 .. n /\ i \in Nat /\ h[i] \notin Seq(S)
      OBVIOUS
    <3>3. h[i] = IF i = 1 THEN s[i] ELSE h[i - 1] \o s[i]
      BY <2>2, <3>2 DEF Flattens
    <3>4. CASE i = 1
      BY <2>1, <3>2, <3>3, <3>4
    <3>5. CASE i # 1
      <4>1. i - 1 \in 1 .. n /\ ~ (i <= i - 1)
        BY <2>1, <3>2, <3>5
      <4>2. h[i - 1] \in Seq(S)
        BY <3>1, <4>1
      <4> HIDE DEF D
      <4> QED BY <2>1, <3>2, <3>3, <3>5, <4>2, ConcatProperties
    <3> QED BY <3>4, <3>5
  <2> QED BY <2>1, <2>2, <2>3
<1> QED BY <1>1, <1>2

-----------------------------------------------------------------------------
(* Fixed numbers of four bytes: of a number that does not fit, what is     *)
(* read back is smaller.                                                   *)
FourBytes(s, v) ==
  /\ s \in Seq(Nat) /\ Len(s) = 4 /\ s[1] = v % 256 /\ s[2] = (v \div 256) % 256
  /\ s[3] = (v \div 65536) % 256 /\ s[4] = (v \div 16777216) % 256

LEMMA FixedFourIs ==
  ASSUME NEW v \in Nat
  PROVE  FourBytes(EncodeFixed(v, 4), v)
<1> DEFINE s == EncodeFixed(v, 4)
<1>1. /\ ByteWeight(0) = 1 /\ ByteWeight(1) = 256 /\ ByteWeight(2) = 65536
      /\ ByteWeight(3) = 16777216
  BY Powers DEF ByteWeight
<1>2. s = [i \in 1 .. 4 |-> IF i > 4 THEN 0 ELSE (v \div ByteWeight(i - 1)) % 256]
  BY Zenon DEF EncodeFixed, ByteWeight
<1> HIDE DEF s
<1>3. \A i \in 1 .. 4 : s[i] = (v \div ByteWeight(i - 1)) % 256
  BY <1>2
<1>4. /\ s[1] = (v \div ByteWeight(0)) % 256 /\ s[2] = (v \div ByteWeight(1)) % 256
      /\ s[3] = (v \div ByteWeight(2)) % 256 /\ s[4] = (v \div ByteWeight(3)) % 256
  <2> DEFINE byte(i) == (v \div ByteWeight(i)) % 256
  <2>1. \A i \in 1 .. 4 : s[i] = byte(i - 1)
    BY <1>3
  <2> HIDE DEF byte
  <2>2. 1 \in 1 .. 4 /\ 2 \in 1 .. 4 /\ 3 \in 1 .. 4 /\ 4 \in 1 .. 4
        /\ 1 - 1 = 0 /\ 2 - 1 = 1 /\ 3 - 1 = 2 /\ 4 - 1 = 3
    OBVIOUS
  <2>3. s[1] = byte(0) /\ s[2] = byte(1) /\ s[3] = byte(2) /\ s[4] = byte(3)
    <3>1. s[1] = byte(1 - 1) /\ s[2] = byte(2 - 1) /\ s[3] = byte(3 - 1) /\ s[4] = byte(4 - 1)
      BY <2>1, <2>2
    <3> QED BY <2>2, <3>1
  <2> QED BY <2>3 DEF byte
<1>5. /\ s[1] = v % 256 /\ s[2] = (v \div 256) % 256
      /\ s[3] = (v \div 65536) % 256 /\ s[4] = (v \div 16777216) % 256
  <2>1. v \div 1 = v
    OBVIOUS
  <2> QED BY <1>1, <1>4, <2>1, SMT
<1>6. \A i \in 1 .. 4 : s[i] \in Nat
  <2>1. /\ v % 256 \in Nat /\ (v \div 256) % 256 \in Nat
        /\ (v \div 65536) % 256 \in Nat /\ (v \div 16777216) % 256 \in Nat
    BY SMT
  <2>2. \A i \in 1 .. 4 : i = 1 \/ i = 2 \/ i = 3 \/ i = 4
    OBVIOUS
  <2> QED BY <1>5, <2>1, <2>2, SMT
<1>7. s = [i \in 1 .. 4 |-> s[i]]
  BY <1>2
<1>8. s \in Seq(Nat) /\ Len(s) = 4
  BY <1>6, <1>7
<1> QED BY <1>5, <1>8, SMT DEF s, FourBytes

LEMMA DecodeFour ==
  ASSUME NEW s \in Seq(Nat), Len(s) = 4
  PROVE  DecodeFixed(s) = s[1] + 256 * (s[2] + 256 * (s[3] + 256 * s[4]))
<1> DEFINE e == s[4] + 256 * 0
           d == s[3] + 256 * e
           c == s[2] + 256 * d
           b == s[1] + 256 * c
           g == [i \in 1 .. 4 + 1 |-> CASE i = 1 -> b [] i = 2 -> c [] i = 3 -> d [] i = 4 -> e
                                        [] OTHER -> 0]
           h == CHOOSE x : FixedSums(x, s, 4)
<1>1. DecodeFixed(s) = h[1]
  BY DecodeFixedIsChosen
<1>2. FixedSums(g, s, 4)
  <2> DEFINE x == [i \in 1 .. 4 + 1 |-> IF i > 4 THEN 0 ELSE s[i] + 256 * g[i + 1]]
  <2> HIDE DEF b, c, d, e
  <2>1. g[1] = b /\ g[2] = c /\ g[3] = d /\ g[4] = e /\ g[5] = 0 /\ g = [i \in 1 .. 4 + 1 |-> g[i]]
    OBVIOUS
  <2> HIDE DEF g
  <2>2. /\ x[1] = s[1] + 256 * g[2] /\ x[2] = s[2] + 256 * g[3] /\ x[3] = s[3] + 256 * g[4]
        /\ x[4] = s[4] + 256 * g[5] /\ x[5] = 0 /\ x = [i \in 1 .. 4 + 1 |-> x[i]]
    OBVIOUS
  <2> HIDE DEF x
  <2>3. x[1] = g[1] /\ x[2] = g[2] /\ x[3] = g[3] /\ x[4] = g[4] /\ x[5] = g[5]
    BY <2>1, <2>2, SMT DEF b, c, d, e
  <2>4. \A i \in 1 .. 4 + 1 : i = 1 \/ i = 2 \/ i = 3 \/ i = 4 \/ i = 5
    OBVIOUS
  <2>5. \A i \in 1 .. 4 + 1 : x[i] = g[i]
    BY <2>3, <2>4, Zenon
  <2>6. g = x
    BY <2>1, <2>2, <2>5, Zenon
  <2> QED BY <2>6, Zenon DEF FixedSums, x
<1>3. FixedSums(h, s, 4)
  BY <1>2, Zenon
<1> HIDE DEF b, c, d, e, g, h
<1>4. \A i \in 1 .. 5 : h[i] = IF i > 4 THEN 0 ELSE s[i] + 256 * h[i + 1]
  BY <1>3 DEF FixedSums
<1>5. /\ h[1] = s[1] + 256 * h[2] /\ h[2] = s[2] + 256 * h[3] /\ h[3] = s[3] + 256 * h[4]
      /\ h[4] = s[4] + 256 * h[5] /\ h[5] = 0
  BY <1>4
<1>6. s[4] \in Nat
  <2>1. 4 \in 1 .. Len(s)
    OBVIOUS
  <2> QED BY <2>1, ElementOfSeq
<1>7. h[4] = s[4]
  BY <1>5, <1>6
<1> QED BY <1>1, <1>5, <1>7

LEMMA FixedFourDecoded ==
  ASSUME NEW v \in Nat
  PROVE  /\ DecodeFixed(EncodeFixed(v, 4)) \in Nat
         /\ DecodeFixed(EncodeFixed(v, 4)) <= v
         /\ Small(v) => DecodeFixed(EncodeFixed(v, 4)) = v
<1> DEFINE s == EncodeFixed(v, 4)
           b == v \div 256
           c == v \div 65536
           d == v \div 16777216
<1>1. /\ s \in Seq(Nat) /\ Len(s) = 4 /\ s[1] = v % 256 /\ s[2] = b % 256
      /\ s[3] = c % 256 /\ s[4] = d % 256
  <2>1. FourBytes(s, v)
    BY FixedFourIs
  <2> HIDE DEF s
  <2> QED BY <2>1, SMT DEF FourBytes
<1>2. DecodeFixed(s) = s[1] + 256 * (s[2] + 256 * (s[3] + 256 * s[4]))
  BY <1>1, DecodeFour
<1>3. /\ b \in Nat /\ c \in Nat /\ d \in Nat
      /\ v = (v % 256) + 256 * b /\ b = (b % 256) + 256 * c /\ c = (c % 256) + 256 * d
      /\ v % 256 \in Nat /\ b % 256 \in Nat /\ c % 256 \in Nat /\ d % 256 \in Nat
      /\ d % 256 <= d /\ (Small(v) => d % 256 = d)
  BY SMT DEF Small
<1> HIDE DEF s, b, c, d
<1> DEFINE w == DecodeFixed(s)
           v1 == v % 256
           b1 == b % 256
           c1 == c % 256
           d1 == d % 256
<1>4. w = v1 + 256 * (b1 + 256 * (c1 + 256 * d1))
  BY <1>1, <1>2
<1>5. /\ v = v1 + 256 * b /\ b = b1 + 256 * c /\ c = c1 + 256 * d
      /\ v1 \in Nat /\ b1 \in Nat /\ c1 \in Nat /\ d1 \in Nat /\ d1 <= d
      /\ (Small(v) => d1 = d)
  BY <1>3
<1> HIDE DEF w, v1, b1, c1, d1
<1>6. v = v1 + 256 * (b1 + 256 * (c1 + 256 * d))
  BY <1>3, <1>5
<1>7. w \in Nat /\ w <= v
  BY <1>3, <1>4, <1>5, <1>6
<1>8. Small(v) => w = v
  BY <1>4, <1>5, <1>6
<1> QED BY <1>7, <1>8 DEF w, s

(* Where the sequences that were put one behind the other begin.           *)
Begin(o, s) ==
  /\ o[1] = 0
  /\ \A i \in 1 .. Len(s) : o[i] \in Nat /\ o[i + 1] = o[i] + Len(s[i])

Joins(s, t, S) ==
  /\ s \o t \in Seq(S) /\ Len(s \o t) = Len(s) + Len(t)
  /\ Len(s) \in Nat /\ Len(t) \in Nat
  /\ \A i \in 1 .. Len(s) : (s \o t)[i] = s[i]
  /\ \A i \in 1 .. Len(t) : (s \o t)[Len(s) + i] = t[i]

LEMMA JoinIs ==
  ASSUME NEW S, NEW s \in Seq(S), NEW t \in Seq(S)
  PROVE  Joins(s, t, S)
  BY DEF Joins

LEMMA FlattenAt ==
  ASSUME NEW S, NEW s \in Seq(Seq(S)), NEW o, Begin(o, s)
  PROVE  /\ Len(FlattenSeq(s)) = o[Len(s) + 1]
         /\ \A j \in 1 .. Len(s) : \A i \in 1 .. Len(s[j]) :
              /\ o[j] + i \in 1 .. Len(FlattenSeq(s))
              /\ FlattenSeq(s)[o[j] + i] = s[j][i]
<1> DEFINE n == Len(s)
<1>1. n \in Nat /\ \A i \in 1 .. n : s[i] \in Seq(S) /\ Len(s[i]) \in Nat
  BY ElementOfSeq, LenProperties
<1>2. o[1] = 0 /\ \A i \in 1 .. n : o[i] \in Nat /\ o[i + 1] = o[i] + Len(s[i])
  BY DEF Begin
<1>3. CASE n = 0
  <2>1. s = <<>>
    BY <1>3, EmptySeq
  <2>2. FlattenSeq(s) = <<>> /\ Len(<<>>) = 0
    BY <2>1, FlattenEmpty
  <2>3. 1 .. n = {} /\ n + 1 = 1
    BY <1>3
  <2> QED BY <1>2, <2>2, <2>3
<1>4. CASE n # 0
  <2>1. n \in Nat \ {0} /\ n \in 1 .. n
    BY <1>1, <1>4
  <2>2. PICK h : Flattens(h, s, n) /\ FlattenSeq(s) = h[n]
    BY <2>1, FlattenIs
  <2>3. \A i \in 1 .. n : h[i] = IF i = 1 THEN s[i] ELSE h[i - 1] \o s[i]
    BY <2>2 DEF Flattens
  <2> HIDE DEF n
  <2> DEFINE P(k) == /\ h[k] \in Seq(S) /\ Len(h[k]) = o[k + 1]
                     /\ \A j \in 1 .. k : \A i \in 1 .. Len(s[j]) :
                          o[j] + i \in 1 .. Len(h[k]) /\ h[k][o[j] + i] = s[j][i]
             D == {0} \cup {k \in 1 .. n : P(k)}
  <2>4. ASSUME NEW k \in 1 .. n, k - 1 \in D PROVE k \in D
    <3>1. CASE k = 1
      <4>1. h[1] = s[1] /\ s[1] \in Seq(S) /\ o[1] = 0 /\ o[2] = Len(s[1])
        <5>1. o[1 + 1] = o[1] + Len(s[1]) /\ 1 + 1 = 2
          BY <1>2, <3>1
        <5> QED BY <1>1, <1>2, <2>3, <3>1, <5>1
      <4>2. ASSUME NEW j \in 1 .. 1, NEW i \in 1 .. Len(s[j])
            PROVE  o[j] + i \in 1 .. Len(h[1]) /\ h[1][o[j] + i] = s[j][i]
        <5>1. j = 1 /\ i \in Int
          BY <1>1, <3>1
        <5>2. o[j] + i = i
          BY <4>1, <5>1
        <5> QED BY <4>1, <4>2, <5>1, <5>2
      <4>3. P(1)
        <5>1. 1 + 1 = 2
          OBVIOUS
        <5> QED BY <4>1, <4>2, <5>1
      <4> HIDE DEF P
      <4> QED BY <3>1, <4>3
    <3>2. CASE k # 1
      <4>1. k - 1 \in 1 .. n /\ k - 1 # 0 /\ k \in Nat /\ k - 1 + 1 = k
        BY <1>1, <3>2
      <4>2. P(k - 1)
        <5> HIDE DEF P
        <5> QED BY <2>4, <4>1
      <4> DEFINE a == h[k - 1]
                 b == s[k]
                 c == h[k]
      <4>3. /\ a \in Seq(S) /\ Len(a) = o[k] /\ b \in Seq(S) /\ c = a \o b
            /\ o[k] \in Nat /\ o[k + 1] = o[k] + Len(b)
        BY <1>1, <1>2, <2>3, <3>2, <4>1, <4>2
      <4>4. \A j \in 1 .. k - 1 : \A i \in 1 .. Len(s[j]) :
              o[j] + i \in 1 .. Len(a) /\ a[o[j] + i] = s[j][i]
        BY <4>2
      <4> HIDE DEF a, b, c
      <4>8. Joins(a, b, S)
        BY <4>3, JoinIs
      <4>5. /\ c \in Seq(S) /\ Len(c) = Len(a) + Len(b) /\ Len(a) \in Nat /\ Len(b) \in Nat
            /\ \A i \in 1 .. Len(a) : c[i] = a[i]
            /\ \A i \in 1 .. Len(b) : c[Len(a) + i] = b[i]
        BY <4>3, <4>8 DEF Joins
      <4>6. ASSUME NEW j \in 1 .. k, NEW i \in 1 .. Len(s[j])
            PROVE  o[j] + i \in 1 .. Len(c) /\ c[o[j] + i] = s[j][i]
        <5>1. CASE j = k
          <6>1. i \in 1 .. Len(b) /\ o[j] = Len(a)
            BY <4>3, <5>1 DEF b
          <6>2. Len(a) + i \in 1 .. Len(c)
            BY <4>5, <6>1
          <6> QED BY <4>5, <5>1, <6>1, <6>2 DEF b
        <5>2. CASE j # k
          <6>1. j \in 1 .. k - 1
            BY <4>1, <5>2
          <6>2. o[j] + i \in 1 .. Len(a) /\ a[o[j] + i] = s[j][i]
            BY <4>4, <6>1
          <6>3. o[j] + i \in 1 .. Len(c)
            BY <4>5, <6>2
          <6> QED BY <4>5, <6>2, <6>3
        <5> QED BY <5>1, <5>2
      <4>7. P(k)
        BY <4>3, <4>5, <4>6 DEF c
      <4> HIDE DEF P
      <4> QED BY <4>7
    <3> QED BY <3>1, <3>2
  <2>5. P(n)
    <3>1. n \in 0 .. n /\ n # 0
      BY <2>1
    <3>2. 0 \in D
      OBVIOUS
    <3> HIDE DEF D
    <3>3. n \in D
      BY <1>1, <2>4, <3>1, <3>2, Reaches
    <3> HIDE DEF P
    <3> QED BY <3>1, <3>3 DEF D
  <2> QED BY <2>2, <2>5 DEF n
<1> QED BY <1>3, <1>4

(* One sequence more, and where an element of the whole comes from.        *)
LEMMA FlattenAppend ==
  ASSUME NEW S, NEW s \in Seq(Seq(S)), NEW x \in Seq(S)
  PROVE  FlattenSeq(Append(s, x)) = FlattenSeq(s) \o x
<1> DEFINE n == Len(s)
           t == Append(s, x)
           T == Seq(S)
<1>1. n \in Nat /\ Len(t) = n + 1 /\ t[n + 1] = x /\ \A i \in 1 .. n : t[i] = s[i]
  <2>1. s \in Seq(T) /\ x \in T
    OBVIOUS
  <2> HIDE DEF T
  <2> QED BY <2>1, AppendFacts, LenProperties
<1> HIDE DEF n, t
<1>2. PICK g : Flattens(g, t, n + 1) /\ FlattenSeq(t) = g[n + 1]
  <2>1. n + 1 \in Nat \ {0}
    BY <1>1
  <2> QED BY <1>1, <2>1, FlattenIs
<1>3. \A i \in 1 .. n + 1 : g[i] = IF i = 1 THEN t[i] ELSE g[i - 1] \o t[i]
  BY <1>2 DEF Flattens
<1>4. CASE n = 0
  <2>1. FlattenSeq(s) = <<>>
    <3>1. s = <<>>
      BY <1>4, EmptySeq DEF n
    <3> QED BY <3>1, FlattenEmpty
  <2>2. g[n + 1] = x
    BY <1>1, <1>3, <1>4
  <2>3. <<>> \o x = x
    OBVIOUS
  <2> QED BY <1>2, <2>1, <2>2, <2>3 DEF t
<1>5. CASE n # 0
  <2>1. PICK h : Flattens(h, s, n) /\ FlattenSeq(s) = h[n]
    <3>1. n \in Nat \ {0} /\ Len(s) = n
      BY <1>1, <1>5 DEF n
    <3> QED BY <3>1, FlattenIs
  <2>2. \A i \in 1 .. n : h[i] = IF i = 1 THEN s[i] ELSE h[i - 1] \o s[i]
    BY <2>1 DEF Flattens
  <2> DEFINE D == {0} \cup {i \in 1 .. n : g[i] = h[i]}
  <2>3. ASSUME NEW i \in 1 .. n, i - 1 \in D PROVE i \in D
    <3>1. i \in 1 .. n + 1 /\ t[i] = s[i]
      BY <1>1
    <3>2. CASE i = 1
      BY <1>3, <2>2, <3>1, <3>2
    <3>3. CASE i # 1
      <4>1. g[i - 1] = h[i - 1]
        BY <1>1, <2>3, <3>3
      <4>2. g[i] = h[i]
        BY <1>3, <2>2, <3>1, <3>3, <4>1
      <4> QED BY <4>2
    <3> QED BY <3>2, <3>3
  <2>4. g[n] = h[n]
    <3>1. 0 \in D /\ n \in 0 .. n
      BY <1>1
    <3> HIDE DEF D
    <3>2. n \in D
      BY <1>1, <2>3, <3>1, Reaches
    <3> QED BY <1>5, <3>2 DEF D
  <2>5. g[n + 1] = g[n] \o x
    <3> DEFINE m == n + 1
    <3>1. m # 1 /\ m \in 1 .. n + 1 /\ m - 1 = n /\ t[m] = x
      BY <1>1, <1>5
    <3> HIDE DEF m
    <3>2. g[m] = g[m - 1] \o t[m]
      BY <1>3, <3>1
    <3> QED BY <3>1, <3>2 DEF m
  <2> QED BY <1>2, <2>1, <2>4, <2>5 DEF t
<1> QED BY <1>4, <1>5

LEMMA FlattenFrom ==
  ASSUME NEW S, NEW s \in Seq(Seq(S)), NEW k \in 1 .. Len(FlattenSeq(s))
  PROVE  \E j \in 1 .. Len(s) : \E i \in 1 .. Len(s[j]) : FlattenSeq(s)[k] = s[j][i]
<1> DEFINE n == Len(s)
           From(f, m) == \A l \in 1 .. Len(f) :
                           \E j \in 1 .. m : \E i \in 1 .. Len(s[j]) : f[l] = s[j][i]
<1>1. n \in Nat /\ \A i \in 1 .. n : s[i] \in Seq(S) /\ Len(s[i]) \in Nat
  BY ElementOfSeq, LenProperties
<1>2. n # 0
  <2> SUFFICES ASSUME n = 0 PROVE FALSE
    OBVIOUS
  <2>1. s = <<>>
    BY EmptySeq
  <2>2. FlattenSeq(s) = <<>> /\ Len(<<>>) = 0
    BY <2>1, FlattenEmpty
  <2> QED BY <2>2
<1>3. n \in Nat \ {0} /\ Len(s) = n
  BY <1>1, <1>2
<1> HIDE DEF n
<1>4. PICK h : Flattens(h, s, n) /\ FlattenSeq(s) = h[n]
  BY <1>3, FlattenIs
<1>5. \A i \in 1 .. n : h[i] = IF i = 1 THEN s[i] ELSE h[i - 1] \o s[i]
  BY <1>4 DEF Flattens
<1> DEFINE D == {0} \cup {m \in 1 .. n : h[m] \in Seq(S) /\ From(h[m], m)}
<1>6. ASSUME NEW m \in 1 .. n, m - 1 \in D PROVE m \in D
  <2>1. CASE m = 1
    <3>1. h[m] = s[1] /\ h[m] \in Seq(S)
      BY <1>1, <1>5, <2>1
    <3>2. From(h[m], m)
      BY <2>1, <3>1
    <3> HIDE DEF From
    <3> QED BY <3>1, <3>2
  <2>2. CASE m # 1
    <3>1. m - 1 \in 1 .. n /\ m - 1 # 0 /\ m \in Nat
      BY <1>1, <2>2
    <3>2. h[m - 1] \in Seq(S) /\ From(h[m - 1], m - 1)
      <4> HIDE DEF From
      <4> QED BY <1>6, <3>1
    <3> DEFINE a == h[m - 1]
               b == s[m]
               c == h[m]
    <3>3. a \in Seq(S) /\ b \in Seq(S) /\ c = a \o b
      BY <1>1, <1>5, <2>2, <3>2
    <3>4. \A l \in 1 .. Len(a) : \E j \in 1 .. m - 1 : \E i \in 1 .. Len(s[j]) : a[l] = s[j][i]
      BY <3>2
    <3>5. \A i \in 1 .. Len(b) : b[i] = s[m][i] /\ i \in 1 .. Len(s[m])
      OBVIOUS
    <3> HIDE DEF a, b, c, From
    <3>6. Joins(a, b, S)
      BY <3>3, JoinIs
    <3>7. /\ c \in Seq(S) /\ Len(c) = Len(a) + Len(b) /\ Len(a) \in Nat /\ Len(b) \in Nat
          /\ \A i \in 1 .. Len(a) : c[i] = a[i]
          /\ \A i \in 1 .. Len(b) : c[Len(a) + i] = b[i]
      BY <3>3, <3>6 DEF Joins
    <3>8. ASSUME NEW l \in 1 .. Len(c)
          PROVE  \E j \in 1 .. m : \E i \in 1 .. Len(s[j]) : c[l] = s[j][i]
      <4>1. CASE l <= Len(a)
        <5>1. l \in 1 .. Len(a)
          BY <3>7, <4>1
        <5>2. PICK j \in 1 .. m - 1 : \E i \in 1 .. Len(s[j]) : a[l] = s[j][i]
          BY <3>4, <5>1
        <5>3. j \in 1 .. m
          BY <3>1
        <5> QED BY <3>7, <5>1, <5>2, <5>3
      <4>2. CASE ~ (l <= Len(a))
        <5>1. l - Len(a) \in 1 .. Len(b) /\ Len(a) + (l - Len(a)) = l
          BY <3>7, <4>2
        <5>2. c[l] = b[l - Len(a)]
          BY <3>7, <5>1
        <5>3. m \in 1 .. m
          BY <3>1
        <5> QED BY <3>5, <5>1, <5>2, <5>3
      <4> QED BY <4>1, <4>2
    <3>9. From(c, m)
      BY <3>8 DEF From
    <3> QED BY <3>7, <3>9 DEF c
  <2> QED BY <2>1, <2>2
<1>7. From(h[n], n)
  <2>1. n \in 0 .. n /\ n # 0 /\ 0 \in D
    BY <1>3
  <2> HIDE DEF D
  <2>2. n \in D
    BY <1>1, <1>6, <2>1, Reaches
  <2> HIDE DEF From
  <2> QED BY <2>1, <2>2 DEF D
<1> QED BY <1>4, <1>7 DEF n

(* Where each of them begins, and the whole as the first of them and what  *)
(* follows it.                                                             *)
LEMMA BeginExists ==
  ASSUME NEW S, NEW s \in Seq(Seq(S))
  PROVE  \E o : Begin(o, s)
<1> DEFINE n == Len(s)
<1>1. n \in Nat /\ \A i \in 1 .. n : s[i] \in Seq(S) /\ Len(s[i]) \in Nat
  BY ElementOfSeq, LenProperties
<1> HIDE DEF n
<1>2. PICK h : Flattens(h, s, n)
  BY <1>1, FlattensExists
<1>3. \A i \in 1 .. n : h[i] = IF i = 1 THEN s[i] ELSE h[i - 1] \o s[i]
  BY <1>2 DEF Flattens
<1> DEFINE o == [i \in 1 .. n + 1 |-> IF i = 1 THEN 0 ELSE Len(h[i - 1])]
           D == {0} \cup {i \in 1 .. n : h[i] \in Seq(S)}
<1>4. ASSUME NEW i \in 1 .. n, i - 1 \in D PROVE i \in D
  <2>1. CASE i = 1
    BY <1>1, <1>3, <2>1
  <2>2. CASE i # 1
    <3>1. h[i - 1] \in Seq(S) /\ h[i] = h[i - 1] \o s[i] /\ s[i] \in Seq(S)
      <4>1. i - 1 # 0 /\ h[i] = h[i - 1] \o s[i] /\ s[i] \in Seq(S)
        <5>1. h[i] = h[i - 1] \o s[i]
          BY <1>3, <2>2
        <5>2. s[i] \in Seq(S)
          BY <1>1
        <5>3. i - 1 # 0
          BY <1>1, <2>2
        <5> QED BY <5>1, <5>2, <5>3
      <4>2. h[i - 1] \in Seq(S)
        BY <1>4, <4>1
      <4> QED BY <4>1, <4>2
    <3>2. h[i] \in Seq(S)
      BY <3>1, ConcatProperties
    <3> QED BY <3>2
  <2> QED BY <2>1, <2>2
<1>5. ASSUME NEW i \in 1 .. n PROVE h[i] \in Seq(S)
  <2>1. 0 \in D /\ i \in 0 .. n /\ i # 0
    BY <1>1
  <2> HIDE DEF D
  <2>2. i \in D
    BY <1>1, <1>4, <2>1, Reaches
  <2> QED BY <2>1, <2>2 DEF D
<1>6. \A i \in 1 .. n + 1 : o[i] = IF i = 1 THEN 0 ELSE Len(h[i - 1])
  OBVIOUS
<1> HIDE DEF o, D
<1>7. ASSUME NEW i \in 1 .. n
      PROVE  o[i] \in Nat /\ o[i + 1] = o[i] + Len(s[i])
  <2>1. i \in 1 .. n + 1 /\ i + 1 \in 1 .. n + 1 /\ i + 1 # 1 /\ i + 1 - 1 = i
    BY <1>1
  <2>2. o[i + 1] = Len(h[i])
    BY <1>6, <2>1
  <2>3. CASE i = 1
    <3>1. o[i] = 0 /\ h[i] = s[i]
      BY <1>3, <1>6, <2>1, <2>3
    <3>2. Len(s[i]) \in Nat
      BY <1>1
    <3> QED BY <2>2, <3>1, <3>2
  <2>4. CASE i # 1
    <3>1. i - 1 \in 1 .. n
      BY <1>1, <2>4
    <3>2. /\ o[i] = Len(h[i - 1]) /\ h[i] = h[i - 1] \o s[i]
          /\ h[i - 1] \in Seq(S) /\ s[i] \in Seq(S)
      BY <1>1, <1>3, <1>5, <1>6, <2>1, <2>4, <3>1
    <3> DEFINE x == h[i - 1]
               y == s[i]
    <3>3. x \in Seq(S) /\ y \in Seq(S)
      BY <3>2
    <3> HIDE DEF x, y
    <3>4. Joins(x, y, S)
      BY <3>3, JoinIs
    <3>5. Len(x \o y) = Len(x) + Len(y) /\ Len(x) \in Nat
      BY <3>4 DEF Joins
    <3> QED BY <2>2, <3>2, <3>5 DEF x, y
  <2> QED BY <2>3, <2>4
<1>8. o[1] = 0
  BY <1>1, <1>6
<1>9. Begin(o, s)
  BY <1>7, <1>8 DEF Begin, n
<1> QED BY <1>9

Tails(f, o, s) ==
  /\ \A j \in 1 .. Len(s) : /\ After(f, o[j]) = s[j] \o After(f, o[j + 1])
                            /\ After(f, o[j + 1]) \in Seq(Nat)
  /\ After(f, o[1]) = f /\ After(f, o[Len(s) + 1]) = <<>>

LEMMA FlattenTails ==
  ASSUME NEW s \in Seq(Seq(Nat)), NEW o, Begin(o, s), \A j \in 1 .. Len(s) : Len(s[j]) # 0
  PROVE  Tails(FlattenSeq(s), o, s)
<1> DEFINE n == Len(s)
           f == FlattenSeq(s)
           N == Len(f)
<1>1. n \in Nat /\ \A i \in 1 .. n : s[i] \in Seq(Nat) /\ Len(s[i]) \in Nat /\ Len(s[i]) # 0
  BY ElementOfSeq, LenProperties
<1>2. f \in Seq(Nat) /\ N \in Nat
  BY FlattenType, LenProperties
<1>3. o[1] = 0 /\ \A i \in 1 .. n : o[i] \in Nat /\ o[i + 1] = o[i] + Len(s[i])
  BY DEF Begin
<1>4. /\ N = o[n + 1]
      /\ \A j \in 1 .. n : \A i \in 1 .. Len(s[j]) :
           o[j] + i \in 1 .. N /\ f[o[j] + i] = s[j][i]
  BY FlattenAt
<1> HIDE DEF n, f, N
<1>5. ASSUME NEW k \in 0 .. N
      PROVE  /\ After(f, k) \in Seq(Nat) /\ Len(After(f, k)) = N - k
             /\ \A i \in 1 .. N - k : After(f, k)[i] = f[k + i]
  <2>1. k \in 0 .. Len(f)
    BY DEF N
  <2> QED BY <1>2, <2>1, Parts DEF N
<1>6. ASSUME NEW j \in 1 .. n
      PROVE  /\ After(f, o[j]) = s[j] \o After(f, o[j + 1])
             /\ After(f, o[j + 1]) \in Seq(Nat)
  <2> DEFINE a == o[j]
             b == o[j + 1]
             l == Len(s[j])
             w == s[j]
             t == After(f, b)
             u == After(f, a)
  <2>1. a \in Nat /\ b = a + l /\ l \in Nat /\ l # 0 /\ w \in Seq(Nat)
    BY <1>1, <1>3
  <2>2. b \in 0 .. N /\ a \in 0 .. N
    <3>1. l \in 1 .. l
      BY <2>1
    <3>2. a + l \in 1 .. N
      BY <1>4, <3>1
    <3> HIDE DEF a, b, l
    <3> QED BY <1>2, <2>1, <3>2
  <2>3. \A i \in 1 .. l : f[a + i] = w[i]
    BY <1>4
  <2>4. Len(w) = l
    OBVIOUS
  <2> HIDE DEF a, b, l, w
  <2>5. /\ t \in Seq(Nat) /\ Len(t) = N - b /\ \A i \in 1 .. N - b : t[i] = f[b + i]
        /\ u \in Seq(Nat) /\ Len(u) = N - a /\ \A i \in 1 .. N - a : u[i] = f[a + i]
    BY <1>5, <2>2
  <2> HIDE DEF t, u
  <2> DEFINE v == w \o t
  <2>6. /\ v \in Seq(Nat) /\ Len(v) = l + (N - b)
        /\ \A i \in 1 .. l : v[i] = w[i]
        /\ \A i \in 1 .. N - b : v[l + i] = t[i]
    <3>1. Joins(w, t, Nat)
      BY <2>1, <2>5, JoinIs
    <3> QED BY <2>4, <2>5, <3>1 DEF Joins
  <2> HIDE DEF v
  <2>7. Len(v) = N - a
    BY <1>2, <2>1, <2>2, <2>6
  <2>8. ASSUME NEW i \in 1 .. N - a PROVE u[i] = v[i]
    <3>1. CASE i <= l
      <4>1. i \in 1 .. l
        BY <2>1, <3>1
      <4> QED BY <2>3, <2>5, <2>6, <4>1
    <3>2. CASE ~ (i <= l)
      <4>1. i - l \in 1 .. N - b /\ l + (i - l) = i /\ b + (i - l) = a + i
        BY <1>2, <2>1, <2>2, <3>2
      <4>2. v[l + (i - l)] = t[i - l] /\ t[i - l] = f[b + (i - l)]
        BY <2>5, <2>6, <4>1
      <4> QED BY <2>5, <4>1, <4>2
    <3> QED BY <3>1, <3>2
  <2>9. u = v
    BY <1>2, <2>5, <2>6, <2>7, <2>8, SeqEqual
  <2> QED BY <2>5, <2>9 DEF a, b, w, t, u, v
<1>7. After(f, o[1]) = f
  <2>1. 0 \in 0 .. N
    BY <1>2
  <2> DEFINE u == After(f, 0)
  <2>2. u \in Seq(Nat) /\ Len(u) = N /\ \A i \in 1 .. N : u[i] = f[i]
    <3>1. u \in Seq(Nat) /\ Len(u) = N - 0 /\ \A i \in 1 .. N - 0 : u[i] = f[0 + i]
      BY <1>5, <2>1
    <3> HIDE DEF u
    <3>2. N - 0 = N /\ \A i \in 1 .. N : 0 + i = i
      BY <1>2
    <3> QED BY <3>1, <3>2
  <2> HIDE DEF u
  <2>3. u = f
    BY <1>2, <2>2, SeqEqual DEF N
  <2> QED BY <1>3, <2>3 DEF u
<1>8. After(f, o[n + 1]) = <<>>
  <2>1. N \in 0 .. N /\ N - N = 0
    BY <1>2
  <2>2. After(f, N) \in Seq(Nat) /\ Len(After(f, N)) = 0
    BY <1>5, <2>1
  <2>3. After(f, N) = <<>>
    BY <2>2, EmptySeq
  <2> QED BY <1>4, <2>3
<1> QED BY <1>6, <1>7, <1>8 DEF Tails, n, f
=============================================================================
