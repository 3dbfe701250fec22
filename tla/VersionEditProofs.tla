------------------------- MODULE VersionEditProofs --------------------------
(***************************************************************************)
(* What DecodeFrom makes of an edit (main/versionedit.cpp), for every edit *)
(* and every place where its bytes may have been cut: that the lengths of  *)
(* an entry agree, that a whole edit is read back, and that a cut one is   *)
(* never read as another.  Then what versions make of edits                *)
(* (main/versionset.cpp), for any files, levels and number of Builders:    *)
(* that the counters of the versions and of their files are right, that a  *)
(* get finds in a version all the files that may have its key, and that a  *)
(* Builder saves what its edits ask for.                                   *)
(***************************************************************************)
EXTENDS VersionBuilder, FormatProofs, FiniteSetTheorems

(* What is left to read behind the first p fields, and what they decode to.*)
Unread(e, p) == FlattenSeq(SubSeq(Fields(e), p + 1, Len(Fields(e))))

Deleted(e) == Cardinality(e.deleted_files_)

DecodedAfter(e, p) ==
  [log_number_ |-> Unset,
   prev_log_number_ |-> IF p >= 1 THEN e.prev_log_number_ ELSE Unset,
   next_file_number_ |-> IF p >= 2 THEN e.next_file_number_ ELSE Unset,
   last_sequence_ |-> IF p >= 3 THEN e.last_sequence_ ELSE Unset,
   deleted_files_ |-> {Sorted(e.deleted_files_)[i] : i \in {j \in 1 .. Deleted(e) : j <= p - 3}},
   new_files_ |-> [i \in 1 .. p - 3 - Deleted(e) |-> e.new_files_[i].level]]

FileAfter(e, p) ==
  IF p - 3 - Deleted(e) > 0 THEN e.new_files_[p - 3 - Deleted(e)].file ELSE NoFile

(* With w left to read of the edit e cut by c bytes, and d and g decoded,  *)
(* DecodeFrom stands behind the first p fields; the next one has bytes.    *)
Behind(e, c, w, d, g, p) ==
  /\ p \in 0 .. Len(Fields(e))
  /\ Cut(w, Unread(e, p))
  /\ Len(w) = Len(Unread(e, p)) - c
  /\ d = DecodedAfter(e, p)
  /\ g = FileAfter(e, p)

Settled(e, p) == p = Len(Fields(e)) \/ Fields(e)[p + 1] # <<>>

(* The inductive invariant: until it reports corruption, which it does     *)
(* only when bytes are missing, DecodeFrom stands between two fields.      *)
Good(e, c, w, d, g, m) ==
  /\ e \in Edits /\ c \in Nat
  /\ m \in {"", "done", "corruption"}
  /\ m # "corruption" => \E p \in Nat : Behind(e, c, w, d, g, p) /\ Settled(e, p)
  /\ m = "done" => w = <<>>
  /\ m = "corruption" => c # 0

IInv == Good(edit, cut, input, decoded, f, msg)
-----------------------------------------------------------------------------
(* Numbers and lengths of an edit are small enough to be read back.        *)
LEMMA Bounds ==
  /\ \A n \in Number : Small(n)
  /\ \A n \in Nat : n < 2^29 => Small(n) /\ Small(n + 1) /\ Small(n + 9)
  /\ \A n, m \in Nat : n < 2^29 /\ m < 2^29 => Small(n + m + 20)
<1>2. \A n \in Number : Small(n)
  BY SMT DEF Number, Small
<1>3. \A n \in Nat : n < 2^29 => Small(n) /\ Small(n + 1) /\ Small(n + 9)
  BY SMT DEF Small
<1>4. \A n, m \in Nat : n < 2^29 /\ m < 2^29 => Small(n + m + 20)
  BY SMT DEF Small
<1> QED BY <1>2, <1>3, <1>4

LEMMA SmallLess ==
  ASSUME NEW n, Small(n), NEW m \in Nat, m <= n
  PROVE  Small(m)
  BY SMT DEF Small

LEMMA TextIs ==
  ASSUME NEW s \in Text
  PROVE  s \in Seq(Nat) /\ Len(s) \in Nat /\ Small(Len(s) + 1) /\ Small(Len(s) + 9)
<1>1. s \in Seq(0 .. 255) /\ Len(s) < 2^29
  BY DEF Text
<1>2. s \in Seq(Nat) /\ Len(s) \in Nat
  <2>1. 0 .. 255 \subseteq Nat
    OBVIOUS
  <2>2. s \in Seq(Nat)
    BY <1>1, <2>1, SeqMonotonic
  <2> QED BY <2>2
<1> QED BY <1>1, <1>2, Bounds

(* The parts of an encoded entry: what its first length counts, then the   *)
(* value behind its own.                                                   *)
KeyPart(e) == e.key \o <<0>> \o <<IF e.value_type THEN 1 ELSE 0>> \o EncodeFixed(e.seq_num, 7)
ValuePart(e) == e.value \o <<0>>

LEMMA KeyPartIs ==
  ASSUME NEW e \in MemEntry
  PROVE  /\ KeyPart(e) \in Seq(Nat) /\ Len(KeyPart(e)) = Len(e.key) + 9
         /\ \A i \in 1 .. Len(e.key) : KeyPart(e)[i] = e.key[i]
         /\ KeyPart(e)[Len(e.key) + 2] = IF e.value_type THEN 1 ELSE 0
         /\ \A i \in 1 .. 7 : KeyPart(e)[Len(e.key) + 2 + i] = EncodeFixed(e.seq_num, 7)[i]
<1> DEFINE k == e.key
           b == IF e.value_type THEN 1 ELSE 0
           x == EncodeFixed(e.seq_num, 7)
           n == Len(k)
<1>1. k \in Seq(Nat) /\ n \in Nat /\ b \in Nat
  BY TextIs DEF MemEntry
<1>2. x \in Seq(Nat) /\ Len(x) = 7
  BY Bounds, EncodeFixedType DEF MemEntry
<1>3. KeyPart(e) = ((k \o <<0>>) \o <<b>>) \o x
  BY DEF KeyPart
<1> HIDE DEF b, x, k
<1> DEFINE k1 == k \o <<0>>
<1>4. /\ k1 \in Seq(Nat) /\ Len(k1) = n + 1
      /\ \A i \in 1 .. n : k1[i] = k[i]
  BY <1>1
<1> HIDE DEF k1
<1> DEFINE k2 == k1 \o <<b>>
<1>5. /\ k2 \in Seq(Nat) /\ Len(k2) = n + 2
      /\ \A i \in 1 .. n + 1 : k2[i] = k1[i]
      /\ k2[n + 2] = b
  <2>1. Len(k1) + 1 = n + 2
    BY <1>1, <1>4
  <2> HIDE DEF n
  <2> QED BY <1>1, <1>4, <2>1
<1> HIDE DEF k2
<1> DEFINE k3 == k2 \o x
<1>6. /\ k3 \in Seq(Nat) /\ Len(k3) = n + 9
      /\ \A i \in 1 .. n + 2 : k3[i] = k2[i]
      /\ \A i \in 1 .. 7 : k3[n + 2 + i] = x[i]
  <2>1. Len(k2) + Len(x) = n + 9 /\ Len(k2) = n + 2
    BY <1>1, <1>2, <1>5
  <2>2. /\ k3 \in Seq(Nat) /\ Len(k3) = Len(k2) + Len(x)
        /\ \A i \in 1 .. Len(k2) : k3[i] = k2[i]
        /\ \A i \in 1 .. Len(x) : k3[Len(k2) + i] = x[i]
    <3>1. k2 \in Seq(Nat) /\ x \in Seq(Nat)
      BY <1>2, <1>5
    <3> QED BY <3>1, ConcatIs
  <2> HIDE DEF n, k3
  <2> QED BY <1>2, <2>1, <2>2
<1> HIDE DEF k3
<1>7. \A i \in 1 .. n : k3[i] = k[i]
  <2>1. \A i \in 1 .. n : i \in 1 .. n + 1 /\ i \in 1 .. n + 2
    BY <1>1
  <2> QED BY <1>4, <1>5, <1>6, <2>1
<1>8. k3[n + 2] = b
  <2>1. n + 2 \in 1 .. n + 2
    BY <1>1
  <2> HIDE DEF n
  <2> QED BY <1>5, <1>6, <2>1
<1>9. KeyPart(e) = k3
  BY <1>3 DEF k3, k2, k1
<1> QED BY <1>6, <1>7, <1>8, <1>9 DEF k, b, x

(* Associativity, and under a name that the provers find it by.            *)
Regrouped(a, b, c, d, g, h, i, j) ==
  ((((((a \o b) \o c) \o d) \o g) \o h) \o i) \o j
    = a \o ((((b \o c) \o d) \o g) \o (h \o (i \o j)))

LEMMA Regroup ==
  ASSUME NEW a \in Seq(Nat), NEW b \in Seq(Nat), NEW c \in Seq(Nat), NEW d \in Seq(Nat),
         NEW g \in Seq(Nat), NEW h \in Seq(Nat), NEW i \in Seq(Nat), NEW j \in Seq(Nat)
  PROVE  Regrouped(a, b, c, d, g, h, i, j)
<1> DEFINE k == ((b \o c) \o d) \o g
<1>1. b \o c \in Seq(Nat) /\ (b \o c) \o d \in Seq(Nat) /\ k \in Seq(Nat)
  BY ConcatIs
<1>2. (((a \o b) \o c) \o d) \o g = a \o k
  <2>1. Assoc(a, b, c)
    BY AssocIs, Zenon
  <2>2. Assoc(a, b \o c, d)
    BY <1>1, AssocIs, Zenon
  <2>3. Assoc(a, (b \o c) \o d, g)
    BY <1>1, AssocIs, Zenon
  <2> QED BY <2>1, <2>2, <2>3, Zenon DEF Assoc
<1> HIDE DEF k
<1>3. a \o k \in Seq(Nat) /\ i \o j \in Seq(Nat) /\ (a \o k) \o h \in Seq(Nat)
      /\ h \o (i \o j) \in Seq(Nat)
  BY <1>1, ConcatIs
<1>4. Assoc((a \o k) \o h, i, j)
  BY <1>3, AssocIs, Zenon
<1>5. Assoc(a \o k, h, i \o j)
  BY <1>3, AssocIs, Zenon
<1>6. Assoc(a, k, h \o (i \o j))
  BY <1>1, <1>3, AssocIs, Zenon
<1> QED BY <1>2, <1>4, <1>5, <1>6, Zenon DEF k, Assoc, Regrouped

LEMMA EntryIs ==
  ASSUME NEW e \in MemEntry
  PROVE  /\ EncodeMemEntry(e) =
              PutVarint(Len(e.key) + 9)
                \o (KeyPart(e) \o (PutVarint(Len(e.value) + 1) \o ValuePart(e)))
         /\ PutVarint(Len(e.key) + 9) \in Seq(Nat) /\ Small(Len(e.key) + 9)
         /\ Len(PutVarint(Len(e.key) + 9)) = branch(Len(e.key) + 9)
         /\ PutVarint(Len(e.value) + 1) \in Seq(Nat) /\ Small(Len(e.value) + 1)
         /\ Len(PutVarint(Len(e.value) + 1)) = branch(Len(e.value) + 1)
         /\ branch(Len(e.key) + 9) \in 1 .. 5 /\ branch(Len(e.value) + 1) \in 1 .. 5
         /\ ValuePart(e) \in Seq(Nat) /\ Len(ValuePart(e)) = Len(e.value) + 1
         /\ \A i \in 1 .. Len(e.value) : ValuePart(e)[i] = e.value[i]
<1> DEFINE k == e.key
           v == e.value
           b == IF e.value_type THEN 1 ELSE 0
           x == EncodeFixed(e.seq_num, 7)
           p == PutVarint(Len(k) + 9)
           q == PutVarint(Len(v) + 1)
<1>1. k \in Seq(Nat) /\ v \in Seq(Nat) /\ b \in Nat /\ Small(Len(k) + 9) /\ Small(Len(v) + 1)
      /\ Len(v) \in Nat
  BY TextIs DEF MemEntry
<1>2. x \in Seq(Nat)
  BY Bounds, EncodeFixedType DEF MemEntry
<1>3. /\ p \in Seq(Nat) /\ Len(p) = branch(Len(k) + 9) /\ branch(Len(k) + 9) \in 1 .. 5
      /\ q \in Seq(Nat) /\ Len(q) = branch(Len(v) + 1) /\ branch(Len(v) + 1) \in 1 .. 5
  BY <1>1, VarintBytes
<1>4. EncodeMemEntry(e) = ((((((p \o k) \o <<0>>) \o <<b>>) \o x) \o q) \o v) \o <<0>>
  BY DEF EncodeMemEntry
<1>5. KeyPart(e) = ((k \o <<0>>) \o <<b>>) \o x /\ ValuePart(e) = v \o <<0>>
  BY DEF KeyPart, ValuePart
<1> HIDE DEF k, v, b, x, p, q
<1>6. EncodeMemEntry(e) = p \o (KeyPart(e) \o (q \o ValuePart(e)))
  <2> DEFINE z == <<0>>
             y == <<b>>
  <2>1. z \in Seq(Nat) /\ y \in Seq(Nat)
    BY <1>1
  <2> HIDE DEF z, y
  <2>2. Regrouped(p, k, z, y, x, q, v, z)
    BY <1>1, <1>2, <1>3, <2>1, Regroup, Zenon
  <2> QED BY <1>4, <1>5, <2>2 DEF z, y, Regrouped
<1>7. /\ v \o <<0>> \in Seq(Nat) /\ Len(v \o <<0>>) = Len(v) + 1
      /\ \A i \in 1 .. Len(v) : (v \o <<0>>)[i] = v[i]
  BY <1>1
<1> QED BY <1>1, <1>3, <1>5, <1>6, <1>7 DEF k, v, p, q

LEMMA EntryLength ==
  ASSUME NEW e \in MemEntry
  PROVE  /\ EncodeMemEntry(e) \in Seq(Nat) /\ Small(Len(EncodeMemEntry(e)))
         /\ Len(EncodeMemEntry(e)) = encoded_len(e)
<1> DEFINE p == PutVarint(Len(e.key) + 9)
           q == PutVarint(Len(e.value) + 1)
           k == KeyPart(e)
           v == ValuePart(e)
           nk == Len(e.key)
           nv == Len(e.value)
           bk == branch(Len(e.key) + 9)
           bv == branch(Len(e.value) + 1)
<1>1. /\ p \in Seq(Nat) /\ q \in Seq(Nat) /\ k \in Seq(Nat) /\ v \in Seq(Nat)
      /\ Len(p) = bk /\ Len(q) = bv /\ Len(k) = nk + 9 /\ Len(v) = nv + 1
      /\ bk \in 1 .. 5 /\ bv \in 1 .. 5
      /\ EncodeMemEntry(e) = p \o (k \o (q \o v))
  BY EntryIs, KeyPartIs
<1>2. nk \in Nat /\ nv \in Nat /\ nk < 2^29 /\ nv < 2^29
  BY TextIs DEF MemEntry, Text
<1>3. VarintLength(nk + 9) = bk /\ VarintLength(nv + 1) = bv
  BY <1>2, VarintLengthIs, SMT
<1>4. encoded_len(e) = VarintLength(nk + 9) + nk + 9 + VarintLength(nv + 1) + nv + 1
  BY DEF encoded_len
<1> HIDE DEF p, q, k, v, nk, nv, bk, bv
<1>5. /\ p \o (k \o (q \o v)) \in Seq(Nat)
      /\ Len(p \o (k \o (q \o v))) = Len(p) + (Len(k) + (Len(q) + Len(v)))
  <2>1. q \o v \in Seq(Nat) /\ Len(q \o v) = Len(q) + Len(v)
    BY <1>1, ConcatIs
  <2>2. k \o (q \o v) \in Seq(Nat) /\ Len(k \o (q \o v)) = Len(k) + Len(q \o v)
    BY <1>1, <2>1, ConcatIs
  <2>3. /\ p \o (k \o (q \o v)) \in Seq(Nat)
        /\ Len(p \o (k \o (q \o v))) = Len(p) + Len(k \o (q \o v))
    BY <1>1, <2>2, ConcatIs
  <2> QED BY <2>1, <2>2, <2>3
<1>6. Len(EncodeMemEntry(e)) = bk + (nk + 9 + (bv + (nv + 1)))
  BY <1>1, <1>5
<1>7. bk + (nk + 9 + (bv + (nv + 1))) = bk + nk + 9 + bv + nv + 1
      /\ bk + (nk + 9 + (bv + (nv + 1))) \in Nat
      /\ bk + (nk + 9 + (bv + (nv + 1))) <= nk + nv + 20
      /\ nk + nv + 20 \in Nat
  BY <1>1, <1>2, SMT
<1>8. Small(nk + nv + 20)
  BY <1>2, Bounds, SMT
<1> QED BY <1>1, <1>3, <1>4, <1>5, <1>6, <1>7, <1>8, SmallLess

(* EncodeMemEntry fills exactly what it allocates: the two ways to count   *)
(* the bytes of a length agree, for every entry.                           *)
THEOREM LengthsCorrect == Spec => []LengthsAgree
<1>1. Init => edit \in Edits
  BY DEF Init
<1>2. edit \in Edits /\ [Next]_vars => (edit \in Edits)'
  BY DEF Next, vars, number, deletedFile, newFile, endOfLoop
<1>3. edit \in Edits => LengthsAgree
  <2> SUFFICES ASSUME edit \in Edits, NEW i \in DOMAIN edit.new_files_,
                      NEW e \in {edit.new_files_[i].file.smallest, edit.new_files_[i].file.largest}
               PROVE  Len(EncodeMemEntry(e)) = encoded_len(e)
    BY DEF LengthsAgree
  <2>1. edit.new_files_ \in Seq(NewFile)
    BY VersionEditAssumption DEF Edit
  <2>2. edit.new_files_[i] \in NewFile
    BY <2>1
  <2>3. e \in MemEntry
    BY <2>2 DEF NewFile, FileMetaData
  <2> QED BY <2>3, EntryLength
<1> QED BY <1>1, <1>2, <1>3, PTL DEF Spec
-----------------------------------------------------------------------------
LEMMA WholeVarint ==
  ASSUME NEW v, Small(v), NEW t \in Seq(Nat)
  PROVE  GetVarint(PutVarint(v) \o t, 5) = Read(v, t)
<1> DEFINE p == PutVarint(v)
           w == p \o t
           b == branch(v)
<1>1. p \in Seq(Nat) /\ Len(p) = b /\ b \in 1 .. 5
  BY VarintBytes
<1>2. w \in Seq(Nat) /\ Len(w) = Len(p) + Len(t) /\ \A i \in 1 .. Len(p) : w[i] = p[i]
  BY <1>1, ConcatIs
<1>3. Len(t) \in Nat /\ 5 \in Nat /\ 5 <= 5
  OBVIOUS
<1>4. GetVarint(w, 5) = IF Len(w) < b THEN Nothing ELSE Read(v, After(w, b))
  <2>1. \A i \in 1 .. Len(w) : i <= b => w[i] = p[i]
    <3> HIDE DEF w, p, b
    <3> QED BY <1>1, <1>2
  <2> QED BY <1>2, <1>3, <2>1, GetVarintOf
<1>5. After(w, b) = t
  <2>1. Splits(w, p, t)
    BY <1>1, <1>2, CutSelf, CutSplits
  <2> HIDE DEF w, p, b
  <2>2. Cut(After(w, b), t) /\ Len(After(w, b)) = Len(w) - Len(p)
    BY <1>1, <1>2, <1>3, <2>1 DEF Splits
  <2>3. Len(After(w, b)) = Len(t)
    BY <1>1, <1>2, <1>3, <2>2
  <2> QED BY <2>2, <2>3, CutWhole
<1> HIDE DEF w, p, b
<1>6. ~ (Len(w) < b)
  BY <1>1, <1>2, <1>3
<1>7. GetVarint(w, 5) = Read(v, t)
  BY <1>4, <1>5, <1>6
<1> QED BY <1>7 DEF w, p

LEMMA PartAt ==
  ASSUME NEW s \in Seq(Nat), NEW t \in Seq(Nat), NEW m \in Nat, NEW n \in Nat,
         Len(t) = n, m + n <= Len(s), \A i \in 1 .. n : s[m + i] = t[i]
  PROVE  SubSeq(s, m + 1, m + n) = t
<1> DEFINE y == SubSeq(s, m + 1, m + n)
<1>1. m + 1 \in Int /\ m + n \in Int /\ \A i \in m + 1 .. m + n : i \in 1 .. Len(s)
  <2> DEFINE l == Len(s)
  <2>1. l \in Nat /\ m + n <= l
    OBVIOUS
  <2> HIDE DEF l
  <2>2. m + 1 \in Int /\ m + n \in Int /\ \A i \in m + 1 .. m + n : i \in 1 .. l
    BY <2>1
  <2> QED BY <2>2 DEF l
<1>2. \A i \in m + 1 .. m + n : s[i] \in Nat
  BY <1>1
<1>3. /\ y \in Seq(Nat) /\ Len(y) = (IF m + 1 <= m + n THEN m + n - (m + 1) + 1 ELSE 0)
      /\ \A i \in 1 .. m + n - (m + 1) + 1 : y[i] = s[m + 1 + i - 1]
  BY <1>1, <1>2, SubSeqProperties
<1>4. /\ (IF m + 1 <= m + n THEN m + n - (m + 1) + 1 ELSE 0) = n
      /\ m + n - (m + 1) + 1 = n /\ \A i \in 1 .. n : m + 1 + i - 1 = m + i
  OBVIOUS
<1> HIDE DEF y
<1>5. Len(y) = n /\ \A i \in 1 .. n : y[i] = t[i]
  BY <1>3, <1>4
<1>6. y = t
  BY <1>3, <1>5, SeqEqual
<1> QED BY <1>6 DEF y

(* An entry is decoded to what was encoded.                                *)
LEMMA EntryDecoded ==
  ASSUME NEW e \in MemEntry
  PROVE  DecodeMemEntry(EncodeMemEntry(e)) = e
<1> DEFINE K == KeyPart(e)
           V == ValuePart(e)
           q == PutVarint(Len(e.value) + 1)
           t == q \o V
           r == K \o t
           nk == Len(e.key)
           nv == Len(e.value)
           x == EncodeFixed(e.seq_num, 7)
           s == EncodeMemEntry(e)
           lt == Len(t)
           lr == Len(r)
<1>1. /\ e.key \in Seq(Nat) /\ e.value \in Seq(Nat) /\ nk \in Nat /\ nv \in Nat
      /\ e.seq_num \in Number /\ e.value_type \in BOOLEAN
      /\ e = [key |-> e.key, value_type |-> e.value_type, seq_num |-> e.seq_num, value |-> e.value]
  BY TextIs DEF MemEntry
<1>2. /\ K \in Seq(Nat) /\ Len(K) = nk + 9
      /\ \A i \in 1 .. nk : K[i] = e.key[i]
      /\ K[nk + 2] = IF e.value_type THEN 1 ELSE 0
      /\ \A i \in 1 .. 7 : K[nk + 2 + i] = x[i]
  BY KeyPartIs
<1>3. /\ V \in Seq(Nat) /\ Len(V) = nv + 1 /\ \A i \in 1 .. nv : V[i] = e.value[i]
      /\ q \in Seq(Nat) /\ Small(nk + 9) /\ Small(nv + 1)
      /\ s = PutVarint(nk + 9) \o r
  BY EntryIs
<1>4. x \in Seq(Nat) /\ Len(x) = 7 /\ DecodeFixed(x) = e.seq_num
  BY <1>1, Bounds, EncodeFixedType, DecodeFixedOf
<1>5. GetVarint32(t) = Read(nv + 1, V)
  <2>1. Small(Len(e.value) + 1) /\ V \in Seq(Nat)
    BY <1>3
  <2> QED BY <2>1, WholeVarint, Zenon DEF GetVarint32
<1>6. nk = Len(e.key) /\ nv = Len(e.value)
  OBVIOUS
<1> HIDE DEF K, V, q, x, s, nk, nv
<1>7. t \in Seq(Nat)
  BY <1>3, ConcatIs, Zenon
<1>8. lt \in Nat
  BY <1>7
<1> HIDE DEF t
<1>9. /\ r \in Seq(Nat) /\ lr = nk + 9 + lt
      /\ \A i \in 1 .. nk + 9 : r[i] = K[i]
  <2>1. r \in Seq(Nat) /\ lr = Len(K) + lt /\ \A i \in 1 .. Len(K) : r[i] = K[i]
    BY <1>2, <1>7, ConcatIs, Zenon
  <2> HIDE DEF r, lr, lt
  <2> QED BY <1>2, <2>1
<1>10. Splits(r, K, t)
  <2>1. Cut(r, r)
    BY <1>9, CutSelf, Zenon
  <2> QED BY <1>2, <1>7, <2>1, CutSplits, Zenon
<1> HIDE DEF r
<1>11. GetVarint32(s) = Read(nk + 9, r)
  BY <1>3, <1>9, WholeVarint, Zenon DEF GetVarint32
<1>12. After(r, nk + 9) = t
  <2> HIDE DEF lr, lt
  <2>1. nk + 9 <= lr /\ lr - (nk + 9) = lt
    BY <1>1, <1>8, <1>9
  <2>2. Len(K) <= Len(r) => /\ Cut(After(r, Len(K)), t)
                            /\ Len(After(r, Len(K))) = Len(r) - Len(K)
    BY <1>10 DEF Splits
  <2>3. Cut(After(r, nk + 9), t) /\ Len(After(r, nk + 9)) = Len(t)
    BY <1>2, <2>1, <2>2 DEF lr, lt
  <2> QED BY <2>3, CutWhole, Zenon
<1> HIDE DEF lr
<1>13. SubSeq(r, 1, nk) = e.key
  <2>1. 0 \in Nat /\ 0 + nk = nk /\ 0 + 1 = 1 /\ nk <= lr
    BY <1>1, <1>8, <1>9
  <2>2. \A i \in 1 .. nk : r[0 + i] = e.key[i]
    <3>1. \A i \in 1 .. nk : i \in 1 .. nk + 9 /\ 0 + i = i
      BY <1>1
    <3> QED BY <1>2, <1>9, <3>1
  <2>3. SubSeq(r, 0 + 1, 0 + nk) = e.key
    <3>1. Len(e.key) = nk /\ 0 + nk <= Len(r)
      BY <1>6, <2>1 DEF lr
    <3> QED BY <1>1, <1>9, <2>1, <2>2, <3>1, PartAt, ZenonT(60)
  <2> QED BY <2>1, <2>3
<1>14. SubSeq(V, 1, nv) = e.value
  <2>1. 0 \in Nat /\ 0 + nv = nv /\ 0 + 1 = 1 /\ nv <= Len(V)
    BY <1>1, <1>3
  <2>2. \A i \in 1 .. nv : V[0 + i] = e.value[i]
    <3>1. \A i \in 1 .. nv : 0 + i = i
      BY <1>1
    <3> QED BY <1>3, <3>1
  <2>3. SubSeq(V, 0 + 1, 0 + nv) = e.value
    <3>1. Len(e.value) = nv /\ 0 + nv <= Len(V)
      BY <1>6, <2>1
    <3> QED BY <1>1, <1>3, <2>1, <2>2, <3>1, PartAt, ZenonT(60)
  <2> QED BY <2>1, <2>3
<1>15. SubSeq(r, nk + 3, nk + 9) = x
  <2>1. nk + 2 \in Nat /\ 7 \in Nat /\ nk + 2 + 1 = nk + 3 /\ nk + 2 + 7 = nk + 9 /\ nk + 2 + 7 <= lr
    BY <1>1, <1>8, <1>9
  <2>2. \A i \in 1 .. 7 : r[nk + 2 + i] = x[i]
    <3>1. \A i \in 1 .. 7 : nk + 2 + i \in 1 .. nk + 9
      BY <1>1, SMTT(30)
    <3> QED BY <1>2, <1>9, <3>1
  <2>3. SubSeq(r, nk + 2 + 1, nk + 2 + 7) = x
    <3>1. nk + 2 + 7 <= Len(r)
      BY <2>1 DEF lr
    <3> QED BY <1>4, <1>9, <2>1, <2>2, <3>1, PartAt
  <2> QED BY <2>1, <2>3
<1>16. (r[nk + 2] # 0) = e.value_type
  <2>1. nk + 2 \in 1 .. nk + 9
    BY <1>1
  <2>2. r[nk + 2] = IF e.value_type THEN 1 ELSE 0
    BY <1>2, <1>9, <2>1
  <2>3. ASSUME e.value_type PROVE r[nk + 2] # 0
    BY <2>2, <2>3
  <2>4. ASSUME ~ e.value_type PROVE r[nk + 2] = 0
    BY <2>2, <2>4
  <2> QED BY <1>1, <2>3, <2>4, Zenon
<1>17. /\ nk + 9 - 9 = nk /\ nk + 9 - 7 = nk + 2 /\ nk + 9 - 6 = nk + 3 /\ nv + 1 - 1 = nv
  BY <1>1
<1>18. DecodeMemEntry(s) = [key |-> SubSeq(r, 1, nk), value_type |-> r[nk + 2] # 0,
                           seq_num |-> DecodeFixed(SubSeq(r, nk + 3, nk + 9)),
                           value |-> SubSeq(V, 1, nv)]
  <2> DEFINE g == GetVarint32(s)
             h == GetVarint32(After(g.rest, g.value))
  <2>1. DecodeMemEntry(s) = [key |-> SubSeq(g.rest, 1, g.value - 9),
                             value_type |-> g.rest[g.value - 7] # 0,
                             seq_num |-> DecodeFixed(SubSeq(g.rest, g.value - 6, g.value)),
                             value |-> SubSeq(h.rest, 1, h.value - 1)]
    BY Zenon DEF DecodeMemEntry
  <2>2. g.rest = r /\ g.value = nk + 9
    BY <1>11 DEF Read
  <2>3. h = Read(nv + 1, V)
    BY <1>5, <1>12, <2>2
  <2> HIDE DEF g, h
  <2>4. h.rest = V /\ h.value = nv + 1
    BY <2>3 DEF Read
  <2> DEFINE b == r[nk + 2] # 0
  <2>5. /\ g.value - 9 = nk /\ g.value - 6 = nk + 3 /\ h.value - 1 = nv
        /\ (g.rest[g.value - 7] # 0) = b
    <3>1. g.value - 9 = nk /\ g.value - 6 = nk + 3 /\ h.value - 1 = nv /\ g.value - 7 = nk + 2
      <4> DEFINE a == g.value
                 c == h.value
      <4>1. a = nk + 9 /\ c = nv + 1
        BY <2>2, <2>4
      <4> HIDE DEF a, c
      <4>2. a - 9 = nk /\ a - 6 = nk + 3 /\ c - 1 = nv /\ a - 7 = nk + 2
        BY <1>1, <4>1, SMTT(30)
      <4> QED BY <4>2 DEF a, c
    <3> QED BY <2>2, <3>1, Zenon
  <2> HIDE DEF b
  <2>6. DecodeMemEntry(s) = [key |-> SubSeq(r, 1, nk), value_type |-> b,
                             seq_num |-> DecodeFixed(SubSeq(r, nk + 3, nk + 9)),
                             value |-> SubSeq(V, 1, nv)]
    BY <2>1, <2>2, <2>4, <2>5, Zenon
  <2> QED BY <2>6 DEF b
<1> QED BY <1>1, <1>4, <1>13, <1>14, <1>15, <1>16, <1>18, Zenon DEF s
-----------------------------------------------------------------------------
(* A sequence in front of the others comes in front of their bytes.        *)
LEMMA FlattenCons ==
  ASSUME NEW s \in Seq(Seq(Nat)), NEW x \in Seq(Nat)
  PROVE  FlattenSeq(<<x>> \o s) = x \o FlattenSeq(s)
<1> DEFINE n == Len(s)
           t == <<x>> \o s
           m == n + 1
<1>1. /\ n \in Nat /\ Len(t) = m /\ m \in Nat \ {0} /\ t[1] = x /\ 1 \in 1 .. m /\ m \in 1 .. m
      /\ \A i \in 1 .. n : t[i + 1] = s[i] /\ s[i] \in Seq(Nat) /\ i + 1 \in 1 .. m
  <2>1. t[1] = x /\ Len(t) = m /\ \A i \in 1 .. n : t[i + 1] = s[i]
    OBVIOUS
  <2>2. \A i \in 1 .. n : s[i] \in Seq(Nat)
    BY ElementOfSeq
  <2>3. n \in Nat
    OBVIOUS
  <2> HIDE DEF n, t
  <2> QED BY <2>1, <2>2, <2>3
<1> HIDE DEF t, m
<1>2. PICK g : Flattens(g, t, m) /\ FlattenSeq(t) = g[m]
  BY <1>1, FlattenIs
<1>3. \A i \in 1 .. m : g[i] = IF i = 1 THEN t[i] ELSE g[i - 1] \o t[i]
  BY <1>2 DEF Flattens
<1>4. CASE n = 0
  <2>1. s = <<>> /\ m = 1
    BY <1>4, EmptySeq DEF m
  <2>2. FlattenSeq(t) = x
    BY <1>1, <1>2, <1>3, <2>1
  <2> QED BY <2>1, <2>2, FlattenEmpty, ConcatEmptySeq DEF t
<1>5. CASE n # 0
  <2>1. PICK h : Flattens(h, s, n) /\ FlattenSeq(s) = h[n]
    BY <1>1, <1>5, FlattenIs
  <2>2. \A i \in 1 .. n : h[i] = IF i = 1 THEN s[i] ELSE h[i - 1] \o s[i]
    BY <2>1 DEF Flattens
  <2> HIDE DEF n
  <2> DEFINE D == {i \in 1 .. n : ~ (h[i] \in Seq(Nat) /\ g[i + 1] = x \o h[i])}
  <2>3. D = {}
    <3> SUFFICES ASSUME D # {} PROVE FALSE
      OBVIOUS
    <3>1. PICK i \in D : \A j \in D : i <= j
      <4>1. D \in SUBSET Nat
        BY <1>1
      <4> QED BY <4>1, SmallestExists
    <3>2. i \in 1 .. n /\ ~ (h[i] \in Seq(Nat) /\ g[i + 1] = x \o h[i])
      OBVIOUS
    <3> HIDE DEF D
    <3>3. i \in Nat /\ i + 1 \in 1 .. m /\ i + 1 # 1 /\ i + 1 - 1 = i
      BY <1>1, <3>2
    <3>4. g[i + 1] = g[i] \o s[i]
      <4> DEFINE j == i + 1
      <4>0. j \in 1 .. m /\ j # 1 /\ j - 1 = i
        BY <3>3
      <4> HIDE DEF j
      <4>3. g[j] = g[j - 1] \o t[j]
        BY <1>3, <4>0
      <4>1. g[i + 1] = g[i] \o t[i + 1]
        BY <4>0, <4>3 DEF j
      <4>2. t[i + 1] = s[i]
        BY <1>1, <3>2
      <4> QED BY <3>3, <4>1, <4>2, Zenon
    <3>5. CASE i = 1
      <4>1. h[1] = s[1] /\ g[1] = x /\ s[1] \in Seq(Nat)
        BY <1>1, <1>3, <2>2, <3>2, <3>5
      <4> QED BY <3>2, <3>4, <3>5, <4>1
    <3>6. CASE i # 1
      <4>1. i - 1 \in 1 .. n /\ ~ (i <= i - 1) /\ i - 1 + 1 = i
        <5>1. i \in 1 .. n /\ n \in Nat
          BY <1>1, <3>2
        <5> QED BY <3>6, <5>1
      <4>2. h[i - 1] \in Seq(Nat) /\ g[i] = x \o h[i - 1]
        <5>1. i - 1 \notin D
          BY <3>1, <4>1
        <5> QED BY <4>1, <5>1 DEF D
      <4>3. h[i] = h[i - 1] \o s[i] /\ s[i] \in Seq(Nat)
        BY <1>1, <2>2, <3>2, <3>6
      <4>4. Assoc(x, h[i - 1], s[i]) /\ h[i - 1] \o s[i] \in Seq(Nat)
        BY <4>2, <4>3, AssocIs, ConcatIs, Zenon
      <4>5. g[i + 1] = x \o h[i]
        BY <3>4, <4>2, <4>3, <4>4, Zenon DEF Assoc
      <4> QED BY <3>2, <4>3, <4>4, <4>5, Zenon
    <3> QED BY <3>5, <3>6
  <2>4. g[n + 1] = x \o h[n]
    <3>1. n \in 1 .. n
      BY <1>1, <1>5
    <3> QED BY <2>3, <3>1
  <2>5. g[m] = x \o h[n]
    BY <2>4 DEF m
  <2> QED BY <1>2, <2>1, <2>5 DEF t
<1> QED BY <1>4, <1>5
-----------------------------------------------------------------------------
(* The files an edit deletes are written in an order that has them all.    *)
InOrder(s, S, n) ==
  /\ s \in [1 .. n -> S]
  /\ \A i, j \in 1 .. n : i # j => s[i] # s[j]
  /\ \A i \in 1 .. n - 1 : Earlier(s[i], s[i + 1])

LEMMA EarliestExists ==
  ASSUME NEW S, S \subseteq Nat \X Nat, S # {}
  PROVE  \E m \in S : \A d \in S : d # m => Earlier(m, d)
<1> DEFINE A == {d[1] : d \in S}
<1>1. PICK a \in A : \A x \in A : a <= x
  <2>1. A \in SUBSET Nat /\ A # {}
    OBVIOUS
  <2> QED BY <2>1, SmallestExists
<1> DEFINE B == {d[2] : d \in {x \in S : x[1] = a}}
<1>2. PICK b \in B : \A x \in B : b <= x
  <2>1. B \in SUBSET Nat /\ B # {}
    OBVIOUS
  <2> QED BY <2>1, SmallestExists
<1>3. PICK m \in S : m[1] = a /\ m[2] = b
  OBVIOUS
<1>4. \A d \in S : /\ d = <<d[1], d[2]>> /\ d[1] \in Nat /\ d[2] \in Nat
                   /\ a <= d[1] /\ (d[1] = a => b <= d[2])
  BY <1>1, <1>2
<1>5. \A d \in S : d # m => Earlier(m, d)
  <2> SUFFICES ASSUME NEW d \in S, d # m PROVE Earlier(m, d)
    OBVIOUS
  <2>1. d[1] # a \/ d[2] # b
    BY <1>3, <1>4
  <2>2. a \in Nat /\ b \in Nat
    BY <1>3, <1>4
  <2> HIDE DEF A, B
  <2> QED BY <1>3, <1>4, <2>1, <2>2 DEF Earlier
<1> QED BY <1>5

LEMMA InOrderExists ==
  ASSUME NEW S, S \subseteq Nat \X Nat, IsFiniteSet(S)
  PROVE  \E s : InOrder(s, S, Cardinality(S))
<1> DEFINE Bad(k, T) == /\ T \subseteq Nat \X Nat /\ IsFiniteSet(T) /\ Cardinality(T) = k
                        /\ ~ \E s : InOrder(s, T, k)
           D == {k \in Nat : \E T : Bad(k, T)}
<1>1. D = {}
  <2> SUFFICES ASSUME D # {} PROVE FALSE
    OBVIOUS
  <2>1. PICK k \in D : \A j \in D : k <= j
    <3>1. D \in SUBSET Nat
      OBVIOUS
    <3> QED BY <3>1, SmallestExists
  <2>2. PICK T : Bad(k, T)
    OBVIOUS
  <2>3. /\ k \in Nat /\ T \subseteq Nat \X Nat /\ IsFiniteSet(T) /\ Cardinality(T) = k
        /\ ~ \E s : InOrder(s, T, k)
    BY <2>2
  <2>4. k # 0
    <3> SUFFICES ASSUME k = 0 PROVE FALSE
      OBVIOUS
    <3>1. InOrder(<<>>, T, 0)
      BY DEF InOrder
    <3> QED BY <2>3, <3>1
  <2>5. PICK m \in T : \A d \in T : d # m => Earlier(m, d)
    <3>1. T # {}
      BY <2>3, <2>4, FS_EmptySet
    <3> QED BY <2>3, <3>1, EarliestExists
  <2> DEFINE R == T \ {m}
  <2>6. IsFiniteSet(R) /\ Cardinality(R) = k - 1 /\ R \subseteq Nat \X Nat
    BY <2>3, FS_RemoveElement
  <2>7. k - 1 \in Nat /\ ~ (k <= k - 1)
    BY <2>3, <2>4
  <2>8. PICK r : InOrder(r, R, k - 1)
    <3>1. k - 1 \notin D
      BY <2>1, <2>7
    <3> QED BY <2>6, <2>7, <3>1
  <2> HIDE DEF D, Bad
  <2>9. /\ \A i \in 1 .. k - 1 : r[i] \in R
        /\ \A i, j \in 1 .. k - 1 : i # j => r[i] # r[j]
        /\ \A i \in 1 .. k - 1 - 1 : Earlier(r[i], r[i + 1])
    BY <2>8 DEF InOrder
  <2> DEFINE s == [i \in 1 .. k |-> IF i = 1 THEN m ELSE r[i - 1]]
  <2>10. \A i \in 1 .. k : i # 1 => i - 1 \in 1 .. k - 1
    BY <2>3
  <2>11. \A i \in 1 .. k : /\ i = 1 => s[i] = m
                           /\ i # 1 => s[i] = r[i - 1] /\ s[i] \in R
    BY <2>9, <2>10
  <2>12. s \in [1 .. k -> T]
    BY <2>9, <2>10
  <2> HIDE DEF s
  <2>13. \A i, j \in 1 .. k : i # j => s[i] # s[j]
    <3> SUFFICES ASSUME NEW i \in 1 .. k, NEW j \in 1 .. k, i # j PROVE s[i] # s[j]
      OBVIOUS
    <3>1. CASE i = 1
      BY <2>11, <3>1
    <3>2. CASE j = 1
      BY <2>11, <3>2
    <3>3. CASE i # 1 /\ j # 1
      <4>1. i - 1 # j - 1
        BY <2>3
      <4> HIDE DEF R
      <4> QED BY <2>9, <2>10, <2>11, <3>3, <4>1
    <3> QED BY <3>1, <3>2, <3>3
  <2>14. \A i \in 1 .. k - 1 : Earlier(s[i], s[i + 1])
    <3> SUFFICES ASSUME NEW i \in 1 .. k - 1 PROVE Earlier(s[i], s[i + 1])
      OBVIOUS
    <3>1. i \in 1 .. k /\ i + 1 \in 1 .. k /\ i + 1 # 1 /\ i + 1 - 1 = i
      BY <2>3
    <3>2. s[i + 1] = r[i] /\ s[i + 1] \in R
      BY <2>11, <3>1
    <3>3. CASE i = 1
      BY <2>5, <2>11, <3>1, <3>2, <3>3
    <3>4. CASE i # 1
      <4>1. i - 1 \in 1 .. k - 1 - 1 /\ i - 1 + 1 = i
        BY <2>3, <3>4
      <4>2. Earlier(r[i - 1], r[i])
        BY <2>9, <4>1
      <4>3. s[i] = r[i - 1]
        BY <2>11, <3>1, <3>4
      <4> QED BY <3>2, <4>2, <4>3
    <3> QED BY <3>3, <3>4
  <2>15. InOrder(s, T, k)
    BY <2>12, <2>13, <2>14 DEF InOrder
  <2> QED BY <2>3, <2>15
<1>2. Cardinality(S) \in Nat
  BY FS_CardinalityType
<1> QED BY <1>1, <1>2

LEMMA SortedIs ==
  ASSUME NEW S, S \subseteq Nat \X Nat, IsFiniteSet(S)
  PROVE  /\ Cardinality(S) \in Nat /\ Sorted(S) \in [1 .. Cardinality(S) -> S]
         /\ \A d \in S : \E i \in 1 .. Cardinality(S) : Sorted(S)[i] = d
<1> DEFINE n == Cardinality(S)
           s == Sorted(S)
<1>1. n \in Nat
  BY FS_CardinalityType
<1>2. s = CHOOSE x : InOrder(x, S, n)
  BY DEF Sorted, SetToSeqs, InOrder
<1>3. InOrder(s, S, n)
  <2> HIDE DEF s
  <2> QED BY <1>2, InOrderExists
<1> HIDE DEF s
<1>4. s \in Injection(1 .. n, S)
  BY <1>3 DEF InOrder, Injection, IsInjective
<1>5. Cardinality(1 .. n) = n
  BY <1>1, FS_Interval
<1>6. s \in Surjection(1 .. n, S)
  <2> HIDE DEF n
  <2> QED BY <1>4, <1>5, FS_Injection DEF n
<1> QED BY <1>1, <1>3, <1>6 DEF s, InOrder, Surjection
-----------------------------------------------------------------------------
(* The readers of a field's parts, on bytes that may have been cut.        *)
LEMMA LevelParsed ==
  ASSUME NEW v \in 0 .. kMaxLevel - 1, NEW t \in Seq(Nat), NEW w, Cut(w, PutVarint(v) \o t)
  PROVE  Parsed(GetLevel(w), v, Len(PutVarint(v)), w, t)
<1> DEFINE r == GetVarint(w, 5)
           n == Len(PutVarint(v))
<1>1. kMaxLevel \in Nat /\ Small(kMaxLevel)
  BY VersionEditAssumption, Bounds DEF Number
<1>2. v \in Nat /\ v < kMaxLevel /\ v <= kMaxLevel
  BY <1>1
<1>3. Small(v)
  BY <1>1, <1>2, SmallLess
<1>4. Parsed(r, v, n, w, t)
  <2>1. 5 \in Nat /\ 5 <= 5
    OBVIOUS
  <2> QED BY <1>3, <2>1, VarintParsed
<1>5. GetLevel(w) = IF r.ok /\ r.value < kMaxLevel THEN r ELSE Nothing
  BY DEF GetLevel, GetVarint32
<1> HIDE DEF r, n
<1>6. CASE Len(w) < n
  <2>1. r = Nothing
    BY <1>4, <1>6 DEF Parsed
  <2>2. GetLevel(w) = Nothing
    BY <1>5, <2>1
  <2> QED BY <1>6, <2>2 DEF Parsed, n
<1>7. CASE ~ (Len(w) < n)
  <2>1. r.ok /\ r.value = v
    BY <1>4, <1>7 DEF Parsed
  <2>2. GetLevel(w) = r
    BY <1>2, <1>5, <2>1
  <2> QED BY <1>4, <2>2 DEF n
<1> QED BY <1>6, <1>7

LEMMA EntryParsed ==
  ASSUME NEW e \in MemEntry, NEW t \in Seq(Nat), NEW w,
         Cut(w, PutLengthPrefixedSlice(EncodeMemEntry(e)) \o t)
  PROVE  Parsed(GetMemEntry(w), e, Len(PutLengthPrefixedSlice(EncodeMemEntry(e))), w, t)
<1> DEFINE p == EncodeMemEntry(e)
           r == GetLengthPrefixedSlice(w)
           n == Len(PutLengthPrefixedSlice(p))
<1>1. Parsed(r, p, n, w, t)
  BY EntryLength, SliceParsed
<1>2. GetMemEntry(w) = IF r.ok THEN Read(DecodeMemEntry(r.value), r.rest) ELSE Nothing
  BY DEF GetMemEntry
<1>3. DecodeMemEntry(p) = e
  BY EntryDecoded
<1> HIDE DEF p, r, n
<1>4. CASE Len(w) < n
  <2>1. ~ r.ok
    BY <1>1, <1>4 DEF Parsed, Nothing
  <2>2. GetMemEntry(w) = Nothing
    BY <1>2, <2>1
  <2> QED BY <1>4, <2>2 DEF Parsed, n, p
<1>5. CASE ~ (Len(w) < n)
  <2>1. r.ok /\ r.value = p
    BY <1>1, <1>5 DEF Parsed
  <2>2. GetMemEntry(w) = Read(e, r.rest)
    BY <1>2, <1>3, <2>1
  <2>3. LET g == GetMemEntry(w) IN g.ok /\ g.value = e /\ g.rest = r.rest
    BY <2>2 DEF Read
  <2> QED BY <1>1, <1>5, <2>3 DEF Parsed, n, p
<1> QED BY <1>4, <1>5

LEMMA NumberBytes ==
  ASSUME NEW v \in Number
  PROVE  PutVarint(v) \in Seq(Nat) /\ Len(PutVarint(v)) \in Nat
<1>1. PutVarint(v) \in Seq(Nat)
  BY Bounds, VarintBytes
<1> QED BY <1>1, LenProperties

LEMMA NumberParsed ==
  ASSUME NEW v \in Number, NEW t \in Seq(Nat), NEW w, Cut(w, PutVarint(v) \o t)
  PROVE  Parsed(GetVarint64(w), v, Len(PutVarint(v)), w, t)
<1>1. Small(v)
  BY Bounds
<1>2. 10 \in Nat /\ 5 <= 10
  OBVIOUS
<1> QED BY <1>1, <1>2, VarintParsed DEF GetVarint64

(* One reader after the other: all have succeeded exactly when the bytes   *)
(* of all are there, and the rest is what is behind them.                  *)
Got(ok, rest, n, w, t) ==
  /\ ok \in BOOLEAN /\ (ok <=> n <= Len(w))
  /\ ok => Cut(rest, t) /\ Len(rest) = Len(w) - n

Both(a, b) == a /\ b

Follows(ok, rest, n, w, t, r, v, m, u) ==
  /\ w \in Seq(Nat) /\ n \in Nat /\ m \in Nat /\ Got(ok, rest, n, w, t)
  /\ r.ok \in BOOLEAN /\ (ok => Parsed(r, v, m, rest, u))
  => Got(Both(ok, r.ok), r.rest, n + m, w, u) /\ (Both(ok, r.ok) => r.value = v)

LEMMA GotNext ==
  ASSUME NEW w, NEW t, NEW n, NEW ok, NEW rest, NEW r, NEW v, NEW m, NEW u
  PROVE  Follows(ok, rest, n, w, t, r, v, m, u)
<1> SUFFICES ASSUME w \in Seq(Nat), n \in Nat, m \in Nat, Got(ok, rest, n, w, t),
                    r.ok \in BOOLEAN, ok => Parsed(r, v, m, rest, u)
             PROVE  Got(Both(ok, r.ok), r.rest, n + m, w, u) /\ (Both(ok, r.ok) => r.value = v)
  BY Zenon DEF Follows
<1> DEFINE l == Len(w)
           k == Len(rest)
<1>1. l \in Nat
  OBVIOUS
<1>2. /\ ok \in BOOLEAN /\ (ok <=> n <= l)
      /\ ok => Cut(rest, t) /\ k = l - n
  BY DEF Got
<1>3. ok => IF k < m THEN r = Nothing
            ELSE r.ok /\ r.value = v /\ Cut(r.rest, u) /\ Len(r.rest) = k - m
  BY DEF Parsed
<1>4. ~ Nothing.ok
  BY DEF Nothing
<1> HIDE DEF l, k
<1>5. ASSUME ok, r.ok
      PROVE  n + m <= l /\ r.value = v /\ Cut(r.rest, u) /\ Len(r.rest) = l - (n + m)
  <2>1. ~ (k < m)
    BY <1>3, <1>4, <1>5, Zenon
  <2>2. k = l - n
    BY <1>2, <1>5, Zenon
  <2>3. n + m <= l /\ k - m = l - (n + m)
    BY <1>1, <2>1, <2>2
  <2> QED BY <1>3, <1>5, <2>1, <2>3, Zenon
<1>6. ASSUME n + m <= l PROVE ok /\ r.ok
  <2>1. n <= l
    BY <1>1, <1>6
  <2>2. ok /\ k = l - n
    BY <1>2, <2>1, Zenon
  <2>3. ~ (k < m)
    BY <1>1, <1>6, <2>2
  <2> QED BY <1>3, <2>2, <2>3, Zenon
<1>7. Both(ok, r.ok) \in BOOLEAN
  BY <1>2, Zenon DEF Both
<1>8. Both(ok, r.ok) <=> n + m <= l
  BY <1>5, <1>6, Zenon DEF Both
<1>9. Both(ok, r.ok) => r.value = v /\ Cut(r.rest, u) /\ Len(r.rest) = l - (n + m)
  BY <1>5, Zenon DEF Both
<1> QED BY <1>7, <1>8, <1>9, Zenon DEF Got, l

LEMMA ReadersSay ==
  ASSUME NEW w
  PROVE  /\ GetVarint32(w).ok \in BOOLEAN /\ GetVarint64(w).ok \in BOOLEAN
         /\ GetLevel(w).ok \in BOOLEAN /\ GetMemEntry(w).ok \in BOOLEAN
<1>1. Nothing.ok \in BOOLEAN /\ \A v, r : Read(v, r).ok \in BOOLEAN
  BY DEF Nothing, Read
<1>2. \A limit : GetVarint(w, limit).ok \in BOOLEAN
  <2> SUFFICES ASSUME NEW limit PROVE GetVarint(w, limit).ok \in BOOLEAN
    OBVIOUS
  <2> DEFINE ends == {i \in 1 .. limit : i <= Len(w) /\ w[i] < 128}
  <2>1. GetVarint(w, limit) =
          IF ends = {} THEN Nothing
          ELSE Read((CHOOSE h : Sums(h, w, Min(ends)))[1], After(w, Min(ends)))
    BY GetVarintIsChosen
  <2> HIDE DEF ends
  <2>2. CASE ends = {}
    BY <1>1, <2>1, <2>2
  <2>3. CASE ends # {}
    <3>1. GetVarint(w, limit) = Read((CHOOSE h : Sums(h, w, Min(ends)))[1], After(w, Min(ends)))
      BY <2>1, <2>3
    <3> QED BY <1>1, <3>1, Zenon
  <2> QED BY <2>2, <2>3
<1>3. GetVarint32(w).ok \in BOOLEAN /\ GetVarint64(w).ok \in BOOLEAN
  BY <1>2 DEF GetVarint32, GetVarint64
<1>4. GetLevel(w).ok \in BOOLEAN
  BY <1>1, <1>3, Zenon DEF GetLevel
<1>5. GetMemEntry(w).ok \in BOOLEAN
  BY <1>1, Zenon DEF GetMemEntry
<1> QED BY <1>3, <1>4, <1>5

(* A tag is one byte.                                                      *)
Tags == {kPrevLogNumber, kNextFileNumber, kLastSequence, kDeletedFile, kNewFile}

LEMMA TagIs ==
  ASSUME NEW k \in Tags
  PROVE  Small(k) /\ PutVarint(k) \in Seq(Nat) /\ Len(PutVarint(k)) = 1
<1>1. k \in Nat /\ k < 128 /\ Small(k)
  BY SMT DEF Tags, kPrevLogNumber, kNextFileNumber, kLastSequence, kDeletedFile, kNewFile, Small
<1>2. branch(k) = 1
  BY <1>1, Powers, SMT DEF branch
<1> QED BY <1>1, <1>2, VarintBytes

LEMMA TagParsed ==
  ASSUME NEW k \in Tags, NEW t \in Seq(Nat), NEW w, Cut(w, PutVarint(k) \o t), w # <<>>
  PROVE  LET r == GetVarint32(w)
         IN r.ok /\ r.value = k /\ Cut(r.rest, t) /\ Len(r.rest) = Len(w) - 1
<1>1. 5 \in Nat /\ 5 <= 5
  OBVIOUS
<1>2. Parsed(GetVarint(w, 5), k, 1, w, t)
  BY <1>1, TagIs, VarintParsed
<1>3. w \in Seq(Nat)
  BY DEF Cut
<1>4. ~ (Len(w) < 1)
  <2>1. Len(w) \in Nat /\ Len(w) # 0
    BY <1>3, EmptySeq
  <2> QED BY <2>1
<1> QED BY <1>2, <1>4, Zenon DEF Parsed, GetVarint32

LEMMA NoTag == ~ GetVarint32(<<>>).ok
<1> DEFINE ends == {i \in 1 .. 5 : i <= Len(<<>>) /\ <<>>[i] < 128}
<1>1. ends = {}
  OBVIOUS
<1>2. GetVarint(<<>>, 5) =
        IF ends = {} THEN Nothing
        ELSE Read((CHOOSE h : Sums(h, <<>>, Min(ends)))[1], After(<<>>, Min(ends)))
  BY GetVarintIsChosen
<1> HIDE DEF ends
<1>3. GetVarint(<<>>, 5) = Nothing
  BY <1>1, <1>2
<1> QED BY <1>3 DEF GetVarint32, Nothing
-----------------------------------------------------------------------------
(* The fields of an edit: three numbers, the deleted files, the new files. *)
News(e) == Len(e.new_files_)
Scalar(e, p) ==
  IF p = 0 THEN PutNumber(kPrevLogNumber, e.prev_log_number_)
  ELSE IF p = 1 THEN PutNumber(kNextFileNumber, e.next_file_number_)
  ELSE PutNumber(kLastSequence, e.last_sequence_)

LEMMA EditIs ==
  ASSUME NEW e \in Edits
  PROVE  /\ Deleted(e) \in Nat /\ News(e) \in Nat /\ DOMAIN e.new_files_ = 1 .. News(e)
         /\ e.new_files_ \in Seq(NewFile)
         /\ \A i \in 1 .. Deleted(e) : Sorted(e.deleted_files_)[i] \in e.deleted_files_
         /\ \A d \in e.deleted_files_ : \E i \in 1 .. Deleted(e) : Sorted(e.deleted_files_)[i] = d
         /\ \A d \in e.deleted_files_ : d = <<d[1], d[2]>> /\ d[1] \in 0 .. kMaxLevel - 1 /\ d[2] \in Number
         /\ e.prev_log_number_ \in Number \cup {Unset} /\ e.next_file_number_ \in Number \cup {Unset}
         /\ e.last_sequence_ \in Number \cup {Unset}
<1>1. e \in Edit /\ IsFiniteSet(e.deleted_files_)
  BY VersionEditAssumption
<1>2. /\ e.new_files_ \in Seq(NewFile) /\ e.deleted_files_ \subseteq (0 .. kMaxLevel - 1) \X Number
      /\ e.prev_log_number_ \in Number \cup {Unset} /\ e.next_file_number_ \in Number \cup {Unset}
      /\ e.last_sequence_ \in Number \cup {Unset}
  BY <1>1 DEF Edit
<1>3. \A d \in e.deleted_files_ : d = <<d[1], d[2]>> /\ d[1] \in 0 .. kMaxLevel - 1 /\ d[2] \in Number
  BY <1>2
<1>4. e.deleted_files_ \subseteq Nat \X Nat
  <2>1. kMaxLevel \in Nat /\ 0 .. kMaxLevel - 1 \subseteq Nat /\ Number \subseteq Nat
    BY VersionEditAssumption DEF Number
  <2> QED BY <1>2, <2>1
<1>5. News(e) \in Nat /\ DOMAIN e.new_files_ = 1 .. News(e)
  BY <1>2 DEF News
<1> QED BY <1>1, <1>2, <1>3, <1>4, <1>5, SortedIs DEF Deleted

LEMMA MadeSeq ==
  ASSUME NEW S, NEW n \in Nat, NEW s, s = [i \in 1 .. n |-> s[i]], \A i \in 1 .. n : s[i] \in S
  PROVE  s \in Seq(S) /\ Len(s) = n
  OBVIOUS

Joined(F, a, b, c, s, t, S) ==
  /\ F \in Seq(S) /\ Len(F) = 3 + Len(s) + Len(t)
  /\ F[1] = a /\ F[2] = b /\ F[3] = c
  /\ \A i \in 1 .. Len(s) : F[3 + i] = s[i]
  /\ \A i \in 1 .. Len(t) : F[3 + Len(s) + i] = t[i]

LEMMA ThreeParts ==
  ASSUME NEW S, NEW a \in S, NEW b \in S, NEW c \in S, NEW y \in Seq(S), NEW z \in Seq(S)
  PROVE  Joined(<<a, b, c>> \o y \o z, a, b, c, y, z, S)
<1> DEFINE x == <<a, b, c>>
           n == Len(y)
           m == Len(z)
           g == x \o y
           h == g \o z
<1>1. x \in Seq(S) /\ Len(x) = 3 /\ x[1] = a /\ x[2] = b /\ x[3] = c
  OBVIOUS
<1>2. y \in Seq(S) /\ Len(y) = n /\ n \in Nat
  OBVIOUS
<1>3. z \in Seq(S) /\ Len(z) = m /\ m \in Nat
  OBVIOUS
<1> HIDE DEF x, n, m
<1>4. /\ g \in Seq(S) /\ Len(g) = 3 + n
      /\ \A i \in 1 .. 3 + n : g[i] = IF i <= 3 THEN x[i] ELSE y[i - 3]
  <2>1. 3 = Len(x) /\ n = Len(y)
    BY <1>1, <1>2
  <2>2. /\ g \in Seq(S) /\ Len(g) = Len(x) + Len(y)
        /\ \A i \in 1 .. Len(x) + Len(y) : g[i] = IF i <= Len(x) THEN x[i] ELSE y[i - Len(x)]
    BY <1>1, <1>2, ConcatProperties
  <2> HIDE DEF g
  <2> QED BY <2>1, <2>2, <1>1, <1>2, Zenon
<1> HIDE DEF g
<1> DEFINE k == 3 + n
<1>5. /\ h \in Seq(S) /\ Len(h) = k + m
      /\ \A i \in 1 .. k + m : h[i] = IF i <= k THEN g[i] ELSE z[i - k]
  <2>1. k = Len(g) /\ m = Len(z)
    BY <1>3, <1>4
  <2>2. /\ h \in Seq(S) /\ Len(h) = Len(g) + Len(z)
        /\ \A i \in 1 .. Len(g) + Len(z) : h[i] = IF i <= Len(g) THEN g[i] ELSE z[i - Len(g)]
    BY <1>3, <1>4, ConcatProperties
  <2> HIDE DEF h, k
  <2> QED BY <2>1, <2>2, Zenon
<1> HIDE DEF h
<1>6. \A i \in 1 .. k : h[i] = IF i <= 3 THEN x[i] ELSE y[i - 3]
  BY <1>2, <1>3, <1>4, <1>5
<1>7. h[1] = a /\ h[2] = b /\ h[3] = c
  BY <1>1, <1>2, <1>6
<1>8. \A i \in 1 .. n : h[3 + i] = y[i]
  <2> SUFFICES ASSUME NEW i \in 1 .. n PROVE h[3 + i] = y[i]
    OBVIOUS
  <2>1. 3 + i \in 1 .. k /\ ~ (3 + i <= 3) /\ 3 + i - 3 = i
    BY <1>2
  <2> QED BY <1>2, <1>6, <2>1
<1>9. \A i \in 1 .. m : h[k + i] = z[i]
  <2> SUFFICES ASSUME NEW i \in 1 .. m PROVE h[k + i] = z[i]
    OBVIOUS
  <2>1. k + i \in 1 .. k + m /\ ~ (k + i <= k) /\ k + i - k = i
    BY <1>2, <1>3
  <2>3. k \in Nat
    BY <1>2
  <2> HIDE DEF k
  <2> DEFINE j == k + i
  <2>2. j \in 1 .. k + m /\ ~ (j <= k) /\ j - k = i
    BY <1>3, <2>1, <2>3
  <2> HIDE DEF j
  <2>4. h[j] = z[i]
    BY <1>5, <2>2
  <2> QED BY <1>3, <2>4 DEF j
<1> QED BY <1>5, <1>7, <1>8, <1>9, Zenon DEF h, g, x, n, m, k, Joined

LEMMA FieldTypes ==
  /\ \A k \in Tags, n \in Number \cup {Unset} : PutNumber(k, n) \in Seq(Nat)
  /\ \A d : d[1] \in 0 .. kMaxLevel - 1 /\ d[2] \in Number => PutDeletedFile(d) \in Seq(Nat)
  /\ \A n \in NewFile : PutNewFile(n) \in Seq(Nat)
<1>1. \A n \in Number : PutVarint(n) \in Seq(Nat)
  BY Bounds, VarintBytes
<1>2. 0 .. kMaxLevel - 1 \subseteq Number
  BY VersionEditAssumption DEF Number
<1>3. \A k \in Tags : PutVarint(k) \in Seq(Nat)
  BY TagIs
<1>4. \A e \in MemEntry : PutLengthPrefixedSlice(EncodeMemEntry(e)) \in Seq(Nat)
  BY EntryLength, PutSliceIs
<1>5. kDeletedFile \in Tags /\ kNewFile \in Tags
  BY DEF Tags
<1>6. \A s, t \in Seq(Nat) : s \o t \in Seq(Nat)
  OBVIOUS
<1>7. ASSUME NEW k \in Tags, NEW n \in Number \cup {Unset} PROVE PutNumber(k, n) \in Seq(Nat)
  <2>1. <<>> \in Seq(Nat)
    OBVIOUS
  <2> QED BY <1>1, <1>3, <1>6, <2>1, Zenon DEF PutNumber
<1>8. ASSUME NEW d, d[1] \in 0 .. kMaxLevel - 1, d[2] \in Number
      PROVE  PutDeletedFile(d) \in Seq(Nat)
  <2>1. PutVarint(d[1]) \in Seq(Nat) /\ PutVarint(d[2]) \in Seq(Nat)
    BY <1>1, <1>2, <1>8
  <2> QED BY <1>3, <1>5, <1>6, <2>1, Zenon DEF PutDeletedFile
<1>9. ASSUME NEW n \in NewFile PROVE PutNewFile(n) \in Seq(Nat)
  <2>1. /\ n.level \in 0 .. kMaxLevel - 1 /\ n.file.number \in Number /\ n.file.file_size \in Number
        /\ n.file.smallest \in MemEntry /\ n.file.largest \in MemEntry
    BY DEF NewFile, FileMetaData
  <2>2. PutVarint(n.level) \in Seq(Nat)
    BY <1>1, <1>2, <2>1
  <2> QED BY <1>1, <1>3, <1>4, <1>5, <1>6, <2>1, <2>2, Zenon DEF PutNewFile
<1> QED BY <1>7, <1>8, <1>9, Zenon

LEMMA FieldsAre ==
  ASSUME NEW e \in Edits
  PROVE  /\ Fields(e) \in Seq(Seq(Nat)) /\ Len(Fields(e)) = 3 + Deleted(e) + News(e)
         /\ \A p \in 0 .. 2 : Fields(e)[p + 1] = Scalar(e, p)
         /\ \A i \in 1 .. Deleted(e) : Fields(e)[3 + i] = PutDeletedFile(Sorted(e.deleted_files_)[i])
         /\ \A i \in 1 .. News(e) : Fields(e)[3 + Deleted(e) + i] = PutNewFile(e.new_files_[i])
<1> DEFINE a == PutNumber(kPrevLogNumber, e.prev_log_number_)
           b == PutNumber(kNextFileNumber, e.next_file_number_)
           c == PutNumber(kLastSequence, e.last_sequence_)
           s == [i \in 1 .. Deleted(e) |-> PutDeletedFile(Sorted(e.deleted_files_)[i])]
           t == [i \in 1 .. News(e) |-> PutNewFile(e.new_files_[i])]
           n == Deleted(e)
           m == News(e)
           F == Fields(e)
<1>1. n \in Nat /\ m \in Nat
  BY EditIs
<1>2. a \in Seq(Nat) /\ b \in Seq(Nat) /\ c \in Seq(Nat)
  <2>1. kPrevLogNumber \in Tags /\ kNextFileNumber \in Tags /\ kLastSequence \in Tags
    BY DEF Tags
  <2> QED BY <2>1, EditIs, FieldTypes
<1>3. \A i \in 1 .. n : s[i] = PutDeletedFile(Sorted(e.deleted_files_)[i]) /\ s[i] \in Seq(Nat)
  BY EditIs, FieldTypes
<1>4. \A i \in 1 .. m : t[i] = PutNewFile(e.new_files_[i]) /\ t[i] \in Seq(Nat)
  <2>1. \A i \in 1 .. m : e.new_files_[i] \in NewFile
    BY EditIs, ElementOfSeq DEF News
  <2> QED BY <2>1, FieldTypes
<1>5. s \in Seq(Seq(Nat)) /\ Len(s) = n /\ t \in Seq(Seq(Nat)) /\ Len(t) = m
  <2>1. s = [i \in 1 .. n |-> s[i]] /\ t = [i \in 1 .. m |-> t[i]]
    OBVIOUS
  <2> HIDE DEF s, t, n, m
  <2> QED BY <1>1, <1>3, <1>4, <2>1, MadeSeq, Zenon
<1>6. F = <<a, b, c>> \o s \o t
  <2>1. DOMAIN e.new_files_ = 1 .. News(e)
    BY EditIs
  <2> QED BY <2>1 DEF Fields, Deleted
<1> HIDE DEF a, b, c, s, t, n, m, F
<1>8. /\ F \in Seq(Seq(Nat)) /\ Len(F) = 3 + n + m
      /\ F[1] = a /\ F[2] = b /\ F[3] = c
      /\ \A i \in 1 .. n : F[3 + i] = s[i]
      /\ \A i \in 1 .. m : F[3 + n + i] = t[i]
  <2>1. Joined(F, a, b, c, s, t, Seq(Nat))
    BY <1>2, <1>5, <1>6, ThreeParts, Zenon
  <2> QED BY <1>5, <2>1, Zenon DEF Joined
<1>9. \A p \in 0 .. 2 : F[p + 1] = Scalar(e, p)
  <2>1. Scalar(e, 0) = a /\ Scalar(e, 1) = b /\ Scalar(e, 2) = c
    BY DEF Scalar, a, b, c
  <2>2. \A p \in 0 .. 2 : (p = 0 /\ p + 1 = 1) \/ (p = 1 /\ p + 1 = 2) \/ (p = 2 /\ p + 1 = 3)
    OBVIOUS
  <2> QED BY <1>8, <2>1, <2>2, Zenon
<1> QED BY <1>3, <1>4, <1>8, <1>9 DEF n, m, F

(* Behind a field the bytes of the others are left.                        *)
LEMMA UnreadIs ==
  ASSUME NEW e \in Edits, NEW p \in 0 .. Len(Fields(e))
  PROVE  /\ Unread(e, p) \in Seq(Nat)
         /\ p = 0 => Unread(e, p) = EncodeTo(e)
         /\ p = Len(Fields(e)) => Unread(e, p) = <<>>
         /\ p < Len(Fields(e)) => /\ Fields(e)[p + 1] \in Seq(Nat)
                                  /\ Unread(e, p) = Fields(e)[p + 1] \o Unread(e, p + 1)
                                  /\ Unread(e, p + 1) \in Seq(Nat)
<1> DEFINE F == Fields(e)
           n == Len(F)
<1>1. F \in Seq(Seq(Nat)) /\ n \in Nat
  BY FieldsAre
<1> HIDE DEF F
<1>2. \A i \in 1 .. n : F[i] \in Seq(Nat)
  BY <1>1
<1>3. \A q \in 0 .. n : SubSeq(F, q + 1, n) \in Seq(Seq(Nat))
  <2> SUFFICES ASSUME NEW q \in 0 .. n PROVE SubSeq(F, q + 1, n) \in Seq(Seq(Nat))
    OBVIOUS
  <2> HIDE DEF n
  <2>1. q + 1 \in Int /\ n \in Int /\ \A i \in q + 1 .. n : F[i] \in Seq(Nat)
    BY <1>1, <1>2
  <2> QED BY <2>1, SubSeqProperties
<1>4. \A q \in 0 .. n : FlattenSeq(SubSeq(F, q + 1, n)) \in Seq(Nat)
  BY <1>3, FlattenType
<1>5. SubSeq(F, 0 + 1, n) = F
  <2>1. 0 + 1 = 1
    OBVIOUS
  <2> QED BY <1>1, <2>1, SubSeqFull
<1>6. SubSeq(F, n + 1, n) = <<>>
  <2> HIDE DEF n
  <2>1. n + 1 \in Int /\ n \in Int /\ n < n + 1
    BY <1>1
  <2> QED BY <2>1, SubSeqEmpty
<1>7. ASSUME NEW q \in 0 .. n, q < n
      PROVE  FlattenSeq(SubSeq(F, q + 1, n)) = F[q + 1] \o FlattenSeq(SubSeq(F, q + 1 + 1, n))
  <2>1. q + 1 \in 1 .. n /\ n \in q + 1 .. n /\ q + 1 \in 0 .. n
    <3> HIDE DEF n
    <3> QED BY <1>1, <1>7
  <2>2. SubSeq(F, q + 1, n) = <<F[q + 1]>> \o SubSeq(F, q + 1 + 1, n)
    BY <1>1, <2>1, SubSeqRecursiveFirst
  <2>3. F[q + 1] \in Seq(Nat) /\ SubSeq(F, q + 1 + 1, n) \in Seq(Seq(Nat))
    BY <1>2, <1>3, <2>1
  <2> QED BY <2>2, <2>3, FlattenCons
<1>8. \A q : Unread(e, q) = FlattenSeq(SubSeq(F, q + 1, n)) /\ EncodeTo(e) = FlattenSeq(F)
  BY DEF Unread, EncodeTo, F
<1>9. p \in 0 .. n
  BY DEF F
<1> HIDE DEF n
<1>10. p < n => p + 1 \in 1 .. n /\ p + 1 \in 0 .. n
  BY <1>1, <1>9
<1>11. /\ Unread(e, p) \in Seq(Nat)
       /\ p = 0 => Unread(e, p) = EncodeTo(e)
       /\ p = n => Unread(e, p) = <<>>
       /\ p < n => F[p + 1] \in Seq(Nat) /\ Unread(e, p) = F[p + 1] \o Unread(e, p + 1)
                   /\ Unread(e, p + 1) \in Seq(Nat)
  BY <1>2, <1>4, <1>5, <1>6, <1>7, <1>8, <1>9, <1>10, FlattenEmpty, Zenon
<1> QED BY <1>11 DEF F, n
-----------------------------------------------------------------------------
(* What the loop of DecodeFrom reads of a field, of which bytes may have   *)
(* been cut: its tag in any case, its values if all the bytes are there.   *)
LEMMA TagGot ==
  ASSUME NEW k \in Tags, NEW t \in Seq(Nat), NEW w, Cut(w, PutVarint(k) \o t), w # <<>>
  PROVE  LET r == GetVarint32(w) IN r.ok /\ r.value = k /\ Got(r.ok, r.rest, 1, w, t)
<1> DEFINE r == GetVarint32(w)
           l == Len(w)
<1>1. r.ok /\ r.value = k /\ Cut(r.rest, t) /\ Len(r.rest) = l - 1
  BY TagParsed
<1>2. w \in Seq(Nat)
  BY DEF Cut
<1>3. 1 <= l
  <2>1. l \in Nat /\ l # 0
    BY <1>2, EmptySeq
  <2> HIDE DEF l
  <2> QED BY <2>1
<1> HIDE DEF r, l
<1>4. Got(r.ok, r.rest, 1, w, t)
  <2>1. r.ok \in BOOLEAN
    BY ReadersSay DEF r
  <2> QED BY <1>1, <1>3, <2>1, Zenon DEF Got, l
<1> QED BY <1>1, <1>4 DEF r

NumberGot(k, v, t, w) ==
  LET r == GetVarint32(w)
      n == GetVarint64(r.rest)
  IN /\ r.ok /\ r.value = k /\ Got(Both(r.ok, n.ok), n.rest, Len(PutNumber(k, v)), w, t)
     /\ Both(r.ok, n.ok) => n.value = v

LEMMA NumberRead ==
  ASSUME NEW k \in Tags, NEW v \in Number, NEW t \in Seq(Nat), NEW w, Cut(w, PutNumber(k, v) \o t),
         w # <<>>
  PROVE  NumberGot(k, v, t, w)
<1> DEFINE r == GetVarint32(w)
           n == GetVarint64(r.rest)
           a == PutVarint(k)
           b == PutVarint(v)
<1>1. a \in Seq(Nat) /\ Len(a) = 1 /\ b \in Seq(Nat) /\ w \in Seq(Nat)
  BY TagIs, Bounds, VarintBytes DEF Cut
<1>2. PutNumber(k, v) = a \o b
  <2>1. v # Unset
    BY VersionEditAssumption DEF Number
  <2> QED BY <2>1 DEF PutNumber
<1>3. n.ok \in BOOLEAN
  BY ReadersSay
<1>4. \A s : Cut(s, b \o t) => Parsed(GetVarint64(s), v, Len(b), s, t)
  BY NumberParsed
<1>5. \A s : Cut(w, a \o s) /\ s \in Seq(Nat)
              => r.ok /\ r.value = k /\ Got(r.ok, r.rest, 1, w, s)
  BY TagGot
<1>6. Parsed(n, v, Len(b), r.rest, t) <=> Parsed(GetVarint64(r.rest), v, Len(b), r.rest, t)
  OBVIOUS
<1> HIDE DEF a, b, r, n
<1>7. b \o t \in Seq(Nat) /\ Len(a \o b) = Len(a) + Len(b) /\ Len(b) \in Nat
  BY <1>1, ConcatIs, LenProperties
<1>8. Assoc(a, b, t)
  BY <1>1, AssocIs, Zenon
<1>9. r.ok /\ r.value = k /\ Got(r.ok, r.rest, 1, w, b \o t)
  BY <1>2, <1>5, <1>7, <1>8, Zenon DEF Assoc
<1>10. Parsed(n, v, Len(b), r.rest, t)
  BY <1>4, <1>6, <1>9, Zenon DEF Got
<1>11. Got(Both(r.ok, n.ok), n.rest, 1 + Len(b), w, t) /\ (Both(r.ok, n.ok) => n.value = v)
  <2>1. 1 \in Nat
    OBVIOUS
  <2>2. Follows(r.ok, r.rest, 1, w, b \o t, n, v, Len(b), t)
    BY GotNext, Zenon
  <2> QED BY <1>1, <1>3, <1>7, <1>9, <1>10, <2>1, <2>2, Zenon DEF Follows
<1>12. Len(PutNumber(k, v)) = 1 + Len(b)
  BY <1>1, <1>2, <1>7
<1> QED BY <1>9, <1>11, <1>12 DEF r, n, NumberGot

LEMMA DeletedRead ==
  ASSUME NEW d, d[1] \in 0 .. kMaxLevel - 1, d[2] \in Number, NEW t \in Seq(Nat), NEW w,
         Cut(w, PutDeletedFile(d) \o t), w # <<>>
  PROVE  LET r == GetVarint32(w)
             level == GetLevel(r.rest)
             n == GetVarint64(level.rest)
         IN /\ r.ok /\ r.value = kDeletedFile
            /\ Got(Both(Both(r.ok, level.ok), n.ok), n.rest, Len(PutDeletedFile(d)), w, t)
            /\ Both(Both(r.ok, level.ok), n.ok) => level.value = d[1] /\ n.value = d[2]
<1> DEFINE r == GetVarint32(w)
           level == GetLevel(r.rest)
           n == GetVarint64(level.rest)
           a == PutVarint(kDeletedFile)
           b == PutVarint(d[1])
           c == PutVarint(d[2])
           nb == Len(b)
           nc == Len(c)
<1>0. kDeletedFile \in Tags /\ d[1] \in Number
  BY VersionEditAssumption DEF Tags, Number
<1>1. /\ a \in Seq(Nat) /\ Len(a) = 1 /\ b \in Seq(Nat) /\ c \in Seq(Nat) /\ w \in Seq(Nat)
      /\ nb \in Nat /\ nc \in Nat
  BY <1>0, TagIs, NumberBytes, Zenon DEF Cut
<1>2. PutDeletedFile(d) = (a \o b) \o c
  BY DEF PutDeletedFile
<1>3. level.ok \in BOOLEAN /\ n.ok \in BOOLEAN
  BY ReadersSay
<1>4. \A s, u : Cut(s, b \o u) /\ u \in Seq(Nat) => Parsed(GetLevel(s), d[1], nb, s, u)
  BY LevelParsed
<1>5. \A s : Cut(s, c \o t) => Parsed(GetVarint64(s), d[2], nc, s, t)
  BY NumberParsed
<1>6. \A s : Cut(w, a \o s) /\ s \in Seq(Nat)
              => r.ok /\ r.value = kDeletedFile /\ Got(r.ok, r.rest, 1, w, s)
  BY <1>0, TagGot
<1>7. level = GetLevel(r.rest) /\ n = GetVarint64(level.rest)
  OBVIOUS
<1> HIDE DEF a, b, c, r, n, level
<1>8. /\ c \o t \in Seq(Nat) /\ b \o (c \o t) \in Seq(Nat) /\ a \o b \in Seq(Nat)
      /\ Len((a \o b) \o c) = 1 + nb + nc
  <2>1. a \o b \in Seq(Nat) /\ Len(a \o b) = Len(a) + Len(b) /\ c \o t \in Seq(Nat)
    BY <1>1, ConcatIs
  <2>2. Len((a \o b) \o c) = Len(a \o b) + Len(c) /\ b \o (c \o t) \in Seq(Nat)
    BY <1>1, <2>1, ConcatIs
  <2> QED BY <1>1, <2>1, <2>2
<1> HIDE DEF nb, nc
<1>9. PutDeletedFile(d) \o t = a \o (b \o (c \o t))
  <2>1. Assoc(a \o b, c, t) /\ Assoc(a, b, c \o t)
    BY <1>1, <1>8, AssocIs, Zenon
  <2> QED BY <1>2, <2>1, Zenon DEF Assoc
<1>10. r.ok /\ r.value = kDeletedFile /\ Got(r.ok, r.rest, 1, w, b \o (c \o t))
  BY <1>6, <1>8, <1>9, Zenon
<1>11. Parsed(level, d[1], nb, r.rest, c \o t)
  BY <1>4, <1>7, <1>8, <1>10, Zenon DEF Got
<1>12. 1 \in Nat /\ 1 + nb \in Nat
  BY <1>1
<1>13. Got(Both(r.ok, level.ok), level.rest, 1 + nb, w, c \o t)
       /\ (Both(r.ok, level.ok) => level.value = d[1])
  <2>1. Follows(r.ok, r.rest, 1, w, b \o (c \o t), level, d[1], nb, c \o t)
    BY GotNext, Zenon
  <2> QED BY <1>1, <1>3, <1>10, <1>11, <1>12, <2>1, Zenon DEF Follows
<1>14. Both(r.ok, level.ok) => Parsed(n, d[2], nc, level.rest, t)
  BY <1>5, <1>7, <1>13, Zenon DEF Got
<1>15. Got(Both(Both(r.ok, level.ok), n.ok), n.rest, 1 + nb + nc, w, t)
       /\ (Both(Both(r.ok, level.ok), n.ok) => n.value = d[2])
  <2>1. Follows(Both(r.ok, level.ok), level.rest, 1 + nb, w, c \o t, n, d[2], nc, t)
    BY GotNext, Zenon
  <2> QED BY <1>1, <1>3, <1>12, <1>13, <1>14, <2>1, Zenon DEF Follows
<1>16. Len(PutDeletedFile(d)) = 1 + nb + nc
  BY <1>2, <1>8
<1>17. Both(Both(r.ok, level.ok), n.ok) => Both(r.ok, level.ok)
  BY DEF Both
<1> QED BY <1>10, <1>13, <1>15, <1>16, <1>17, Zenon DEF r, n, level

Adds(s, t) == s \o t \in Seq(Nat) /\ Len(s \o t) = Len(s) + Len(t)

LEMMA AddsIs ==
  ASSUME NEW s \in Seq(Nat), NEW t \in Seq(Nat)
  PROVE  Adds(s, t)
  BY ConcatIs, SMTT(30) DEF Adds

LEMMA NewFileRead ==
  ASSUME NEW e \in NewFile, NEW t \in Seq(Nat), NEW w, Cut(w, PutNewFile(e) \o t), w # <<>>
  PROVE  LET r == GetVarint32(w)
             level == GetLevel(r.rest)
             n == GetVarint64(level.rest)
             size == GetVarint64(n.rest)
             smallest == GetMemEntry(size.rest)
             largest == GetMemEntry(smallest.rest)
             all == Both(Both(Both(Both(Both(r.ok, level.ok), n.ok), size.ok), smallest.ok), largest.ok)
         IN /\ r.ok /\ r.value = kNewFile
            /\ Got(all, largest.rest, Len(PutNewFile(e)), w, t)
            /\ all => /\ level.value = e.level /\ n.value = e.file.number
                      /\ size.value = e.file.file_size
                      /\ smallest.value = e.file.smallest /\ largest.value = e.file.largest
<1> DEFINE r == GetVarint32(w)
           level == GetLevel(r.rest)
           n == GetVarint64(level.rest)
           size == GetVarint64(n.rest)
           smallest == GetMemEntry(size.rest)
           largest == GetMemEntry(smallest.rest)
           ok2 == Both(r.ok, level.ok)
           ok3 == Both(ok2, n.ok)
           ok4 == Both(ok3, size.ok)
           ok5 == Both(ok4, smallest.ok)
           ok6 == Both(ok5, largest.ok)
           v2 == e.level
           v3 == e.file.number
           v4 == e.file.file_size
           v5 == e.file.smallest
           v6 == e.file.largest
           a == PutVarint(kNewFile)
           b == PutVarint(v2)
           c == PutVarint(v3)
           d == PutVarint(v4)
           g == PutLengthPrefixedSlice(EncodeMemEntry(v5))
           h == PutLengthPrefixedSlice(EncodeMemEntry(v6))
           x == PutNewFile(e)
           t6 == h \o t
           t5 == g \o t6
           t4 == d \o t5
           t3 == c \o t4
           t2 == b \o t3
           nb == Len(b)
           nc == Len(c)
           nd == Len(d)
           ng == Len(g)
           nh == Len(h)
<1>1. /\ v2 \in 0 .. kMaxLevel - 1 /\ v3 \in Number /\ v4 \in Number
      /\ v5 \in MemEntry /\ v6 \in MemEntry
  BY DEF NewFile, FileMetaData
<1>2. kNewFile \in Tags /\ v2 \in Number
  BY <1>1, VersionEditAssumption DEF Tags, Number
<1>3. /\ a \in Seq(Nat) /\ Len(a) = 1 /\ w \in Seq(Nat)
      /\ b \in Seq(Nat) /\ nb \in Nat /\ c \in Seq(Nat) /\ nc \in Nat /\ d \in Seq(Nat) /\ nd \in Nat
  <2> HIDE DEF v2, v3, v4, v5, v6
  <2> QED BY <1>1, <1>2, TagIs, NumberBytes, Zenon DEF Cut
<1>4. g \in Seq(Nat) /\ h \in Seq(Nat)
  <2> HIDE DEF v5, v6
  <2> QED BY <1>1, EntryLength, PutSliceIs
<1>5. /\ level.ok \in BOOLEAN /\ n.ok \in BOOLEAN /\ size.ok \in BOOLEAN
      /\ smallest.ok \in BOOLEAN /\ largest.ok \in BOOLEAN
  BY ReadersSay, Zenon
<1>6. \A s : s \in Seq(Nat) /\ Cut(w, a \o s)
              => r.ok /\ r.value = kNewFile /\ Got(r.ok, r.rest, 1, w, s)
  BY <1>2, TagGot
<1>7. \A s, u : u \in Seq(Nat) /\ Cut(s, b \o u) => Parsed(GetLevel(s), v2, nb, s, u)
  <2> HIDE DEF v2
  <2> QED BY <1>1, LevelParsed
<1>8. /\ \A s, u : u \in Seq(Nat) /\ Cut(s, c \o u) => Parsed(GetVarint64(s), v3, nc, s, u)
      /\ \A s, u : u \in Seq(Nat) /\ Cut(s, d \o u) => Parsed(GetVarint64(s), v4, nd, s, u)
  <2> HIDE DEF v3, v4
  <2> QED BY <1>1, NumberParsed
<1>9. /\ \A s, u : u \in Seq(Nat) /\ Cut(s, g \o u) => Parsed(GetMemEntry(s), v5, ng, s, u)
      /\ \A s, u : u \in Seq(Nat) /\ Cut(s, h \o u) => Parsed(GetMemEntry(s), v6, nh, s, u)
  <2> HIDE DEF v5, v6
  <2> QED BY <1>1, EntryParsed
<1>10. x = ((((a \o b) \o c) \o d) \o g) \o h
  BY DEF PutNewFile
<1>11. /\ level = GetLevel(r.rest) /\ n = GetVarint64(level.rest) /\ size = GetVarint64(n.rest)
       /\ smallest = GetMemEntry(size.rest) /\ largest = GetMemEntry(smallest.rest)
  OBVIOUS
<1> HIDE DEF a, b, c, d, g, h, x, r, level, n, size, smallest, largest, v2, v3, v4, v5, v6
<1>12. nb \in Nat /\ nc \in Nat /\ nd \in Nat /\ ng \in Nat /\ nh \in Nat
  BY <1>3, <1>4, LenProperties
<1>13. t6 \in Seq(Nat) /\ t5 \in Seq(Nat) /\ t4 \in Seq(Nat) /\ t3 \in Seq(Nat) /\ t2 \in Seq(Nat)
  <2>1. t6 \in Seq(Nat)
    BY <1>4, ConcatIs
  <2> HIDE DEF t6
  <2>2. t5 \in Seq(Nat)
    BY <1>4, <2>1, ConcatIs
  <2> HIDE DEF t5
  <2>3. t4 \in Seq(Nat)
    BY <1>3, <2>2, ConcatIs
  <2> HIDE DEF t4
  <2>4. t3 \in Seq(Nat)
    BY <1>3, <2>3, ConcatIs
  <2> HIDE DEF t3
  <2>5. t2 \in Seq(Nat)
    BY <1>3, <2>4, ConcatIs
  <2> QED BY <2>1, <2>2, <2>3, <2>4, <2>5
<1>14. x \o t = a \o t2 /\ Len(x) = 1 + nb + nc + nd + ng + nh
  <2> DEFINE x2 == a \o b
             x3 == x2 \o c
             x4 == x3 \o d
             x5 == x4 \o g
             x6 == x5 \o h
  <2>0. Len(b) = nb /\ Len(c) = nc /\ Len(d) = nd /\ Len(g) = ng /\ Len(h) = nh
    OBVIOUS
  <2> HIDE DEF nb, nc, nd, ng, nh
  <2>1. x2 \in Seq(Nat) /\ Len(x2) = 1 + nb
    <3>1. Adds(a, b)
      BY <1>3, AddsIs, Zenon
    <3> QED BY <1>3, <2>0, <3>1, Zenon DEF Adds
  <2> HIDE DEF x2
  <2>2. x3 \in Seq(Nat) /\ Len(x3) = 1 + nb + nc
    <3>1. Adds(x2, c)
      BY <1>3, <2>1, AddsIs, Zenon
    <3> QED BY <1>3, <2>1, <2>0, <3>1, Zenon DEF Adds
  <2> HIDE DEF x3
  <2>3. x4 \in Seq(Nat) /\ Len(x4) = 1 + nb + nc + nd
    <3>1. Adds(x3, d)
      BY <1>3, <2>2, AddsIs, Zenon
    <3> QED BY <1>3, <2>2, <2>0, <3>1, Zenon DEF Adds
  <2> HIDE DEF x4
  <2>4. x5 \in Seq(Nat) /\ Len(x5) = 1 + nb + nc + nd + ng
    <3>1. Adds(x4, g)
      BY <1>3, <1>4, <2>3, AddsIs, Zenon
    <3> QED BY <1>3, <1>4, <2>3, <2>0, <3>1, Zenon DEF Adds
  <2> HIDE DEF x5
  <2>5. x6 \in Seq(Nat) /\ Len(x6) = 1 + nb + nc + nd + ng + nh
    <3>1. Adds(x5, h)
      BY <1>3, <1>4, <2>4, AddsIs, Zenon
    <3> QED BY <1>3, <1>4, <2>4, <2>0, <3>1, Zenon DEF Adds
  <2>6. x = x6
    BY <1>10 DEF x2, x3, x4, x5
  <2>7. x6 \o t = x5 \o t6
    <3>1. Assoc(x5, h, t)
      BY <1>4, <2>4, AssocIs, Zenon
    <3> QED BY <3>1 DEF Assoc
  <2> HIDE DEF x6, t6
  <2>8. x5 \o t6 = x4 \o t5
    <3>1. Assoc(x4, g, t6)
      BY <1>4, <1>13, <2>3, AssocIs, Zenon
    <3> QED BY <3>1 DEF Assoc, x5
  <2> HIDE DEF t5
  <2>9. x4 \o t5 = x3 \o t4
    <3>1. Assoc(x3, d, t5)
      BY <1>3, <1>13, <2>2, AssocIs, Zenon
    <3> QED BY <3>1 DEF Assoc, x4
  <2> HIDE DEF t4
  <2>10. x3 \o t4 = x2 \o t3
    <3>1. Assoc(x2, c, t4)
      BY <1>3, <1>13, <2>1, AssocIs, Zenon
    <3> QED BY <3>1 DEF Assoc, x3
  <2> HIDE DEF t3
  <2>11. x2 \o t3 = a \o t2
    <3>1. Assoc(a, b, t3)
      BY <1>3, <1>13, AssocIs, Zenon
    <3> QED BY <3>1 DEF Assoc, x2
  <2> HIDE DEF t2
  <2> QED BY <2>5, <2>6, <2>7, <2>8, <2>9, <2>10, <2>11
<1>15. /\ t2 = b \o t3 /\ t3 = c \o t4 /\ t4 = d \o t5 /\ t5 = g \o t6 /\ t6 = h \o t
  OBVIOUS
<1>16. /\ ok2 = Both(r.ok, level.ok) /\ ok3 = Both(ok2, n.ok) /\ ok4 = Both(ok3, size.ok)
       /\ ok5 = Both(ok4, smallest.ok) /\ ok6 = Both(ok5, largest.ok)
  OBVIOUS
<1> DEFINE n2 == 1 + nb
           n3 == n2 + nc
           n4 == n3 + nd
           n5 == n4 + ng
           n6 == n5 + nh
<1>17. 1 \in Nat /\ n2 \in Nat /\ n3 \in Nat /\ n4 \in Nat /\ n5 \in Nat
  BY <1>12
<1>18. n2 = 1 + nb /\ n3 = n2 + nc /\ n4 = n3 + nd /\ n5 = n4 + ng /\ n6 = n5 + nh
  OBVIOUS
<1>19. Len(x) = n6
  BY <1>14
<1> HIDE DEF nb, nc, nd, ng, nh, t2, t3, t4, t5, t6, ok2, ok3, ok4, ok5, ok6, n2, n3, n4, n5, n6
<1>20. r.ok /\ r.value = kNewFile /\ Got(r.ok, r.rest, 1, w, t2)
  BY <1>6, <1>13, <1>14, Zenon DEF x
<1>21. Got(ok2, level.rest, n2, w, t3) /\ (ok2 => level.value = v2)
  <2>1. Follows(r.ok, r.rest, 1, w, t2, level, v2, nb, t3)
    BY GotNext, Zenon
  <2>2. r.ok => Parsed(level, v2, nb, r.rest, t3)
    BY <1>7, <1>11, <1>13, <1>15, <1>20, Zenon DEF Got
  <2> QED BY <1>3, <1>5, <1>12, <1>16, <1>17, <1>18, <1>20, <2>1, <2>2, Zenon DEF Follows
<1>22. Got(ok3, n.rest, n3, w, t4) /\ (ok3 => n.value = v3)
  <2>1. Follows(ok2, level.rest, n2, w, t3, n, v3, nc, t4)
    BY GotNext, Zenon
  <2>2. ok2 => Parsed(n, v3, nc, level.rest, t4)
    BY <1>8, <1>11, <1>13, <1>15, <1>21, Zenon DEF Got
  <2> QED BY <1>3, <1>5, <1>12, <1>16, <1>17, <1>18, <1>21, <2>1, <2>2, Zenon DEF Follows
<1>23. Got(ok4, size.rest, n4, w, t5) /\ (ok4 => size.value = v4)
  <2>1. Follows(ok3, n.rest, n3, w, t4, size, v4, nd, t5)
    BY GotNext, Zenon
  <2>2. ok3 => Parsed(size, v4, nd, n.rest, t5)
    BY <1>8, <1>11, <1>13, <1>15, <1>22, Zenon DEF Got
  <2> QED BY <1>3, <1>5, <1>12, <1>16, <1>17, <1>18, <1>22, <2>1, <2>2, Zenon DEF Follows
<1>24. Got(ok5, smallest.rest, n5, w, t6) /\ (ok5 => smallest.value = v5)
  <2>1. Follows(ok4, size.rest, n4, w, t5, smallest, v5, ng, t6)
    BY GotNext, Zenon
  <2>2. ok4 => Parsed(smallest, v5, ng, size.rest, t6)
    BY <1>9, <1>11, <1>13, <1>15, <1>23, Zenon DEF Got
  <2> QED BY <1>3, <1>5, <1>12, <1>16, <1>17, <1>18, <1>23, <2>1, <2>2, Zenon DEF Follows
<1>25. Got(ok6, largest.rest, n6, w, t) /\ (ok6 => largest.value = v6)
  <2>1. Follows(ok5, smallest.rest, n5, w, t6, largest, v6, nh, t)
    BY GotNext, Zenon
  <2>2. ok5 => Parsed(largest, v6, nh, smallest.rest, t)
    BY <1>9, <1>11, <1>15, <1>24, Zenon DEF Got
  <2> QED BY <1>3, <1>5, <1>12, <1>16, <1>17, <1>18, <1>24, <2>1, <2>2, Zenon DEF Follows
<1>26. ok6 => ok5 /\ ok4 /\ ok3 /\ ok2
  BY <1>16, Zenon DEF Both
<1>27. /\ r.ok /\ r.value = kNewFile /\ Got(ok6, largest.rest, Len(x), w, t)
       /\ ok6 => /\ level.value = v2 /\ n.value = v3 /\ size.value = v4
                 /\ smallest.value = v5 /\ largest.value = v6
  BY <1>19, <1>20, <1>21, <1>22, <1>23, <1>24, <1>25, <1>26, Zenon
<1> QED BY <1>27, ZenonT(60) DEF r, level, n, size, smallest, largest, ok2, ok3, ok4, ok5, ok6, v2, v3, v4, v5, v6, x
-----------------------------------------------------------------------------
(* One field more decoded.                                                 *)
LEMMA NumbersAfter ==
  ASSUME NEW e \in Edits
  PROVE  \A p \in 0 .. 3 :
           /\ DecodedAfter(e, p) =
                [log_number_ |-> Unset,
                 prev_log_number_ |-> IF p >= 1 THEN e.prev_log_number_ ELSE Unset,
                 next_file_number_ |-> IF p >= 2 THEN e.next_file_number_ ELSE Unset,
                 last_sequence_ |-> IF p >= 3 THEN e.last_sequence_ ELSE Unset,
                 deleted_files_ |-> {}, new_files_ |-> <<>>]
           /\ FileAfter(e, p) = NoFile
<1> DEFINE n == Deleted(e)
<1>1. n \in Nat
  BY EditIs
<1> HIDE DEF n
<1>2. \A p \in 0 .. 3 : {j \in 1 .. n : j <= p - 3} = {} /\ 1 .. p - 3 - n = {} /\ ~ (p - 3 - n > 0)
  BY <1>1
<1>3. \A p \in 0 .. 3 :
        /\ {Sorted(e.deleted_files_)[i] : i \in {j \in 1 .. n : j <= p - 3}} = {}
        /\ [i \in 1 .. p - 3 - n |-> e.new_files_[i].level] = <<>>
  <2>1. \A p \in 0 .. 3 : [i \in 1 .. p - 3 - n |-> e.new_files_[i].level] = [i \in {} |-> e.new_files_[i].level]
    BY <1>2
  <2>2. [i \in {} |-> e.new_files_[i].level] = <<>>
    OBVIOUS
  <2> QED BY <1>2, <2>1, <2>2
<1>4. \A p \in 0 .. 3 :
        DecodedAfter(e, p) =
          [log_number_ |-> Unset,
           prev_log_number_ |-> IF p >= 1 THEN e.prev_log_number_ ELSE Unset,
           next_file_number_ |-> IF p >= 2 THEN e.next_file_number_ ELSE Unset,
           last_sequence_ |-> IF p >= 3 THEN e.last_sequence_ ELSE Unset,
           deleted_files_ |-> {}, new_files_ |-> <<>>]
  BY <1>3 DEF DecodedAfter, n
<1>5. \A p \in 0 .. 3 : FileAfter(e, p) = NoFile
  BY <1>2 DEF FileAfter, n
<1> QED BY <1>4, <1>5

LEMMA AfterNumber ==
  ASSUME NEW e \in Edits
  PROVE  /\ [DecodedAfter(e, 0) EXCEPT !["prev_log_number_"] = e.prev_log_number_] = DecodedAfter(e, 1)
         /\ [DecodedAfter(e, 1) EXCEPT !["next_file_number_"] = e.next_file_number_] = DecodedAfter(e, 2)
         /\ [DecodedAfter(e, 2) EXCEPT !["last_sequence_"] = e.last_sequence_] = DecodedAfter(e, 3)
         /\ \A p \in 0 .. 3 : FileAfter(e, p) = NoFile
<1>5. /\ DecodedAfter(e, 0) = Clear
      /\ DecodedAfter(e, 1) = [Clear EXCEPT !.prev_log_number_ = e.prev_log_number_]
      /\ DecodedAfter(e, 2) = [[Clear EXCEPT !.prev_log_number_ = e.prev_log_number_]
                                 EXCEPT !.next_file_number_ = e.next_file_number_]
      /\ DecodedAfter(e, 3) = [[[Clear EXCEPT !.prev_log_number_ = e.prev_log_number_]
                                  EXCEPT !.next_file_number_ = e.next_file_number_]
                                  EXCEPT !.last_sequence_ = e.last_sequence_]
  <2> DEFINE R(u, v, w) == [log_number_ |-> Unset,
                            prev_log_number_ |-> u, next_file_number_ |-> v, last_sequence_ |-> w,
                            deleted_files_ |-> {}, new_files_ |-> <<>>]
             a == e.prev_log_number_
             b == e.next_file_number_
             c == e.last_sequence_
  <2>1. \A p \in 0 .. 3 :
          DecodedAfter(e, p) = R(IF p >= 1 THEN a ELSE Unset, IF p >= 2 THEN b ELSE Unset,
                                 IF p >= 3 THEN c ELSE Unset)
    BY NumbersAfter
  <2>2. Clear = R(Unset, Unset, Unset)
    BY DEF Clear
  <2> HIDE DEF a, b, c
  <2>3. [R(Unset, Unset, Unset) EXCEPT !.prev_log_number_ = a] = R(a, Unset, Unset)
    <3> DEFINE x == R(Unset, Unset, Unset)
               y == [x EXCEPT !.prev_log_number_ = a]
               z == R(a, Unset, Unset)
    <3>1. /\ y.log_number_ = z.log_number_
          /\ y.prev_log_number_ = z.prev_log_number_ /\ y.next_file_number_ = z.next_file_number_
          /\ y.last_sequence_ = z.last_sequence_ /\ y.deleted_files_ = z.deleted_files_
          /\ y.new_files_ = z.new_files_
      OBVIOUS
    <3>2. DOMAIN y = DOMAIN z
      OBVIOUS
    <3> QED BY <3>1, <3>2
  <2>5. [R(a, Unset, Unset) EXCEPT !.next_file_number_ = b] = R(a, b, Unset)
    <3> DEFINE x == R(a, Unset, Unset)
               y == [x EXCEPT !.next_file_number_ = b]
               z == R(a, b, Unset)
    <3>1. /\ y.log_number_ = z.log_number_
          /\ y.prev_log_number_ = z.prev_log_number_ /\ y.next_file_number_ = z.next_file_number_
          /\ y.last_sequence_ = z.last_sequence_ /\ y.deleted_files_ = z.deleted_files_
          /\ y.new_files_ = z.new_files_
      OBVIOUS
    <3>2. DOMAIN y = DOMAIN z
      OBVIOUS
    <3> QED BY <3>1, <3>2
  <2>6. [R(a, b, Unset) EXCEPT !.last_sequence_ = c] = R(a, b, c)
    <3> DEFINE x == R(a, b, Unset)
               y == [x EXCEPT !.last_sequence_ = c]
               z == R(a, b, c)
    <3>1. /\ y.log_number_ = z.log_number_
          /\ y.prev_log_number_ = z.prev_log_number_ /\ y.next_file_number_ = z.next_file_number_
          /\ y.last_sequence_ = z.last_sequence_ /\ y.deleted_files_ = z.deleted_files_
          /\ y.new_files_ = z.new_files_
      OBVIOUS
    <3>2. DOMAIN y = DOMAIN z
      OBVIOUS
    <3> QED BY <3>1, <3>2
  <2> HIDE DEF R
  <2>4. /\ DecodedAfter(e, 0) = R(Unset, Unset, Unset) /\ DecodedAfter(e, 1) = R(a, Unset, Unset)
        /\ DecodedAfter(e, 2) = R(a, b, Unset) /\ DecodedAfter(e, 3) = R(a, b, c)
    BY <2>1
  <2>7. [Clear EXCEPT !.prev_log_number_ = a] = R(a, Unset, Unset)
    BY <2>2, <2>3
  <2>8. /\ DecodedAfter(e, 0) = Clear
        /\ DecodedAfter(e, 1) = [Clear EXCEPT !.prev_log_number_ = a]
    BY <2>2, <2>4, <2>7
  <2>9. DecodedAfter(e, 2) = [[Clear EXCEPT !.prev_log_number_ = a] EXCEPT !.next_file_number_ = b]
    BY <2>4, <2>5, <2>7
  <2>10. DecodedAfter(e, 3) = [[[Clear EXCEPT !.prev_log_number_ = a] EXCEPT !.next_file_number_ = b]
                                 EXCEPT !.last_sequence_ = c]
    BY <2>4, <2>5, <2>6, <2>7
  <2> QED BY <2>8, <2>9, <2>10, Zenon DEF a, b, c
<1>6. \A p \in 0 .. 3 : FileAfter(e, p) = NoFile
  BY NumbersAfter
<1> QED BY <1>5, <1>6

LEMMA AfterDeleted ==
  ASSUME NEW e \in Edits, NEW i \in 1 .. Deleted(e)
  PROVE  LET d == Sorted(e.deleted_files_)[i]
         IN /\ [DecodedAfter(e, i + 2) EXCEPT !.deleted_files_ = @ \cup {d}] = DecodedAfter(e, i + 3)
            /\ FileAfter(e, i + 2) = NoFile /\ FileAfter(e, i + 3) = NoFile
<1> DEFINE n == Deleted(e)
           s == Sorted(e.deleted_files_)
           d == s[i]
           p == i + 2
           q == i + 3
           A == {s[k] : k \in {j \in 1 .. n : j <= p - 3}}
           B == {s[k] : k \in {j \in 1 .. n : j <= q - 3}}
<1>1. n \in Nat /\ i \in 1 .. n
  BY EditIs
<1>2. B = A \cup {d}
  <2> HIDE DEF n, s
  <2>1. {j \in 1 .. n : j <= q - 3} = {j \in 1 .. n : j <= p - 3} \cup {i}
    BY <1>1
  <2> QED BY <2>1
<1>3. /\ 1 .. p - 3 - n = {} /\ 1 .. q - 3 - n = {} /\ ~ (p - 3 - n > 0) /\ ~ (q - 3 - n > 0)
      /\ p >= 1 /\ p >= 2 /\ p >= 3 /\ q >= 1 /\ q >= 2 /\ q >= 3
  <2> HIDE DEF n
  <2> QED BY <1>1
<1> DEFINE x == [k \in {} |-> e.new_files_[k].level]
           R(S) == [log_number_ |-> Unset,
                    prev_log_number_ |-> e.prev_log_number_, next_file_number_ |-> e.next_file_number_,
                    last_sequence_ |-> e.last_sequence_, deleted_files_ |-> S, new_files_ |-> x]
<1>4. DecodedAfter(e, p) = R(A) /\ DecodedAfter(e, q) = R(B)
  <2> HIDE DEF p, q
  <2> QED BY <1>3, Zenon DEF DecodedAfter
<1>5. FileAfter(e, p) = NoFile /\ FileAfter(e, q) = NoFile
  <2> HIDE DEF p, q
  <2> QED BY <1>3, Zenon DEF FileAfter
<1> HIDE DEF A, B, x, n, s, p, q
<1>6. [R(A) EXCEPT !.deleted_files_ = @ \cup {d}] = R(A \cup {d})
  OBVIOUS
<1> QED BY <1>2, <1>4, <1>5, <1>6 DEF s, p, q

LEMMA AfterNew ==
  ASSUME NEW e \in Edits, NEW i \in 1 .. News(e)
  PROVE  LET p == i + 2 + Deleted(e)
             v == e.new_files_[i]
         IN /\ [DecodedAfter(e, p) EXCEPT !.new_files_ = Append(@, v.level)] = DecodedAfter(e, p + 1)
            /\ FileAfter(e, p + 1) = v.file
<1> DEFINE n == Deleted(e)
           s == Sorted(e.deleted_files_)
           p == i + 2 + n
           q == p + 1
           lev(k) == e.new_files_[k].level
           x == [k \in 1 .. i - 1 |-> lev(k)]
           y == [k \in 1 .. i |-> lev(k)]
           A == {s[k] : k \in {j \in 1 .. n : j <= p - 3}}
           B == {s[k] : k \in {j \in 1 .. n : j <= q - 3}}
<1>1. n \in Nat /\ i \in Nat \ {0}
  BY EditIs
<1>2. A = B
  <2> HIDE DEF n, s
  <2>1. {j \in 1 .. n : j <= p - 3} = {j \in 1 .. n : j <= q - 3}
    BY <1>1
  <2> QED BY <2>1
<1>3. y = Append(x, lev(i))
  <2> HIDE DEF lev
  <2> QED BY <1>1
<1>4. /\ p - 3 - n = i - 1 /\ q - 3 - n = i /\ i > 0
      /\ p >= 1 /\ p >= 2 /\ p >= 3 /\ q >= 1 /\ q >= 2 /\ q >= 3
  <2> HIDE DEF n
  <2> QED BY <1>1
<1> DEFINE R(S, z) == [log_number_ |-> Unset,
                       prev_log_number_ |-> e.prev_log_number_, next_file_number_ |-> e.next_file_number_,
                       last_sequence_ |-> e.last_sequence_, deleted_files_ |-> S, new_files_ |-> z]
<1>5. DecodedAfter(e, p) = R(A, x) /\ DecodedAfter(e, q) = R(B, y)
  <2> HIDE DEF p, q
  <2> QED BY <1>4, Zenon DEF DecodedAfter
<1>6. FileAfter(e, q) = e.new_files_[i].file
  <2> HIDE DEF p, q
  <2> QED BY <1>4, Zenon DEF FileAfter
<1> HIDE DEF A, B, x, y, p, q
<1>7. [R(A, x) EXCEPT !.new_files_ = Append(@, lev(i))] = R(A, Append(x, lev(i)))
  <2> HIDE DEF lev
  <2> QED BY SMTT(30)
<1> QED BY <1>2, <1>3, <1>5, <1>6, <1>7 DEF p, q
-----------------------------------------------------------------------------
(* The next field.                                                         *)
LEMMA FieldKind ==
  ASSUME NEW e \in Edits, NEW p \in Nat, p < Len(Fields(e))
  PROVE  \/ p \in 0 .. 2 /\ Fields(e)[p + 1] = Scalar(e, p)
         \/ \E i \in 1 .. Deleted(e) :
              p = i + 2 /\ Fields(e)[p + 1] = PutDeletedFile(Sorted(e.deleted_files_)[i])
         \/ \E i \in 1 .. News(e) :
              p = i + 2 + Deleted(e) /\ Fields(e)[p + 1] = PutNewFile(e.new_files_[i])
<1> DEFINE n == Deleted(e)
           m == News(e)
           F == Fields(e)
           l == Len(F)
<1>1. n \in Nat /\ m \in Nat /\ l = 3 + n + m /\ p < l
  BY EditIs, FieldsAre
<1>2. /\ \A q \in 0 .. 2 : F[q + 1] = Scalar(e, q)
      /\ \A i \in 1 .. n : F[3 + i] = PutDeletedFile(Sorted(e.deleted_files_)[i])
      /\ \A i \in 1 .. m : F[3 + n + i] = PutNewFile(e.new_files_[i])
  BY FieldsAre
<1> HIDE DEF n, m, F, l
<1>3. CASE p <= 2
  <2>1. p \in 0 .. 2
    BY <1>3
  <2> QED BY <1>2, <2>1 DEF F
<1>4. CASE 2 < p /\ p <= n + 2
  <2> DEFINE i == p - 2
  <2>1. i \in 1 .. n /\ p = i + 2 /\ 3 + i = p + 1
    BY <1>1, <1>4
  <2> HIDE DEF i
  <2>2. F[p + 1] = PutDeletedFile(Sorted(e.deleted_files_)[i])
    BY <1>2, <2>1
  <2> QED BY <2>1, <2>2, Zenon DEF F, n
<1>5. CASE n + 2 < p
  <2> DEFINE i == p - n - 2
  <2>1. i \in 1 .. m /\ p = i + 2 + n /\ 3 + n + i = p + 1
    BY <1>1, <1>5
  <2> HIDE DEF i
  <2>2. F[p + 1] = PutNewFile(e.new_files_[i])
    BY <1>2, <2>1
  <2> QED BY <2>1, <2>2, Zenon DEF F, n, m
<1>6. p <= 2 \/ (2 < p /\ p <= n + 2) \/ n + 2 < p
  BY <1>1
<1> QED BY <1>3, <1>4, <1>5, <1>6

LEMMA NotEmpty ==
  ASSUME NEW s \in Seq(Nat), NEW t \in Seq(Nat), s # <<>>
  PROVE  s \o t \in Seq(Nat) /\ s \o t # <<>>
<1> DEFINE n == Len(s)
           m == Len(t)
           k == Len(s \o t)
<1>1. n \in Nat /\ n # 0 /\ m \in Nat /\ k = n + m /\ s \o t \in Seq(Nat)
  BY ConcatIs, EmptySeq, LenProperties
<1>2. k # 0
  <2> HIDE DEF n, m, k
  <2> QED BY <1>1
<1> QED BY <1>1, <1>2, EmptySeq

(* Every field with a value has bytes.                                     *)
LEMMA HasBytes ==
  /\ \A k \in Tags, n \in Number : PutNumber(k, n) # <<>>
  /\ \A d : d[1] \in 0 .. kMaxLevel - 1 /\ d[2] \in Number => PutDeletedFile(d) # <<>>
  /\ \A n \in NewFile : PutNewFile(n) # <<>>
<1>1. \A k \in Tags : PutVarint(k) \in Seq(Nat) /\ PutVarint(k) # <<>>
  <2>1. Len(<<>>) = 0 /\ 0 # 1
    OBVIOUS
  <2> QED BY <2>1, TagIs
<1>2. \A n \in Number : PutVarint(n) \in Seq(Nat)
  BY NumberBytes
<1>3. 0 .. kMaxLevel - 1 \subseteq Number /\ Unset \notin Number
  BY VersionEditAssumption DEF Number
<1>4. kDeletedFile \in Tags /\ kNewFile \in Tags
  BY DEF Tags
<1>5. ASSUME NEW k \in Tags, NEW n \in Number PROVE PutNumber(k, n) # <<>>
  <2>1. PutNumber(k, n) = PutVarint(k) \o PutVarint(n)
    BY <1>3 DEF PutNumber
  <2> QED BY <1>1, <1>2, <2>1, NotEmpty, Zenon
<1>6. ASSUME NEW d, d[1] \in 0 .. kMaxLevel - 1, d[2] \in Number PROVE PutDeletedFile(d) # <<>>
  <2>1. PutVarint(d[1]) \in Seq(Nat) /\ PutVarint(d[2]) \in Seq(Nat)
    BY <1>2, <1>3, <1>6
  <2>2. PutVarint(kDeletedFile) \o PutVarint(d[1]) \in Seq(Nat)
        /\ PutVarint(kDeletedFile) \o PutVarint(d[1]) # <<>>
    BY <1>1, <1>4, <2>1, NotEmpty, Zenon
  <2> QED BY <2>1, <2>2, NotEmpty, Zenon DEF PutDeletedFile
<1>7. ASSUME NEW n \in NewFile PROVE PutNewFile(n) # <<>>
  <2> DEFINE b == PutVarint(n.level)
             c == PutVarint(n.file.number)
             d == PutVarint(n.file.file_size)
             g == PutLengthPrefixedSlice(EncodeMemEntry(n.file.smallest))
             h == PutLengthPrefixedSlice(EncodeMemEntry(n.file.largest))
             a == PutVarint(kNewFile)
  <2>1. /\ n.level \in 0 .. kMaxLevel - 1 /\ n.file.number \in Number /\ n.file.file_size \in Number
        /\ n.file.smallest \in MemEntry /\ n.file.largest \in MemEntry
    BY DEF NewFile, FileMetaData
  <2>2. g \in Seq(Nat) /\ h \in Seq(Nat)
    BY <2>1, EntryLength, PutSliceIs
  <2>3. a \in Seq(Nat) /\ a # <<>> /\ b \in Seq(Nat) /\ c \in Seq(Nat) /\ d \in Seq(Nat)
    BY <1>1, <1>2, <1>3, <1>4, <2>1
  <2>4. PutNewFile(n) = ((((a \o b) \o c) \o d) \o g) \o h
    BY DEF PutNewFile
  <2> HIDE DEF a, b, c, d, g, h
  <2>5. a \o b \in Seq(Nat) /\ a \o b # <<>>
    BY <2>3, NotEmpty, Zenon
  <2>6. (a \o b) \o c \in Seq(Nat) /\ (a \o b) \o c # <<>>
    BY <2>3, <2>5, NotEmpty, Zenon
  <2>7. ((a \o b) \o c) \o d \in Seq(Nat) /\ ((a \o b) \o c) \o d # <<>>
    BY <2>3, <2>6, NotEmpty, Zenon
  <2>8. (((a \o b) \o c) \o d) \o g \in Seq(Nat) /\ (((a \o b) \o c) \o d) \o g # <<>>
    BY <2>2, <2>7, NotEmpty, Zenon
  <2> QED BY <2>2, <2>4, <2>8, NotEmpty, Zenon
<1> QED BY <1>5, <1>6, <1>7, Zenon

(* A field without bytes is a number that is not set: nothing changes      *)
(* behind it.                                                              *)
LEMMA SkipEmpty ==
  ASSUME NEW e \in Edits, NEW c, NEW w, NEW d, NEW g, NEW p, Behind(e, c, w, d, g, p), ~ Settled(e, p)
  PROVE  p \in 0 .. 2 /\ Behind(e, c, w, d, g, p + 1)
<1> DEFINE n == Len(Fields(e))
<1>1. n \in Nat /\ p \in 0 .. n /\ p # n /\ Fields(e)[p + 1] = <<>>
  BY FieldsAre, EditIs, SMTT(30) DEF Behind, Settled
<1>2. p \in Nat /\ p < n
  <2> HIDE DEF n
  <2> QED BY <1>1
<1>3. p \in 0 .. 2 /\ Scalar(e, p) = <<>>
  <2>1. CASE p \in 0 .. 2 /\ Fields(e)[p + 1] = Scalar(e, p)
    BY <1>1, <2>1
  <2>2. ASSUME NEW i \in 1 .. Deleted(e), Fields(e)[p + 1] = PutDeletedFile(Sorted(e.deleted_files_)[i])
        PROVE  FALSE
    BY <1>1, <2>2, EditIs, HasBytes
  <2>3. ASSUME NEW i \in 1 .. News(e), Fields(e)[p + 1] = PutNewFile(e.new_files_[i])
        PROVE  FALSE
    <3>1. e.new_files_[i] \in NewFile
      BY EditIs, ElementOfSeq DEF News
    <3> QED BY <1>1, <2>3, <3>1, HasBytes
  <2> QED BY <1>2, <2>1, <2>2, <2>3, FieldKind
<1>4. /\ p = 0 => e.prev_log_number_ = Unset
      /\ p = 1 => e.next_file_number_ = Unset
      /\ p = 2 => e.last_sequence_ = Unset
  <2>1. kPrevLogNumber \in Tags /\ kNextFileNumber \in Tags /\ kLastSequence \in Tags
    BY DEF Tags
  <2>2. /\ Scalar(e, 0) = PutNumber(kPrevLogNumber, e.prev_log_number_)
        /\ Scalar(e, 1) = PutNumber(kNextFileNumber, e.next_file_number_)
        /\ Scalar(e, 2) = PutNumber(kLastSequence, e.last_sequence_)
    BY DEF Scalar
  <2> QED BY <1>3, <2>1, <2>2, EditIs, HasBytes
<1>5. DecodedAfter(e, p + 1) = DecodedAfter(e, p) /\ FileAfter(e, p + 1) = FileAfter(e, p)
  <2>1. p \in 0 .. 3 /\ p + 1 \in 0 .. 3
    BY <1>3
  <2>2. /\ (p >= 1 <=> p + 1 >= 1) \/ p = 0
        /\ (p >= 2 <=> p + 1 >= 2) \/ p = 1
        /\ (p >= 3 <=> p + 1 >= 3) \/ p = 2
    BY <1>3
  <2>3. /\ (IF p >= 1 THEN e.prev_log_number_ ELSE Unset) = (IF p + 1 >= 1 THEN e.prev_log_number_ ELSE Unset)
        /\ (IF p >= 2 THEN e.next_file_number_ ELSE Unset) = (IF p + 1 >= 2 THEN e.next_file_number_ ELSE Unset)
        /\ (IF p >= 3 THEN e.last_sequence_ ELSE Unset) = (IF p + 1 >= 3 THEN e.last_sequence_ ELSE Unset)
    BY <1>3, <1>4
  <2> DEFINE R(i) == [log_number_ |-> Unset,
                      prev_log_number_ |-> IF i >= 1 THEN e.prev_log_number_ ELSE Unset,
                      next_file_number_ |-> IF i >= 2 THEN e.next_file_number_ ELSE Unset,
                      last_sequence_ |-> IF i >= 3 THEN e.last_sequence_ ELSE Unset,
                      deleted_files_ |-> {}, new_files_ |-> <<>>]
  <2>4. /\ DecodedAfter(e, p) = R(p) /\ DecodedAfter(e, p + 1) = R(p + 1)
        /\ FileAfter(e, p) = NoFile /\ FileAfter(e, p + 1) = NoFile
    BY <2>1, NumbersAfter
  <2>5. R(p) = R(p + 1)
    BY <2>3, Zenon
  <2> QED BY <2>4, <2>5
<1>6. Unread(e, p + 1) = Unread(e, p)
  <2>1. Unread(e, p) = <<>> \o Unread(e, p + 1) /\ Unread(e, p + 1) \in Seq(Nat)
    BY <1>1, <1>2, UnreadIs
  <2> HIDE DEF Unread
  <2> QED BY <2>1, ConcatEmptySeq
<1>7. p + 1 \in 0 .. n
  <2> HIDE DEF n
  <2> QED BY <1>1, <1>2
<1> QED BY <1>3, <1>5, <1>6, <1>7 DEF Behind

LEMMA Advance ==
  ASSUME NEW e \in Edits, NEW c, NEW w, NEW d, NEW g, NEW p, Behind(e, c, w, d, g, p)
  PROVE  \E q \in Nat : Behind(e, c, w, d, g, q) /\ Settled(e, q)
<1> DEFINE B(q) == Behind(e, c, w, d, g, q)
           P == \E q \in Nat : B(q) /\ Settled(e, q)
<1>1. \A q : B(q) => q \in Nat
  BY FieldsAre, EditIs DEF Behind
<1>2. \A q : B(q) /\ ~ Settled(e, q) => q \in 0 .. 2 /\ B(q + 1)
  BY SkipEmpty
<1> HIDE DEF B
<1>3. \A q : B(q) /\ q \notin 0 .. 2 => P
  BY <1>1, <1>2, Zenon
<1>4. 3 \notin 0 .. 2 /\ 2 + 1 = 3 /\ 1 + 1 = 2 /\ 0 + 1 = 1
      /\ \A q \in 0 .. 2 : q = 0 \/ q = 1 \/ q = 2
  OBVIOUS
<1> HIDE DEF P
<1>5. \A q : B(q) => P \/ (q \in 0 .. 2 /\ B(q + 1))
  BY <1>1, <1>2, Zenon DEF P
<1>6. B(3) => P
  BY <1>3, <1>4, Zenon
<1>7. B(2) => P
  BY <1>4, <1>5, <1>6
<1>8. B(1) => P
  BY <1>4, <1>5, <1>7
<1>9. B(0) => P
  BY <1>4, <1>5, <1>8
<1>10. B(p) => P
  BY <1>3, <1>4, <1>7, <1>8, <1>9
<1> QED BY <1>10 DEF B, P
-----------------------------------------------------------------------------
(* The invariant behind the next field, and when bytes of it are missing.  *)
LEMMA GoesOn ==
  ASSUME NEW e \in Edits, NEW c \in Nat, NEW w, NEW d, NEW g, NEW p, Behind(e, c, w, d, g, p)
  PROVE  Good(e, c, w, d, g, "")
  BY Advance DEF Good

LEMMA StopsShort ==
  ASSUME NEW e \in Edits, NEW c \in Nat, NEW w, NEW d, NEW g, c # 0
  PROVE  Good(e, c, w, d, g, "corruption")
  BY DEF Good

Moved(e, c, p, ok, rest) ==
  IF ok THEN /\ p + 1 \in 0 .. Len(Fields(e)) /\ Cut(rest, Unread(e, p + 1))
             /\ Len(rest) = Len(Unread(e, p + 1)) - c
  ELSE c # 0

LEMMA BehindField ==
  ASSUME NEW e \in Edits, NEW c \in Nat, NEW w, NEW d, NEW g, NEW p, Behind(e, c, w, d, g, p)
  PROVE  /\ p \in Nat /\ p + 1 \in Nat /\ (p = Len(Fields(e)) \/ p < Len(Fields(e)))
         /\ p = Len(Fields(e)) => w = <<>>
         /\ p < Len(Fields(e)) =>
              /\ Cut(w, Fields(e)[p + 1] \o Unread(e, p + 1)) /\ Unread(e, p + 1) \in Seq(Nat)
              /\ \A ok, rest : Got(ok, rest, Len(Fields(e)[p + 1]), w, Unread(e, p + 1))
                                => Moved(e, c, p, ok, rest)
<1> DEFINE n == Len(Fields(e))
           x == Fields(e)[p + 1]
           u == Unread(e, p)
           v == Unread(e, p + 1)
<1>1. /\ n \in Nat /\ p \in 0 .. n /\ Cut(w, u) /\ Len(w) = Len(u) - c
  BY FieldsAre, EditIs DEF Behind
<1>2. /\ p = n => u = <<>>
      /\ p < n => x \in Seq(Nat) /\ u = x \o v /\ v \in Seq(Nat)
  BY <1>1, UnreadIs, Zenon
<1> HIDE DEF n, x, u, v
<1>3. p \in Nat /\ p + 1 \in Nat /\ (p = n \/ p < n) /\ (p < n => p + 1 \in 0 .. n)
  BY <1>1
<1>4. p = n => w = <<>>
  <2> SUFFICES ASSUME p = n PROVE w = <<>>
    OBVIOUS
  <2>1. w \in Seq(Nat) /\ Len(w) <= Len(<<>>)
    BY <1>1, <1>2 DEF Cut
  <2>2. Len(w) = 0
    BY <2>1
  <2> QED BY <2>1, <2>2, EmptySeq
<1>5. ASSUME p < n, NEW ok, NEW rest, Got(ok, rest, Len(x), w, v)
      PROVE  Moved(e, c, p, ok, rest)
  <2> DEFINE lx == Len(x)
             lv == Len(v)
             lw == Len(w)
  <2>1. lx \in Nat /\ lv \in Nat /\ lw = lx + lv - c
    <3>1. Len(u) = Len(x) + Len(v) /\ Len(x) \in Nat /\ Len(v) \in Nat
      BY <1>2, <1>5, ConcatIs, LenProperties
    <3> QED BY <1>1, <3>1
  <2>2. ok \in BOOLEAN /\ (ok <=> lx <= lw) /\ (ok => Cut(rest, v) /\ Len(rest) = lw - lx)
    BY <1>5, Zenon DEF Got
  <2> HIDE DEF lx, lv, lw
  <2>3. lw - lx = lv - c /\ (~ (lx <= lw) => c # 0)
    BY <2>1
  <2> QED BY <1>3, <1>5, <2>2, <2>3, Zenon DEF lv, Moved, n, v
<1>6. p < n => Cut(w, x \o v)
  BY <1>1, <1>2
<1> QED BY <1>2, <1>3, <1>4, <1>5, <1>6, Zenon DEF n, x, v

LEMMA InitGood == Init => IInv
<1> SUFFICES ASSUME Init PROVE IInv
  OBVIOUS
<1> DEFINE s == EncodeTo(edit)
           n == Len(s)
           k == n - cut
<1>1. edit \in Edits /\ cut \in 0 .. n /\ input = SubSeq(s, 1, k) /\ decoded = Clear
      /\ f = NoFile /\ msg = ""
  BY DEF Init
<1>2. Len(Fields(edit)) \in Nat /\ 0 \in 0 .. Len(Fields(edit))
  <2>1. Len(Fields(edit)) \in Nat
    BY <1>1, FieldsAre, LenProperties
  <2> QED BY <2>1
<1>3. s \in Seq(Nat) /\ Unread(edit, 0) = s
  BY <1>1, <1>2, UnreadIs
<1> HIDE DEF s
<1>4. n \in Nat /\ k \in 0 .. n /\ cut \in Nat
  <2>1. n \in Nat
    BY <1>3
  <2>2. cut \in 0 .. n
    BY <1>1
  <2> HIDE DEF n
  <2> QED BY <2>1, <2>2
<1>5. Cut(input, s) /\ Len(input) = k
  <2> HIDE DEF k
  <2> QED BY <1>1, <1>3, <1>4, CutFirst
<1>6. decoded = DecodedAfter(edit, 0) /\ f = FileAfter(edit, 0)
  <2>1. 0 \in 0 .. 3 /\ ~ (0 >= 1) /\ ~ (0 >= 2) /\ ~ (0 >= 3)
    OBVIOUS
  <2> QED BY <1>1, <2>1, NumbersAfter, Zenon DEF Clear
<1>7. Behind(edit, cut, input, decoded, f, 0)
  BY <1>2, <1>3, <1>5, <1>6 DEF Behind
<1> QED BY <1>1, <1>4, <1>7, GoesOn, Zenon DEF IInv
-----------------------------------------------------------------------------
LEMMA GotField ==
  ASSUME NEW e \in Edits, NEW c \in Nat, NEW w, NEW d, NEW g, NEW p, Behind(e, c, w, d, g, p),
         p < Len(Fields(e)), NEW ok, NEW rest, NEW n, n = Len(Fields(e)[p + 1]),
         NEW t, t = Unread(e, p + 1), Got(ok, rest, n, w, t)
  PROVE  Moved(e, c, p, ok, rest)
<1>1. \A o, s : Got(o, s, Len(Fields(e)[p + 1]), w, Unread(e, p + 1)) => Moved(e, c, p, o, s)
  BY BehindField
<1> QED BY <1>1, Zenon

(* A step over a field keeps the invariant.                                *)
SetsNumber(e, p, field, v) ==
  /\ [DecodedAfter(e, p) EXCEPT ![field] = v] = DecodedAfter(e, p + 1)
  /\ FileAfter(e, p + 1) = FileAfter(e, p)

LEMMA NumberStep ==
  ASSUME edit \in Edits, cut \in Nat, NEW p, Behind(edit, cut, input, decoded, f, p),
         p < Len(Fields(edit)), input # <<>>, NEW k \in Tags, NEW v \in Number,
         Fields(edit)[p + 1] = PutNumber(k, v), NEW field, number(k, field),
         SetsNumber(edit, p, field, v)
  PROVE  IInv'
<1> DEFINE r == GetVarint32(input)
           n == GetVarint64(r.rest)
           t == Unread(edit, p + 1)
<1>1. msg = "" /\ r.ok /\ UNCHANGED <<edit, cut, f>>
  BY DEF number, Reading, tag
<1>2. IF n.ok THEN decoded' = [decoded EXCEPT ![field] = n.value] /\ input' = n.rest /\ msg' = msg
      ELSE msg' = "corruption" /\ decoded' = decoded /\ input' = input
  BY DEF number, tag
<1>3. Cut(input, PutNumber(k, v) \o t) /\ t \in Seq(Nat)
  BY BehindField
<1>4. Got(Both(r.ok, n.ok), n.rest, Len(PutNumber(k, v)), input, t) /\ (Both(r.ok, n.ok) => n.value = v)
  <2> HIDE DEF t
  <2>1. NumberGot(k, v, t, input)
    BY <1>3, NumberRead, Zenon
  <2> QED BY <2>1, Zenon DEF NumberGot
<1>6. decoded = DecodedAfter(edit, p) /\ f = FileAfter(edit, p)
  BY DEF Behind
<1>9. t = Unread(edit, p + 1)
  OBVIOUS
<1> HIDE DEF r, n, t
<1>5. Moved(edit, cut, p, Both(r.ok, n.ok), n.rest)
  BY <1>4, <1>9, GotField, Zenon
<1>7. CASE n.ok
  <2>1. Both(r.ok, n.ok)
    BY <1>1, <1>7 DEF Both
  <2>2. Behind(edit, cut, n.rest, DecodedAfter(edit, p + 1), f, p + 1)
    BY <1>5, <1>6, <2>1 DEF Behind, Moved, SetsNumber
  <2>3. Good(edit, cut, n.rest, DecodedAfter(edit, p + 1), f, "")
    BY <2>2, GoesOn, Zenon
  <2>4. decoded' = DecodedAfter(edit, p + 1) /\ input' = n.rest /\ msg' = ""
    BY <1>1, <1>2, <1>4, <1>6, <1>7, <2>1 DEF SetsNumber
  <2>5. edit' = edit /\ cut' = cut /\ f' = f
    BY <1>1
  <2> QED BY <2>3, <2>4, <2>5, Zenon DEF IInv
<1>8. CASE ~ n.ok
  <2>1. ~ Both(r.ok, n.ok)
    BY <1>8 DEF Both
  <2>2. cut # 0 /\ msg' = "corruption"
    BY <1>2, <1>5, <1>8, <2>1, Zenon DEF Moved
  <2>3. edit' = edit /\ cut' = cut
    BY <1>1
  <2> QED BY <2>2, <2>3, StopsShort, Zenon DEF IInv
<1> QED BY <1>7, <1>8

LEMMA DeletedStep ==
  ASSUME edit \in Edits, cut \in Nat, NEW i \in 1 .. Deleted(edit),
         Behind(edit, cut, input, decoded, f, i + 2),
         i + 2 < Len(Fields(edit)), input # <<>>,
         Fields(edit)[i + 2 + 1] = PutDeletedFile(Sorted(edit.deleted_files_)[i]), deletedFile
  PROVE  IInv'
<1> DEFINE r == GetVarint32(input)
           level == GetLevel(r.rest)
           n == GetVarint64(level.rest)
           p == i + 2
           t == Unread(edit, p + 1)
           d == Sorted(edit.deleted_files_)[i]
           all == Both(Both(r.ok, level.ok), n.ok)
<1>1. msg = "" /\ r.ok /\ UNCHANGED <<edit, cut, f>>
  BY DEF deletedFile, Reading, tag
<1>2. IF level.ok /\ n.ok
      THEN /\ decoded' = [decoded EXCEPT !.deleted_files_ = @ \cup {<<level.value, n.value>>}]
           /\ input' = n.rest /\ msg' = msg
      ELSE msg' = "corruption" /\ decoded' = decoded /\ input' = input
  BY DEF deletedFile, tag
<1>3. /\ d[1] \in 0 .. kMaxLevel - 1 /\ d[2] \in Number /\ d = <<d[1], d[2]>>
      /\ [DecodedAfter(edit, p) EXCEPT !.deleted_files_ = @ \cup {d}] = DecodedAfter(edit, p + 1)
      /\ FileAfter(edit, p) = NoFile /\ FileAfter(edit, p + 1) = NoFile
  <2>1. p + 1 = i + 3
    BY EditIs
  <2>2. i + 2 = p
    OBVIOUS
  <2> QED BY <2>1, <2>2, EditIs, AfterDeleted, ZenonT(60)
<1> HIDE DEF d
<1>4. Cut(input, PutDeletedFile(d) \o t) /\ t \in Seq(Nat)
  BY BehindField DEF d
<1>5. Got(all, n.rest, Len(PutDeletedFile(d)), input, t) /\ (all => level.value = d[1] /\ n.value = d[2])
  <2> HIDE DEF t
  <2> QED BY <1>3, <1>4, DeletedRead, ZenonT(60)
<1>7. decoded = DecodedAfter(edit, p) /\ f = FileAfter(edit, p)
  BY DEF Behind
<1>10. /\ t = Unread(edit, p + 1) /\ Behind(edit, cut, input, decoded, f, p)
       /\ p < Len(Fields(edit)) /\ Fields(edit)[p + 1] = PutDeletedFile(d)
  BY DEF d
<1> HIDE DEF r, level, n, p, t
<1>6. Moved(edit, cut, p, all, n.rest)
  <2> HIDE DEF all
  <2> QED BY <1>5, <1>10, GotField, Zenon
<1>8. CASE level.ok /\ n.ok
  <2>1. all
    BY <1>1, <1>8 DEF Both
  <2>2. Behind(edit, cut, n.rest, DecodedAfter(edit, p + 1), f, p + 1)
    BY <1>3, <1>6, <1>7, <2>1 DEF Behind, Moved
  <2>3. Good(edit, cut, n.rest, DecodedAfter(edit, p + 1), f, "")
    BY <2>2, GoesOn, Zenon
  <2>4. decoded' = DecodedAfter(edit, p + 1) /\ input' = n.rest /\ msg' = ""
    <3>1. <<level.value, n.value>> = d
      BY <1>3, <1>5, <2>1
    <3>2. decoded' = [decoded EXCEPT !.deleted_files_ = @ \cup {<<level.value, n.value>>}]
          /\ input' = n.rest /\ msg' = msg
      BY <1>2, <1>8, Zenon
    <3>3. decoded' = [decoded EXCEPT !.deleted_files_ = @ \cup {d}]
      BY <3>1, <3>2
    <3> QED BY <1>1, <1>3, <1>7, <3>2, <3>3
  <2>5. edit' = edit /\ cut' = cut /\ f' = f
    BY <1>1
  <2> QED BY <2>3, <2>4, <2>5, Zenon DEF IInv
<1>9. CASE ~ (level.ok /\ n.ok)
  <2>1. ~ all
    BY <1>9 DEF Both
  <2>2. cut # 0 /\ msg' = "corruption"
    BY <1>2, <1>6, <1>9, <2>1, Zenon DEF Moved
  <2>3. edit' = edit /\ cut' = cut
    BY <1>1
  <2> QED BY <2>2, <2>3, StopsShort, Zenon DEF IInv
<1> QED BY <1>8, <1>9

LEMMA NewFileStep ==
  ASSUME edit \in Edits, cut \in Nat, NEW i \in 1 .. News(edit), NEW p, p = i + 2 + Deleted(edit),
         Behind(edit, cut, input, decoded, f, p),
         p < Len(Fields(edit)), input # <<>>,
         Fields(edit)[p + 1] = PutNewFile(edit.new_files_[i]), newFile
  PROVE  IInv'
<1> DEFINE r == GetVarint32(input)
           level == GetLevel(r.rest)
           n == GetVarint64(level.rest)
           size == GetVarint64(n.rest)
           smallest == GetMemEntry(size.rest)
           largest == GetMemEntry(smallest.rest)
           t == Unread(edit, p + 1)
           e == edit.new_files_[i]
           all == Both(Both(Both(Both(Both(r.ok, level.ok), n.ok), size.ok), smallest.ok), largest.ok)
           ok == level.ok /\ n.ok /\ size.ok /\ smallest.ok /\ largest.ok
<1>1. msg = "" /\ r.ok /\ UNCHANGED <<edit, cut>>
  BY ZenonT(60) DEF newFile, Reading, tag
<1>2. /\ f' = readInto(level, n, size, smallest, largest)
      /\ IF ok
         THEN /\ decoded' = [decoded EXCEPT !.new_files_ = Append(@, level.value)]
              /\ input' = largest.rest /\ msg' = msg
         ELSE msg' = "corruption" /\ decoded' = decoded /\ input' = input
  BY ZenonT(60) DEF newFile, tag
<1>3. e \in NewFile
  BY EditIs, ElementOfSeq DEF News
<1>4. /\ [DecodedAfter(edit, p) EXCEPT !.new_files_ = Append(@, e.level)] = DecodedAfter(edit, p + 1)
      /\ FileAfter(edit, p + 1) = e.file
  BY AfterNew
<1> HIDE DEF e
<1>5. Cut(input, PutNewFile(e) \o t) /\ t \in Seq(Nat)
  BY BehindField DEF e
<1>6. /\ Got(all, largest.rest, Len(PutNewFile(e)), input, t)
      /\ all => /\ level.value = e.level /\ n.value = e.file.number
                /\ size.value = e.file.file_size
                /\ smallest.value = e.file.smallest /\ largest.value = e.file.largest
  <2> HIDE DEF t
  <2> QED BY <1>3, <1>5, NewFileRead, Zenon
<1>8. decoded = DecodedAfter(edit, p)
  BY DEF Behind
<1>11. t = Unread(edit, p + 1) /\ Fields(edit)[p + 1] = PutNewFile(e)
  BY DEF e
<1> HIDE DEF r, level, n, size, smallest, largest, t
<1>7. Moved(edit, cut, p, all, largest.rest)
  <2> HIDE DEF all
  <2> QED BY <1>6, <1>11, GotField, Zenon
<1>9. CASE ok
  <2>1. all
    BY <1>1, <1>9 DEF Both
  <2>2. f' = e.file
    <3>1. f' = [number |-> e.file.number, file_size |-> e.file.file_size,
                smallest |-> e.file.smallest, largest |-> e.file.largest]
      BY <1>2, <1>6, <1>9, <2>1 DEF readInto
    <3>2. e.file \in FileMetaData
      BY <1>3 DEF NewFile
    <3> QED BY <3>1, <3>2 DEF FileMetaData
  <2>3. Behind(edit, cut, largest.rest, DecodedAfter(edit, p + 1), e.file, p + 1)
    BY <1>4, <1>7, <2>1 DEF Behind, Moved
  <2>4. Good(edit, cut, largest.rest, DecodedAfter(edit, p + 1), e.file, "")
    BY <2>3, GoesOn, Zenon
  <2>5. decoded' = DecodedAfter(edit, p + 1) /\ input' = largest.rest /\ msg' = ""
    <3>1. level.value = e.level
      BY <1>6, <2>1
    <3>2. decoded' = [decoded EXCEPT !.new_files_ = Append(@, level.value)]
          /\ input' = largest.rest /\ msg' = msg
      BY <1>2, <1>9, Zenon
    <3>3. decoded' = [decoded EXCEPT !.new_files_ = Append(@, e.level)]
      BY <3>1, <3>2
    <3> QED BY <1>1, <1>4, <1>8, <3>2, <3>3
  <2>6. edit' = edit /\ cut' = cut
    BY <1>1
  <2> QED BY <2>2, <2>4, <2>5, <2>6, Zenon DEF IInv
<1>10. CASE ~ ok
  <2>1. ~ all
    BY <1>10 DEF Both
  <2>2. cut # 0 /\ msg' = "corruption"
    BY <1>2, <1>7, <1>10, <2>1, Zenon DEF Moved
  <2>3. edit' = edit /\ cut' = cut
    BY <1>1
  <2> QED BY <2>2, <2>3, StopsShort, Zenon DEF IInv
<1> QED BY <1>9, <1>10
-----------------------------------------------------------------------------
(* The tag decides what the loop does.                                     *)
LEMMA TagDecides ==
  ASSUME Next, NEW k \in Tags, GetVarint32(input).ok, GetVarint32(input).value = k
  PROVE  /\ k = kPrevLogNumber => number(kPrevLogNumber, "prev_log_number_")
         /\ k = kNextFileNumber => number(kNextFileNumber, "next_file_number_")
         /\ k = kLastSequence => number(kLastSequence, "last_sequence_")
         /\ k = kDeletedFile => deletedFile
         /\ k = kNewFile => newFile
<1>1. ~ endOfLoop
  BY DEF endOfLoop, tag, Tags
<1>2. /\ kPrevLogNumber \notin {kNextFileNumber, kLastSequence, kDeletedFile, kNewFile}
      /\ kNextFileNumber \notin {kLastSequence, kDeletedFile, kNewFile}
      /\ kLastSequence \notin {kDeletedFile, kNewFile} /\ kDeletedFile # kNewFile
  BY DEF kPrevLogNumber, kNextFileNumber, kLastSequence, kDeletedFile, kNewFile
<1>3. /\ \A j, field : number(j, field) => k = j
      /\ deletedFile => k = kDeletedFile
      /\ newFile => k = kNewFile
  BY DEF number, deletedFile, newFile, Reading, tag
<1> QED BY <1>1, <1>2, <1>3 DEF Next

LEMMA NextGood ==
  ASSUME IInv, Next
  PROVE  IInv'
<1>1. msg = ""
  BY DEF Next, number, deletedFile, newFile, endOfLoop, Reading
<1>2. edit \in Edits /\ cut \in Nat
  BY DEF IInv, Good
<1>3. PICK p \in Nat : Behind(edit, cut, input, decoded, f, p) /\ Settled(edit, p)
  <2>1. msg # "corruption"
    BY <1>1
  <2> QED BY <2>1 DEF IInv, Good
<1>4. CASE input = <<>>
  <2>1. ~ tag.ok
    BY <1>4, NoTag DEF tag
  <2>2. endOfLoop
    BY <2>1 DEF Next, number, deletedFile, newFile, Reading
  <2>3. msg' = "done" /\ edit' = edit /\ cut' = cut /\ input' = input /\ decoded' = decoded /\ f' = f
    BY <1>4, <2>2 DEF endOfLoop
  <2>4. Good(edit, cut, input, decoded, f, "done")
    BY <1>2, <1>3, <1>4 DEF Good
  <2> QED BY <2>3, <2>4, Zenon DEF IInv
<1>5. CASE input # <<>>
  <2>1. p < Len(Fields(edit)) /\ Fields(edit)[p + 1] # <<>>
    <3>1. p < Len(Fields(edit)) /\ p # Len(Fields(edit))
      BY <1>2, <1>3, <1>5, BehindField, FieldsAre, LenProperties
    <3> QED BY <1>3, <3>1 DEF Settled
  <2>2. Cut(input, Fields(edit)[p + 1] \o Unread(edit, p + 1)) /\ Unread(edit, p + 1) \in Seq(Nat)
    BY <1>2, <1>3, <2>1, BehindField
  <2>3. kPrevLogNumber \in Tags /\ kNextFileNumber \in Tags /\ kLastSequence \in Tags
        /\ kDeletedFile \in Tags /\ kNewFile \in Tags
    BY DEF Tags
  <2>4. ASSUME NEW k \in Tags, NEW v \in Number \cup {Unset}, NEW field,
               Fields(edit)[p + 1] = PutNumber(k, v), SetsNumber(edit, p, field, v),
               GetVarint32(input).ok /\ GetVarint32(input).value = k => number(k, field)
        PROVE  IInv'
    <3>1. v \in Number
      BY <2>1, <2>4 DEF PutNumber
    <3>2. NumberGot(k, v, Unread(edit, p + 1), input)
      BY <1>5, <2>2, <2>4, <3>1, NumberRead, Zenon
    <3>3. number(k, field)
      BY <2>4, <3>2, Zenon DEF NumberGot
    <3> QED BY <1>2, <1>3, <1>5, <2>1, <2>4, <3>1, <3>3, NumberStep, Zenon
  <2>5. ASSUME p \in 0 .. 2, Fields(edit)[p + 1] = Scalar(edit, p)
        PROVE  IInv'
    <3>1. /\ edit.prev_log_number_ \in Number \cup {Unset} /\ edit.next_file_number_ \in Number \cup {Unset}
          /\ edit.last_sequence_ \in Number \cup {Unset}
      BY <1>2, EditIs
    <3>2. /\ Scalar(edit, 0) = PutNumber(kPrevLogNumber, edit.prev_log_number_)
          /\ Scalar(edit, 1) = PutNumber(kNextFileNumber, edit.next_file_number_)
          /\ Scalar(edit, 2) = PutNumber(kLastSequence, edit.last_sequence_)
      BY DEF Scalar
    <3>3. /\ SetsNumber(edit, 0, "prev_log_number_", edit.prev_log_number_)
          /\ SetsNumber(edit, 1, "next_file_number_", edit.next_file_number_)
          /\ SetsNumber(edit, 2, "last_sequence_", edit.last_sequence_)
      <4>1. 0 \in 0 .. 3 /\ 1 \in 0 .. 3 /\ 2 \in 0 .. 3 /\ 3 \in 0 .. 3 /\ 0 + 1 = 1 /\ 1 + 1 = 2 /\ 2 + 1 = 3
        OBVIOUS
      <4> QED BY <1>2, <4>1, AfterNumber DEF SetsNumber
    <3>4. /\ \A k \in Tags : GetVarint32(input).ok /\ GetVarint32(input).value = k =>
               /\ k = kPrevLogNumber => number(kPrevLogNumber, "prev_log_number_")
               /\ k = kNextFileNumber => number(kNextFileNumber, "next_file_number_")
               /\ k = kLastSequence => number(kLastSequence, "last_sequence_")
      BY TagDecides
    <3>5. p = 0 \/ p = 1 \/ p = 2
      BY <2>5
    <3>6. CASE p = 0
      <4>1. GetVarint32(input).ok /\ GetVarint32(input).value = kPrevLogNumber
              => number(kPrevLogNumber, "prev_log_number_")
        BY <2>3, <3>4, Zenon
      <4>2. Fields(edit)[p + 1] = PutNumber(kPrevLogNumber, edit.prev_log_number_)
        BY <2>5, <3>2, <3>6
      <4>3. SetsNumber(edit, p, "prev_log_number_", edit.prev_log_number_)
        BY <3>3, <3>6
      <4> QED BY <2>3, <2>4, <3>1, <4>1, <4>2, <4>3, Zenon
    <3>7. CASE p = 1
      <4>1. GetVarint32(input).ok /\ GetVarint32(input).value = kNextFileNumber
              => number(kNextFileNumber, "next_file_number_")
        BY <2>3, <3>4, Zenon
      <4>2. Fields(edit)[p + 1] = PutNumber(kNextFileNumber, edit.next_file_number_)
        BY <2>5, <3>2, <3>7
      <4>3. SetsNumber(edit, p, "next_file_number_", edit.next_file_number_)
        BY <3>3, <3>7
      <4> QED BY <2>3, <2>4, <3>1, <4>1, <4>2, <4>3, Zenon
    <3>8. CASE p = 2
      <4>1. GetVarint32(input).ok /\ GetVarint32(input).value = kLastSequence
              => number(kLastSequence, "last_sequence_")
        BY <2>3, <3>4, Zenon
      <4>2. Fields(edit)[p + 1] = PutNumber(kLastSequence, edit.last_sequence_)
        BY <2>5, <3>2, <3>8
      <4>3. SetsNumber(edit, p, "last_sequence_", edit.last_sequence_)
        BY <3>3, <3>8
      <4> QED BY <2>3, <2>4, <3>1, <4>1, <4>2, <4>3, Zenon
    <3> QED BY <3>5, <3>6, <3>7, <3>8
  <2>6. ASSUME NEW i \in 1 .. Deleted(edit), p = i + 2,
               Fields(edit)[p + 1] = PutDeletedFile(Sorted(edit.deleted_files_)[i])
        PROVE  IInv'
    <3> DEFINE d == Sorted(edit.deleted_files_)[i]
    <3>1. d[1] \in 0 .. kMaxLevel - 1 /\ d[2] \in Number
      BY <1>2, EditIs
    <3>2. Cut(input, PutDeletedFile(d) \o Unread(edit, p + 1))
      BY <2>2, <2>6
    <3>3. GetVarint32(input).ok /\ GetVarint32(input).value = kDeletedFile
      <4> HIDE DEF d
      <4> QED BY <1>5, <2>2, <3>1, <3>2, DeletedRead, Zenon
    <3>4. deletedFile
      BY <2>3, <3>3, TagDecides
    <3>5. /\ Behind(edit, cut, input, decoded, f, i + 2) /\ i + 2 < Len(Fields(edit))
          /\ Fields(edit)[i + 2 + 1] = PutDeletedFile(Sorted(edit.deleted_files_)[i])
      BY <1>3, <2>1, <2>6
    <3> QED BY <1>2, <1>5, <3>4, <3>5, DeletedStep, Zenon
  <2>7. ASSUME NEW i \in 1 .. News(edit), p = i + 2 + Deleted(edit),
               Fields(edit)[p + 1] = PutNewFile(edit.new_files_[i])
        PROVE  IInv'
    <3> DEFINE v == edit.new_files_[i]
    <3>1. v \in NewFile
      BY <1>2, EditIs, ElementOfSeq DEF News
    <3>2. Cut(input, PutNewFile(v) \o Unread(edit, p + 1))
      BY <2>2, <2>7
    <3>3. GetVarint32(input).ok /\ GetVarint32(input).value = kNewFile
      <4> HIDE DEF v
      <4> QED BY <1>5, <2>2, <3>1, <3>2, NewFileRead, Zenon
    <3>4. newFile
      BY <2>3, <3>3, TagDecides
    <3> QED BY <1>2, <1>3, <1>5, <2>1, <2>7, <3>4, NewFileStep, Zenon
  <2> QED BY <1>2, <2>1, <2>5, <2>6, <2>7, FieldKind, Zenon
<1> QED BY <1>4, <1>5

(* What DecodeFrom has read is, until it reports corruption, what the      *)
(* fields it stands behind hold, for every edit and every cut.             *)
THEOREM EditInductive == Spec => []IInv
<1>1. ASSUME IInv, [Next]_vars PROVE IInv'
  <2>1. CASE Next
    BY <1>1, <2>1, NextGood
  <2>2. CASE UNCHANGED vars
    BY <1>1, <2>2, Zenon DEF IInv, vars
  <2> QED BY <1>1, <2>1, <2>2
<1> QED BY <1>1, InitGood, PTL DEF Spec

(* Without bytes left to read, all fields have been read if none is cut.   *)
LEMMA AllRead ==
  ASSUME NEW e \in Edits, NEW d, NEW g, NEW p, Behind(e, 0, <<>>, d, g, p), Settled(e, p)
  PROVE  p = Len(Fields(e))
<1> DEFINE n == Len(Fields(e))
           x == Fields(e)[p + 1]
           u == Unread(e, p)
           v == Unread(e, p + 1)
           l == Len(u)
<1>1. n \in Nat /\ p \in 0 .. n /\ Len(<<>>) = l - 0
  BY FieldsAre, EditIs DEF Behind
<1>2. u \in Seq(Nat) /\ (p < n => x \in Seq(Nat) /\ u = x \o v /\ v \in Seq(Nat))
  BY <1>1, UnreadIs
<1>3. p = n \/ x # <<>>
  BY DEF Settled
<1> HIDE DEF n, x, u, v
<1>4. u = <<>>
  <2>1. l \in Nat /\ Len(<<>>) = 0
    BY <1>2
  <2> HIDE DEF l
  <2>2. l = 0
    BY <1>1, <2>1
  <2> QED BY <1>2, <2>2, EmptySeq DEF l
<1>5. ~ (p < n /\ x # <<>>)
  BY <1>2, <1>4, NotEmpty
<1>6. p = n \/ p < n
  BY <1>1
<1> QED BY <1>3, <1>5, <1>6 DEF n

LEMMA AllDecoded ==
  ASSUME NEW e \in Edits, NEW p, p = Len(Fields(e))
  PROVE  /\ DecodedAfter(e, p) = [e EXCEPT !.new_files_ = Levels(e), !.log_number_ = Unset]
         /\ e.new_files_ # <<>> => FileAfter(e, p) = e.new_files_[Len(e.new_files_)].file
<1> DEFINE n == Deleted(e)
           m == News(e)
           s == Sorted(e.deleted_files_)
           D == {s[i] : i \in {j \in 1 .. n : j <= p - 3}}
           x == [i \in 1 .. p - 3 - n |-> e.new_files_[i].level]
<1>1. n \in Nat /\ m \in Nat /\ p = 3 + n + m
  BY EditIs, FieldsAre
<1>2. /\ \A i \in 1 .. n : s[i] \in e.deleted_files_
      /\ \A d \in e.deleted_files_ : \E i \in 1 .. n : s[i] = d
  BY EditIs
<1>3. DOMAIN e.new_files_ = 1 .. m /\ e.new_files_ \in Seq(NewFile) /\ m = Len(e.new_files_)
  BY EditIs DEF News
<1>4. e \in Edit
  BY VersionEditAssumption
<1> HIDE DEF n, m, s
<1>5. D = e.deleted_files_
  <2>1. \A j \in 1 .. n : j <= p - 3
    BY <1>1
  <2> QED BY <1>2, <2>1
<1>6. p - 3 - n = m /\ p >= 1 /\ p >= 2 /\ p >= 3 /\ (m # 0 => m > 0)
  BY <1>1
<1>7. x = Levels(e)
  BY <1>3, <1>6 DEF Levels
<1>8. DecodedAfter(e, p) =
        [log_number_ |-> Unset,
         prev_log_number_ |-> e.prev_log_number_, next_file_number_ |-> e.next_file_number_,
         last_sequence_ |-> e.last_sequence_, deleted_files_ |-> D, new_files_ |-> x]
  <2> HIDE DEF D, x
  <2> QED BY <1>6 DEF DecodedAfter, D, x, n, s
<1>9. e = [log_number_ |-> e.log_number_,
           prev_log_number_ |-> e.prev_log_number_, next_file_number_ |-> e.next_file_number_,
           last_sequence_ |-> e.last_sequence_, deleted_files_ |-> e.deleted_files_,
           new_files_ |-> e.new_files_]
  BY <1>4 DEF Edit
<1> HIDE DEF D, x
<1>10. [e EXCEPT !.new_files_ = Levels(e), !.log_number_ = Unset] =
         [log_number_ |-> Unset,
          prev_log_number_ |-> e.prev_log_number_, next_file_number_ |-> e.next_file_number_,
          last_sequence_ |-> e.last_sequence_, deleted_files_ |-> e.deleted_files_,
          new_files_ |-> Levels(e)]
  <2> DEFINE l == Levels(e)
             y == [e EXCEPT !.new_files_ = l, !.log_number_ = Unset]
             z == [log_number_ |-> Unset,
                   prev_log_number_ |-> e.prev_log_number_, next_file_number_ |-> e.next_file_number_,
                   last_sequence_ |-> e.last_sequence_, deleted_files_ |-> e.deleted_files_,
                   new_files_ |-> l]
  <2> HIDE DEF l
  <2>1. DOMAIN y = DOMAIN e /\ DOMAIN e = DOMAIN z
    BY <1>9
  <2>2. /\ y.log_number_ = z.log_number_
        /\ y.prev_log_number_ = z.prev_log_number_ /\ y.next_file_number_ = z.next_file_number_
        /\ y.last_sequence_ = z.last_sequence_ /\ y.deleted_files_ = z.deleted_files_
        /\ y.new_files_ = z.new_files_
    BY <1>9
  <2>3. /\ y = [i \in DOMAIN e |-> y[i]]
        /\ DOMAIN z = {"log_number_", "prev_log_number_", "next_file_number_", "last_sequence_",
                       "deleted_files_", "new_files_"}
    OBVIOUS
  <2>4. y = z
    BY <2>1, <2>2, <2>3
  <2> QED BY <2>4 DEF l
<1>11. e.new_files_ # <<>> => FileAfter(e, p) = e.new_files_[m].file
  <2>1. e.new_files_ # <<>> => m # 0
    BY <1>3, EmptySeq
  <2> QED BY <1>6, <2>1 DEF FileAfter, n
<1> QED BY <1>3, <1>5, <1>7, <1>8, <1>10, <1>11

LEMMA WholeEdit == IInv => WholeEditIsReadBack
<1> SUFFICES ASSUME IInv, cut = 0, msg # ""
             PROVE  /\ msg = "done" /\ decoded = [edit EXCEPT !.new_files_ = Levels(edit), !.log_number_ = Unset]
                    /\ edit.new_files_ # <<>> => f = edit.new_files_[Len(edit.new_files_)].file
  BY DEF WholeEditIsReadBack
<1>1. edit \in Edits /\ msg = "done" /\ input = <<>>
  BY DEF IInv, Good
<1>2. PICK p \in Nat : Behind(edit, cut, input, decoded, f, p) /\ Settled(edit, p)
  BY <1>1 DEF IInv, Good
<1>3. p = Len(Fields(edit))
  BY <1>1, <1>2, AllRead
<1>4. decoded = DecodedAfter(edit, p) /\ f = FileAfter(edit, p)
  BY <1>2 DEF Behind
<1> QED BY <1>1, <1>3, <1>4, AllDecoded

(* Of every whole edit its three single numbers come back, the files it    *)
(* deletes, the levels it adds to and the last of the files it adds; its   *)
(* log numbers and its other new files do not.                             *)
THEOREM WholeEditCorrect == Spec => []WholeEditIsReadBack
BY WholeEdit, EditInductive, PTL

(* What the first fields hold is a first part of the edit.                 *)
LEMMA FirstPart ==
  ASSUME NEW e \in Edits, NEW p, p \in 0 .. Len(Fields(e)), NEW d, d = DecodedAfter(e, p)
  PROVE  /\ d.prev_log_number_ \in {Unset, e.prev_log_number_}
         /\ d.next_file_number_ \in {Unset, e.next_file_number_}
         /\ d.last_sequence_ \in {Unset, e.last_sequence_}
         /\ d.deleted_files_ \subseteq e.deleted_files_
         /\ IsPrefix(d.new_files_, Levels(e))
         /\ d.new_files_ # <<>> => FileAfter(e, p) = e.new_files_[Len(d.new_files_)].file
<1> DEFINE n == Deleted(e)
           m == News(e)
           k == p - 3 - n
           h == IF k > 0 THEN k ELSE 0
           x == d.new_files_
           y == Levels(e)
<1>1. n \in Nat /\ m \in Nat /\ p \in 0 .. 3 + n + m
  <2>1. Len(Fields(e)) = 3 + n + m
    BY FieldsAre
  <2> QED BY <2>1, EditIs
<1>2. /\ d.prev_log_number_ \in {Unset, e.prev_log_number_}
      /\ d.next_file_number_ \in {Unset, e.next_file_number_}
      /\ d.last_sequence_ \in {Unset, e.last_sequence_}
      /\ d.deleted_files_ \subseteq e.deleted_files_
  BY EditIs DEF DecodedAfter
<1>3. h \in Nat /\ h <= m /\ 1 .. k = 1 .. h /\ (k > 0 => h = k) /\ (~ (k > 0) => h = 0)
  <2> HIDE DEF n, m
  <2> QED BY <1>1
<1>4. x = [i \in 1 .. h |-> e.new_files_[i].level]
  <2>1. x = [i \in 1 .. k |-> e.new_files_[i].level]
    BY DEF DecodedAfter
  <2> QED BY <1>3, <2>1, Zenon
<1>5. y = [i \in 1 .. m |-> e.new_files_[i].level]
  BY EditIs DEF Levels
<1> HIDE DEF x, y, h, m
<1>6. /\ \A i \in 1 .. h : x[i] = y[i] /\ i \in 1 .. m
      /\ Len(x) = h /\ Len(y) = m
  BY <1>1, <1>3, <1>4, <1>5
<1>7. SubSeq(x, 1, h) = SubSeq(y, 1, h)
  <2>1. /\ SubSeq(x, 1, h) = [i \in 1 .. h |-> x[i]]
        /\ SubSeq(y, 1, h) = [i \in 1 .. h |-> y[i]]
    BY <1>1, <1>3, <1>4, <1>5
  <2> QED BY <1>6, <2>1
<1>8. IsPrefix(x, y)
  BY <1>3, <1>6, <1>7 DEF IsPrefix
<1>9. x # <<>> => FileAfter(e, p) = e.new_files_[h].file
  <2>1. x # <<>> => k > 0
    BY <1>3, <1>4
  <2> QED BY <1>3, <2>1 DEF FileAfter
<1> QED BY <1>2, <1>6, <1>8, <1>9 DEF x, y

(* A cut edit is reported, or what was read of it is a first part of it,   *)
(* for every edit and every place where it was cut.                        *)
THEOREM CutEditCorrect == Spec => []CutEditIsNotMisread
<1>1. ASSUME IInv PROVE CutEditIsNotMisread
  <2> SUFFICES ASSUME msg = "done"
               PROVE  /\ \A field \in {"prev_log_number_", "next_file_number_", "last_sequence_"} :
                           decoded[field] \in {Unset, edit[field]}
                      /\ decoded.deleted_files_ \subseteq edit.deleted_files_
                      /\ IsPrefix(decoded.new_files_, Levels(edit))
                      /\ decoded.new_files_ # <<>>
                           => f = edit.new_files_[Len(decoded.new_files_)].file
    BY DEF CutEditIsNotMisread
  <2>1. edit \in Edits
    BY <1>1 DEF IInv, Good
  <2>2. PICK p \in Nat : Behind(edit, cut, input, decoded, f, p)
    BY <1>1 DEF IInv, Good
  <2>3. p \in 0 .. Len(Fields(edit)) /\ decoded = DecodedAfter(edit, p) /\ f = FileAfter(edit, p)
    BY <2>2 DEF Behind
  <2> QED BY <2>1, <2>3, FirstPart
<1> QED BY <1>1, EditInductive, PTL
-----------------------------------------------------------------------------
(* FileMetaData objects, lists of k of them by level, a Builder.           *)
Object(x) == x = [file |-> x.file, refs |-> x.refs, deleted |-> x.deleted]
             /\ x.refs \in Int /\ x.deleted \in BOOLEAN
IsHeap(h) == /\ Len(h) \in Nat /\ h = [o \in 1 .. Len(h) |-> h[o]]
             /\ \A o \in 1 .. Len(h) : Object(h[o])
FileLists(k) == [Level -> Seq(1 .. k)]
VersionType(k) == [files_ : FileLists(k), ref_ : Nat]
IsBuilder(b, k) ==
  /\ b = [phase |-> b.phase, base_ |-> b.base_, deleted_files |-> b.deleted_files,
          added_files |-> b.added_files, v |-> b.v, installed |-> b.installed]
  /\ b.added_files \in FileLists(k)

(* No object is added twice.                                               *)
Once(files) ==
  \A l, m \in Level : \A i \in DOMAIN files[l], j \in DOMAIN files[m] :
    files[l][i] = files[m][j] => l = m /\ i = j

(* What a Builder's phase says of the versions vs, of which c is current.  *)
HoldsBase(b) == b.phase \in {"open", "saved", "aborted"}
Phases(vs, c, b) ==
  \/ b.phase = "none" /\ b.v = 0
  \/ b.phase \in {"open", "aborted"} /\ b.base_ = c /\ b.v = 0 /\ b.installed = FALSE
  \/ b.phase = "saved" /\ b.base_ \in 1 .. Len(vs) /\ b.v \in 1 .. Len(vs) /\ b.base_ # b.v
     /\ b.installed \in BOOLEAN /\ c = (IF b.installed THEN b.v ELSE b.base_)
  \/ b.phase = "deleted" /\ b.v \in 1 .. Len(vs) /\ b.v # c /\ b.installed = FALSE

(* Who holds a version: the set of versions, and a Builder its base; and   *)
(* which versions are held, or about to be.                                *)
RefOf(c, b, v) == (IF v = c THEN 1 ELSE 0) + (IF HoldsBase(b) /\ v = b.base_ THEN 1 ELSE 0)
Hold(c, b) == {c} \cup (IF b.phase = "saved" THEN {b.base_, b.v}
                       ELSE IF b.phase = "deleted" THEN {b.v} ELSE {})

(* Who holds an object: the versions in L, and the Builder that added it.  *)
HeldBy(vs, L, o) == UNION {{<<v, x>> : x \in Places(vs[v].files_, o)} : v \in L}
AddedBy(b, o) == IF HoldsBase(b) THEN Occurrences(b.added_files, o) ELSE 0
Holders(vs, L, b, o) == Cardinality(HeldBy(vs, L, o)) + AddedBy(b, o)
Counted(x, n) == n # 0 => ~ x.deleted /\ x.refs = n
Counts(h, vs, L, b) == \A o \in 1 .. Len(h) : Counted(h[o], Holders(vs, L, b, o))

(* The inductive invariant of the counters.  An object that the Builder    *)
(* made and did not keep is held by nobody, and its counter says nothing.  *)
Right(h, vs, c, b) ==
  /\ IsHeap(h) /\ vs \in Seq(VersionType(Len(h))) /\ c \in 1 .. Len(vs)
  /\ IsBuilder(b, Len(h)) /\ Once(b.added_files) /\ Phases(vs, c, b)
  /\ \A v \in 1 .. Len(vs) : vs[v].ref_ = RefOf(c, b, v)
  /\ Counts(h, vs, Hold(c, b), b)

BInv == /\ IInv /\ Right(heap, versions, current_, builder)
        /\ builder.phase # "none" => msg = "done"
-----------------------------------------------------------------------------
(* A recursive function over 0 .. n exists and stays in a set that its     *)
(* step F does not leave.                                                  *)
Iterated(g, b, n, F) == g = [i \in 0 .. n |-> IF i = 0 THEN b ELSE F[<<g[i - 1], i>>]]

LEMMA Iterates ==
  ASSUME NEW P, NEW b \in P, NEW n \in Nat, NEW F \in [P \X (1 .. n) -> P]
  PROVE  \E g \in [0 .. n -> P] : Iterated(g, b, n, F)
<1> DEFINE Steps(g, m) == g = [i \in 0 .. m |-> IF i = 0 THEN b ELSE F[<<g[i - 1], i>>]]
           D == {m \in 0 .. n : \E g \in [0 .. m -> P] : Steps(g, m)}
<1>1. 0 \in D
  <2> DEFINE g == [i \in 0 .. 0 |-> b]
  <2>1. g \in [0 .. 0 -> P] /\ Steps(g, 0) /\ 0 \in 0 .. n
    OBVIOUS
  <2> QED BY <2>1
<1>2. ASSUME NEW m \in 1 .. n, m - 1 \in D PROVE m \in D
  <2>1. PICK g \in [0 .. m - 1 -> P] : Steps(g, m - 1)
    BY <1>2
  <2> DEFINE h == [i \in 0 .. m |-> IF i = m THEN F[<<g[m - 1], m>>] ELSE g[i]]
  <2>2. /\ m \in 0 .. n /\ m - 1 \in 0 .. m - 1
        /\ \A i \in 0 .. m : i = m \/ i \in 0 .. m - 1
        /\ \A i \in 1 .. m : i - 1 \in 0 .. m - 1 /\ i - 1 # m /\ i - 1 \in 0 .. m /\ i # 0
        /\ \A i \in 0 .. m : i # 0 => i \in 1 .. m
    OBVIOUS
  <2>3. F[<<g[m - 1], m>>] \in P
    BY <2>1, <2>2
  <2>4. h \in [0 .. m -> P]
    BY <2>1, <2>2, <2>3
  <2>5. \A i \in 0 .. m : h[i] = IF i = 0 THEN b ELSE F[<<h[i - 1], i>>]
    <3> TAKE i \in 0 .. m
    <3>1. CASE i = m
      <4>1. h[i] = F[<<g[m - 1], m>>]
        BY <2>2, <3>1
      <4>2. h[i - 1] = g[m - 1]
        BY <2>2, <3>1
      <4>3. i # 0
        BY <2>2, <3>1
      <4> QED BY <3>1, <4>1, <4>2, <4>3, Zenon
    <3>2. CASE i # m
      <4>1. i \in 0 .. m - 1 /\ h[i] = g[i] /\ (i # 0 => h[i - 1] = g[i - 1])
        BY <2>2, <3>2
      <4>2. g[i] = IF i = 0 THEN b ELSE F[<<g[i - 1], i>>]
        BY <2>1, <4>1, Zenon
      <4> QED BY <4>1, <4>2
    <3> QED BY <3>1, <3>2
  <2>6. h = [i \in 0 .. m |-> h[i]]
    OBVIOUS
  <2> HIDE DEF h
  <2>7. Steps(h, m)
    BY <2>5, <2>6, Zenon
  <2> QED BY <2>2, <2>4, <2>7
<1>3. n \in D
  <2>1. n \in 0 .. n
    OBVIOUS
  <2> HIDE DEF D
  <2> QED BY <1>1, <1>2, <2>1, Reaches
<1> QED BY <1>3 DEF Iterated

-----------------------------------------------------------------------------
(* The places of an object, and who holds it.                              *)
LEMMA FiniteUnion ==
  ASSUME NEW S, IsFiniteSet(S), NEW g, \A x \in S : IsFiniteSet(g[x])
  PROVE  IsFiniteSet(UNION {g[x] : x \in S})
<1> DEFINE T == {g[x] : x \in S}
           r == [x \in S |-> g[x]]
<1>1. r \in Surjection(S, T)
  BY DEF Surjection
<1> HIDE DEF r
<1>2. IsFiniteSet(T)
  BY <1>1, FS_Surjection
<1>3. \A X \in T : IsFiniteSet(X)
  OBVIOUS
<1> HIDE DEF T
<1>4. IsFiniteSet(UNION T)
  BY <1>2, <1>3, FS_UNION
<1> QED BY <1>4 DEF T

LEMMA PlaceIs ==
  ASSUME NEW files, NEW o, NEW x
  PROVE  x \in Places(files, o) <=>
           \E l \in Level : \E i \in DOMAIN files[l] : x = <<l, i>> /\ files[l][i] = o
BY DEF Places

LEMMA PlacesFinite ==
  ASSUME NEW k, NEW files \in FileLists(k), NEW o
  PROVE  IsFiniteSet(Places(files, o)) /\ Occurrences(files, o) \in Nat
<1> DEFINE In(l) == {i \in DOMAIN files[l] : files[l][i] = o}
           g == [l \in Level |-> {<<l, i>> : i \in In(l)}]
<1>1. IsFiniteSet(Level)
  <2>1. 0 \in Int /\ kMaxLevel - 1 \in Int
    BY VersionEditAssumption DEF Number
  <2> QED BY <2>1, FS_Interval DEF Level
<1>2. ASSUME NEW l \in Level PROVE IsFiniteSet(g[l])
  <2> DEFINE m == [i \in In(l) |-> <<l, i>>]
             T == {<<l, i>> : i \in In(l)}
  <2>1. DOMAIN files[l] = 1 .. Len(files[l]) /\ Len(files[l]) \in Nat
    BY DEF FileLists
  <2>2. IsFiniteSet(DOMAIN files[l])
    BY <2>1, FS_Interval
  <2>3. IsFiniteSet(In(l))
    BY <2>2, FS_Subset
  <2>4. m \in Surjection(In(l), T)
    BY DEF Surjection
  <2> HIDE DEF In, m
  <2>5. IsFiniteSet(T)
    BY <2>3, <2>4, FS_Surjection
  <2> QED BY <2>5
<1>3. Places(files, o) = UNION {g[l] : l \in Level}
  BY DEF Places
<1> HIDE DEF g
<1>4. IsFiniteSet(Places(files, o))
  BY <1>1, <1>2, <1>3, FiniteUnion
<1> QED BY <1>4, FS_CardinalityType DEF Occurrences

LEMMA NoPlaces ==
  ASSUME NEW k \in Nat, NEW files \in FileLists(k), NEW o, o \notin 1 .. k
  PROVE  Places(files, o) = {} /\ Occurrences(files, o) = 0
<1>1. \A l \in Level : \A i \in DOMAIN files[l] : files[l][i] \in 1 .. k
  BY DEF FileLists
<1>2. Places(files, o) = {}
  BY <1>1, PlaceIs
<1> QED BY <1>2, FS_EmptySet DEF Occurrences

(* An object that is in the lists has a place, and only then.              *)
LEMMA SomePlace ==
  ASSUME NEW k \in Nat, NEW files \in FileLists(k), NEW o
  PROVE  Occurrences(files, o) # 0 <=> \E l \in Level : \E i \in DOMAIN files[l] : files[l][i] = o
<1>1. Places(files, o) # {} <=> \E l \in Level : \E i \in DOMAIN files[l] : files[l][i] = o
  <2>1. ASSUME NEW l \in Level, NEW i \in DOMAIN files[l], files[l][i] = o
        PROVE  <<l, i>> \in Places(files, o)
    BY <2>1, PlaceIs
  <2>2. ASSUME NEW x \in Places(files, o)
        PROVE  \E l \in Level : \E i \in DOMAIN files[l] : files[l][i] = o
    BY PlaceIs
  <2> QED BY <2>1, <2>2, Zenon
<1>2. Occurrences(files, o) # 0 <=> Places(files, o) # {}
  BY PlacesFinite, FS_EmptySet DEF Occurrences
<1> QED BY <1>1, <1>2

LEMMA HeldIs ==
  ASSUME NEW vs, NEW L, NEW o, NEW x
  PROVE  x \in HeldBy(vs, L, o) <=> \E v \in L : \E y \in Places(vs[v].files_, o) : x = <<v, y>>
BY DEF HeldBy

LEMMA HeldSame ==
  ASSUME NEW vs, NEW ws, NEW L, NEW o, \A v \in L : vs[v].files_ = ws[v].files_
  PROVE  HeldBy(vs, L, o) = HeldBy(ws, L, o)
BY DEF HeldBy

Lists(vs, L, k) == IsFiniteSet(L) /\ \A v \in L : vs[v].files_ \in FileLists(k)

LEMMA HeldFinite ==
  ASSUME NEW k, NEW vs, NEW L, NEW o, Lists(vs, L, k)
  PROVE  IsFiniteSet(HeldBy(vs, L, o)) /\ Cardinality(HeldBy(vs, L, o)) \in Nat
<1> DEFINE g == [v \in L |-> {<<v, x>> : x \in Places(vs[v].files_, o)}]
<1>1. ASSUME NEW v \in L PROVE IsFiniteSet(g[v])
  <2> DEFINE P == Places(vs[v].files_, o)
             m == [x \in P |-> <<v, x>>]
             T == {<<v, x>> : x \in P}
  <2>1. IsFiniteSet(P)
    BY PlacesFinite DEF Lists
  <2>2. m \in Surjection(P, T)
    BY DEF Surjection
  <2> HIDE DEF P, m
  <2>3. IsFiniteSet(T)
    BY <2>1, <2>2, FS_Surjection
  <2> QED BY <2>3 DEF P
<1>2. HeldBy(vs, L, o) = UNION {g[v] : v \in L}
  BY DEF HeldBy
<1> HIDE DEF g
<1>3. IsFiniteSet(HeldBy(vs, L, o))
  BY <1>1, <1>2, FiniteUnion DEF Lists
<1> QED BY <1>3, FS_CardinalityType

(* One more version holds an object as often as it lists it.               *)
LEMMA HeldAdds ==
  ASSUME NEW k, NEW vs, NEW L, NEW o, NEW v, v \notin L, Lists(vs, L \cup {v}, k)
  PROVE  /\ Cardinality(HeldBy(vs, L \cup {v}, o))
              = Cardinality(HeldBy(vs, L, o)) + Occurrences(vs[v].files_, o)
         /\ Cardinality(HeldBy(vs, L, o)) \in Nat /\ Occurrences(vs[v].files_, o) \in Nat
<1> DEFINE P == Places(vs[v].files_, o)
           T == {<<v, x>> : x \in P}
           m == [x \in P |-> <<v, x>>]
           H == HeldBy(vs, L, o)
<1>1. Lists(vs, L, k)
  BY FS_Subset DEF Lists
<1>2. IsFiniteSet(P) /\ Cardinality(P) \in Nat
  BY PlacesFinite DEF Lists, Occurrences
<1>3. IsFiniteSet(H) /\ Cardinality(H) \in Nat
  BY <1>1, HeldFinite
<1>4. m \in Bijection(P, T)
  BY DEF Bijection, Injection, Surjection, IsInjective
<1>5. HeldBy(vs, L \cup {v}, o) = H \cup T
  BY DEF HeldBy
<1>6. H \cap T = {}
  BY DEF HeldBy
<1> HIDE DEF P, m, H, T
<1>7. IsFiniteSet(T) /\ Cardinality(T) = Cardinality(P)
  BY <1>2, <1>4, FS_Bijection DEF ExistsBijection
<1>8. Cardinality(H \cup T) = Cardinality(H) + Cardinality(T) - Cardinality(H \cap T)
  BY <1>3, <1>7, FS_Union
<1>9. Cardinality(H \cup T) = Cardinality(H) + Cardinality(P)
  <2>1. Cardinality(H \cap T) = 0
    BY <1>6, FS_EmptySet, Zenon
  <2> QED BY <1>2, <1>3, <1>7, <1>8, <2>1, SMT
<1> QED BY <1>2, <1>3, <1>5, <1>9 DEF Occurrences, P, H

-----------------------------------------------------------------------------
(* What counting, unreferencing and releasing do to the heap.              *)
SameHeap(h, g) ==
  /\ IsHeap(g) /\ Len(g) = Len(h)
  /\ \A o \in 1 .. Len(h) : g[o].deleted = h[o].deleted

LEMMA HeapIs ==
  ASSUME NEW h, IsHeap(h)
  PROVE  /\ Len(h) \in Nat /\ DOMAIN h = 1 .. Len(h)
         /\ \A o \in 1 .. Len(h) : h[o].refs \in Int /\ h[o].deleted \in BOOLEAN
BY DEF IsHeap, Object

LEMMA HeapMade ==
  ASSUME NEW h, NEW k \in Nat, h = [o \in 1 .. k |-> h[o]], \A o \in 1 .. k : Object(h[o])
  PROVE  IsHeap(h) /\ Len(h) = k
<1>1. Len(h) = k
  <2> DEFINE S == {h[o] : o \in 1 .. k}
  <2>1. \A o \in 1 .. k : h[o] \in S
    OBVIOUS
  <2> HIDE DEF S
  <2> QED BY <2>1, MadeSeq
<1> QED BY <1>1 DEF IsHeap

LEMMA CountedIs ==
  ASSUME NEW h, IsHeap(h), NEW files \in FileLists(Len(h))
  PROVE  /\ SameHeap(h, counted(h, files))
         /\ \A o \in 1 .. Len(h) : counted(h, files)[o].refs = h[o].refs + Occurrences(files, o)
<1> DEFINE g == counted(h, files)
           n(o) == Occurrences(files, o)
<1>1. g = [o \in 1 .. Len(h) |-> [h[o] EXCEPT !.refs = @ + Occurrences(files, o)]]
  BY HeapIs DEF counted
<1>2. ASSUME NEW o \in 1 .. Len(h)
      PROVE  /\ Object(g[o]) /\ g[o].refs = h[o].refs + n(o)
             /\ g[o].deleted = h[o].deleted
  <2>1. n(o) \in Nat
    BY PlacesFinite
  <2>2. Object(h[o])
    BY DEF IsHeap
  <2>3. g[o] = [h[o] EXCEPT !.refs = @ + n(o)]
    BY <1>1, Zenon
  <2> HIDE DEF g, n
  <2> QED BY <2>1, <2>2, <2>3 DEF Object
<1>3. g = [o \in 1 .. Len(h) |-> g[o]]
  BY <1>1
<1> HIDE DEF g
<1>4. IsHeap(g) /\ Len(g) = Len(h)
  BY <1>2, <1>3, HeapIs, HeapMade
<1> QED BY <1>2, <1>4 DEF SameHeap, g

(* The heap without the references of a version's files.                   *)
Dropped(h, files) == [o \in DOMAIN h |-> [h[o] EXCEPT !.refs = @ - Occurrences(files, o)]]

LEMMA DroppedIs ==
  ASSUME NEW h, IsHeap(h), NEW files \in FileLists(Len(h))
  PROVE  /\ SameHeap(h, Dropped(h, files))
         /\ \A o \in 1 .. Len(h) : Dropped(h, files)[o].refs = h[o].refs - Occurrences(files, o)
<1> DEFINE g == Dropped(h, files)
           n(o) == Occurrences(files, o)
<1>1. g = [o \in 1 .. Len(h) |-> [h[o] EXCEPT !.refs = @ - Occurrences(files, o)]]
  BY HeapIs DEF Dropped
<1>2. ASSUME NEW o \in 1 .. Len(h)
      PROVE  /\ Object(g[o]) /\ g[o].refs = h[o].refs - n(o)
             /\ g[o].deleted = h[o].deleted
  <2>1. n(o) \in Nat
    BY PlacesFinite
  <2>2. Object(h[o])
    BY DEF IsHeap
  <2>3. g[o] = [h[o] EXCEPT !.refs = @ - n(o)]
    BY <1>1, Zenon
  <2> HIDE DEF g, n
  <2> QED BY <2>1, <2>2, <2>3 DEF Object
<1>3. g = [o \in 1 .. Len(h) |-> g[o]]
  BY <1>1
<1> HIDE DEF g
<1>4. IsHeap(g) /\ Len(g) = Len(h)
  BY <1>2, <1>3, HeapIs, HeapMade
<1> QED BY <1>2, <1>4 DEF SameHeap, g

(* The heap that a Builder's end leaves, of what it added.                 *)
Released(h, files) ==
  [o \in DOMAIN h |->
     LET n == Occurrences(files, o)
     IN [h[o] EXCEPT !.refs = @ - n, !.deleted = @ \/ (n > 0 /\ h[o].refs - n <= 0)]]

LEMMA ReleasedIs ==
  ASSUME NEW h, IsHeap(h), NEW files \in FileLists(Len(h))
  PROVE  /\ IsHeap(Released(h, files)) /\ Len(Released(h, files)) = Len(h)
         /\ \A o \in 1 .. Len(h) :
              /\ Released(h, files)[o].refs = h[o].refs - Occurrences(files, o)
              /\ Released(h, files)[o].deleted =
                   (h[o].deleted \/ (Occurrences(files, o) > 0
                                     /\ h[o].refs - Occurrences(files, o) <= 0))
<1> DEFINE g == Released(h, files)
           n(o) == Occurrences(files, o)
           d(o) == h[o].deleted \/ (n(o) > 0 /\ h[o].refs - n(o) <= 0)
<1>1. g = [o \in 1 .. Len(h) |-> [h[o] EXCEPT !.refs = @ - n(o),
             !.deleted = @ \/ (n(o) > 0 /\ h[o].refs - n(o) <= 0)]]
  BY HeapIs DEF Released
<1>2. ASSUME NEW o \in 1 .. Len(h)
      PROVE  Object(g[o]) /\ g[o].refs = h[o].refs - n(o) /\ g[o].deleted = d(o)
  <2>1. n(o) \in Nat
    BY PlacesFinite
  <2>2. Object(h[o])
    BY DEF IsHeap
  <2>3. h[o] = [file |-> h[o].file, refs |-> h[o].refs, deleted |-> h[o].deleted]
    BY <2>2 DEF Object
  <2>4. g[o] = [h[o] EXCEPT !.refs = @ - n(o),
                  !.deleted = @ \/ (n(o) > 0 /\ h[o].refs - n(o) <= 0)]
    BY <1>1, Zenon
  <2>5. d(o) \in BOOLEAN /\ h[o].refs - n(o) \in Int
    BY <2>1, <2>2 DEF Object
  <2>6. g[o] = [file |-> h[o].file, refs |-> h[o].refs - n(o), deleted |-> d(o)]
    <3> HIDE DEF g, n
    <3> QED BY <2>3, <2>4
  <2> HIDE DEF g, n, d
  <2> QED BY <2>5, <2>6 DEF Object
<1>3. g = [o \in 1 .. Len(h) |-> g[o]]
  BY <1>1
<1> HIDE DEF g
<1>4. IsHeap(g) /\ Len(g) = Len(h)
  BY <1>2, <1>3, HeapIs, HeapMade
<1> QED BY <1>2, <1>4 DEF g

-----------------------------------------------------------------------------
(* How the counters follow the versions and the Builder.                   *)
LEMMA AddedIs ==
  ASSUME NEW k, NEW b, IsBuilder(b, k), NEW o
  PROVE  AddedBy(b, o) \in Nat
BY PlacesFinite DEF IsBuilder, AddedBy

LEMMA SameCounts ==
  ASSUME NEW h, NEW vs, NEW ws, NEW L, NEW b, NEW d, Counts(h, vs, L, b),
         \A v \in L : vs[v].files_ = ws[v].files_,
         \A o \in 1 .. Len(h) : AddedBy(b, o) = AddedBy(d, o)
  PROVE  Counts(h, ws, L, d)
<1>1. ASSUME NEW o \in 1 .. Len(h) PROVE Holders(ws, L, d, o) = Holders(vs, L, b, o)
  BY HeldSame DEF Holders
<1> QED BY <1>1 DEF Counts

LEMMA CountsAdd ==
  ASSUME NEW h, IsHeap(h), NEW vs, NEW L, NEW v, v \notin L, Lists(vs, L \cup {v}, Len(h)),
         NEW b, IsBuilder(b, Len(h)), Counts(h, vs, L, b),
         \A o \in 1 .. Len(h) : Occurrences(vs[v].files_, o) # 0 =>
           ~ h[o].deleted /\ h[o].refs = Holders(vs, L, b, o)
  PROVE  /\ SameHeap(h, counted(h, vs[v].files_))
         /\ Counts(counted(h, vs[v].files_), vs, L \cup {v}, b)
<1> DEFINE g == counted(h, vs[v].files_)
<1>1. vs[v].files_ \in FileLists(Len(h))
  BY DEF Lists
<1>2. SameHeap(h, g) /\ \A o \in 1 .. Len(h) : g[o].refs = h[o].refs + Occurrences(vs[v].files_, o)
  BY <1>1, CountedIs
<1>3. Len(g) = Len(h)
  BY <1>2 DEF SameHeap
<1>4. ASSUME NEW o \in 1 .. Len(h)
      PROVE  Counted(g[o], Holders(vs, L \cup {v}, b, o))
  <2> DEFINE m == Cardinality(HeldBy(vs, L, o))
             p == Cardinality(HeldBy(vs, L \cup {v}, o))
             n == Occurrences(vs[v].files_, o)
             a == AddedBy(b, o)
  <2>1. m \in Nat /\ n \in Nat /\ p = m + n
    BY HeldAdds
  <2>2. a \in Nat
    BY AddedIs
  <2>3. Holders(vs, L, b, o) = m + a /\ Holders(vs, L \cup {v}, b, o) = p + a
    BY DEF Holders
  <2>4. m + a # 0 => ~ h[o].deleted /\ h[o].refs = m + a
    BY <2>3 DEF Counts, Counted
  <2>5. n # 0 => ~ h[o].deleted /\ h[o].refs = m + a
    BY <2>3
  <2>6. g[o].refs = h[o].refs + n /\ g[o].deleted = h[o].deleted
    BY <1>2 DEF SameHeap
  <2> HIDE DEF m, n, p, a, g
  <2>7. p + a # 0 => ~ g[o].deleted /\ g[o].refs = p + a
    <3>1. p + a # 0 => ~ h[o].deleted /\ h[o].refs = m + a
      BY <2>1, <2>2, <2>4, <2>5
    <3> QED BY <2>1, <2>2, <2>6, <3>1
  <2> QED BY <2>3, <2>7 DEF Counted
<1> QED BY <1>2, <1>3, <1>4 DEF Counts

LEMMA CountsDrop ==
  ASSUME NEW h, IsHeap(h), NEW vs, NEW L, NEW v, v \notin L, Lists(vs, L \cup {v}, Len(h)),
         NEW b, IsBuilder(b, Len(h)), Counts(h, vs, L \cup {v}, b)
  PROVE  /\ SameHeap(h, Dropped(h, vs[v].files_))
         /\ Counts(Dropped(h, vs[v].files_), vs, L, b)
<1> DEFINE g == Dropped(h, vs[v].files_)
<1>1. vs[v].files_ \in FileLists(Len(h))
  BY DEF Lists
<1>2. SameHeap(h, g) /\ \A o \in 1 .. Len(h) : g[o].refs = h[o].refs - Occurrences(vs[v].files_, o)
  BY <1>1, DroppedIs
<1>3. Len(g) = Len(h)
  BY <1>2 DEF SameHeap
<1>4. ASSUME NEW o \in 1 .. Len(h)
      PROVE  Counted(g[o], Holders(vs, L, b, o))
  <2> DEFINE m == Cardinality(HeldBy(vs, L, o))
             p == Cardinality(HeldBy(vs, L \cup {v}, o))
             n == Occurrences(vs[v].files_, o)
             a == AddedBy(b, o)
  <2>1. m \in Nat /\ n \in Nat /\ p = m + n
    BY HeldAdds
  <2>2. a \in Nat
    BY AddedIs
  <2>3. Holders(vs, L, b, o) = m + a /\ Holders(vs, L \cup {v}, b, o) = p + a
    BY DEF Holders
  <2>4. p + a # 0 => ~ h[o].deleted /\ h[o].refs = p + a
    BY <2>3 DEF Counts, Counted
  <2>6. g[o].refs = h[o].refs - n /\ g[o].deleted = h[o].deleted
    BY <1>2 DEF SameHeap
  <2> HIDE DEF m, n, p, a, g
  <2>7. m + a # 0 => ~ g[o].deleted /\ g[o].refs = m + a
    <3>1. m + a # 0 => ~ h[o].deleted /\ h[o].refs = m + n + a
      BY <2>1, <2>2, <2>4
    <3> QED BY <2>1, <2>2, <2>6, <3>1
  <2> QED BY <2>3, <2>7 DEF Counted
<1> QED BY <1>2, <1>3, <1>4 DEF Counts

LEMMA CountsRelease ==
  ASSUME NEW h, IsHeap(h), NEW vs, NEW L, Lists(vs, L, Len(h)),
         NEW b, IsBuilder(b, Len(h)), HoldsBase(b), Counts(h, vs, L, b),
         NEW d, ~ HoldsBase(d)
  PROVE  /\ IsHeap(Released(h, b.added_files)) /\ Len(Released(h, b.added_files)) = Len(h)
         /\ Counts(Released(h, b.added_files), vs, L, d)
<1> DEFINE g == Released(h, b.added_files)
<1>1. b.added_files \in FileLists(Len(h))
  BY DEF IsBuilder
<1>2. /\ IsHeap(g) /\ Len(g) = Len(h)
      /\ \A o \in 1 .. Len(h) :
           /\ g[o].refs = h[o].refs - Occurrences(b.added_files, o)
           /\ g[o].deleted = (h[o].deleted \/ (Occurrences(b.added_files, o) > 0
                                     /\ h[o].refs - Occurrences(b.added_files, o) <= 0))
  BY <1>1, ReleasedIs
<1>3. ASSUME NEW o \in 1 .. Len(h)
      PROVE  Counted(g[o], Holders(vs, L, d, o))
  <2> DEFINE m == Cardinality(HeldBy(vs, L, o))
             a == Occurrences(b.added_files, o)
  <2>1. m \in Nat /\ a \in Nat
    BY <1>1, HeldFinite, PlacesFinite
  <2>2. Holders(vs, L, b, o) = m + a /\ Holders(vs, L, d, o) = m
    BY <2>1 DEF Holders, AddedBy
  <2>3. m + a # 0 => ~ h[o].deleted /\ h[o].refs = m + a
    BY <2>2 DEF Counts, Counted
  <2>4. g[o].refs = h[o].refs - a /\ g[o].deleted = (h[o].deleted \/ (a > 0 /\ h[o].refs - a <= 0))
    BY <1>2
  <2> HIDE DEF m, a, g
  <2>5. m # 0 => ~ g[o].deleted /\ g[o].refs = m
    <3>1. m # 0 => ~ h[o].deleted /\ h[o].refs = m + a
      BY <2>1, <2>3
    <3>2. m # 0 => ~ (h[o].refs - a <= 0) /\ h[o].refs - a = m
      BY <2>1, <3>1
    <3> QED BY <2>4, <3>1, <3>2
  <2> QED BY <2>2, <2>5 DEF Counted
<1> QED BY <1>2, <1>3 DEF Counts

-----------------------------------------------------------------------------
(* What the operations do to the list of versions.                         *)
LEMMA VersionsOf ==
  ASSUME NEW k, NEW vs \in Seq(VersionType(k))
  PROVE  /\ Len(vs) \in Nat /\ DOMAIN vs = 1 .. Len(vs)
         /\ \A v \in 1 .. Len(vs) :
              /\ vs[v] = [files_ |-> vs[v].files_, ref_ |-> vs[v].ref_]
              /\ vs[v].files_ \in FileLists(k) /\ vs[v].ref_ \in Nat
         /\ \A L : L \subseteq 1 .. Len(vs) => Lists(vs, L, k)
<1>1. Len(vs) \in Nat /\ DOMAIN vs = 1 .. Len(vs)
  OBVIOUS
<1>2. ASSUME NEW v \in 1 .. Len(vs)
      PROVE  /\ vs[v] = [files_ |-> vs[v].files_, ref_ |-> vs[v].ref_]
             /\ vs[v].files_ \in FileLists(k) /\ vs[v].ref_ \in Nat
  <2>1. vs[v] \in VersionType(k)
    OBVIOUS
  <2> QED BY <2>1 DEF VersionType
<1>3. IsFiniteSet(1 .. Len(vs))
  BY <1>1, FS_Interval
<1> QED BY <1>1, <1>2, <1>3, FS_Subset DEF Lists

LEMMA ListsGrow ==
  ASSUME NEW k \in Nat, NEW m \in Nat, k <= m
  PROVE  /\ FileLists(k) \subseteq FileLists(m)
         /\ Seq(VersionType(k)) \subseteq Seq(VersionType(m))
<1>1. 1 .. k \subseteq 1 .. m
  OBVIOUS
<1>2. Seq(1 .. k) \subseteq Seq(1 .. m)
  BY <1>1
<1>3. FileLists(k) \subseteq FileLists(m)
  BY <1>2 DEF FileLists
<1>4. VersionType(k) \subseteq VersionType(m)
  BY <1>3 DEF VersionType
<1> QED BY <1>3, <1>4

RefSet(vs, ws, v, n, k) ==
  /\ ws \in Seq(VersionType(k)) /\ Len(ws) = Len(vs)
  /\ \A u \in 1 .. Len(vs) : ws[u].files_ = vs[u].files_
                             /\ ws[u].ref_ = IF u = v THEN n ELSE vs[u].ref_

LEMMA RefIsSet ==
  ASSUME NEW k, NEW vs \in Seq(VersionType(k)), NEW v \in 1 .. Len(vs), NEW n \in Nat
  PROVE  RefSet(vs, [vs EXCEPT ![v].ref_ = n], v, n, k)
<1> DEFINE x == [vs[v] EXCEPT !.ref_ = n]
           ws == [vs EXCEPT ![v] = x]
<1>1. x = [files_ |-> vs[v].files_, ref_ |-> n] /\ x \in VersionType(k)
  <2>1. vs[v] = [files_ |-> vs[v].files_, ref_ |-> vs[v].ref_] /\ vs[v].files_ \in FileLists(k)
    BY VersionsOf
  <2>2. x = [files_ |-> vs[v].files_, ref_ |-> n]
    BY <2>1
  <2> QED BY <2>1, <2>2 DEF VersionType
<1> HIDE DEF x
<1>2. ws \in Seq(VersionType(k)) /\ Len(ws) = Len(vs)
  BY <1>1
<1>3. \A u \in 1 .. Len(vs) : ws[u] = IF u = v THEN x ELSE vs[u]
  OBVIOUS
<1>4. RefSet(vs, ws, v, n, k)
  <2> HIDE DEF ws
  <2> QED BY <1>1, <1>2, <1>3 DEF RefSet
<1> QED BY <1>4 DEF x

NextVersion(vs, ws, files, n, k) ==
  /\ ws \in Seq(VersionType(k)) /\ Len(ws) = Len(vs) + 1
  /\ \A u \in 1 .. Len(vs) : ws[u] = vs[u]
  /\ ws[Len(vs) + 1].files_ = files /\ ws[Len(vs) + 1].ref_ = n

LEMMA VersionAdded ==
  ASSUME NEW k, NEW vs \in Seq(VersionType(k)), NEW files \in FileLists(k), NEW n \in Nat
  PROVE  NextVersion(vs, Append(vs, [files_ |-> files, ref_ |-> n]), files, n, k)
<1> DEFINE x == [files_ |-> files, ref_ |-> n]
           ws == Append(vs, x)
<1>1. x \in VersionType(k) /\ x.files_ = files /\ x.ref_ = n
  BY DEF VersionType
<1> HIDE DEF x
<1>2. /\ ws \in Seq(VersionType(k)) /\ Len(ws) = Len(vs) + 1
      /\ \A u \in 1 .. Len(vs) : ws[u] = vs[u]
      /\ ws[Len(vs) + 1] = x
  BY <1>1
<1> HIDE DEF ws
<1>3. NextVersion(vs, ws, files, n, k)
  BY <1>1, <1>2 DEF NextVersion
<1> QED BY <1>3 DEF ws, x

(* What a Builder's record holds at its start and after its end.           *)
LEMMA NewBuilder ==
  ASSUME NEW k \in Nat, NEW c, NEW d,
         d = NoBuilder \/ d = [NoBuilder EXCEPT !.phase = "open", !.base_ = c]
  PROVE  /\ IsBuilder(d, k) /\ Once(d.added_files) /\ d.v = 0 /\ d.installed = FALSE
         /\ d = NoBuilder => d.phase = "none"
         /\ d # NoBuilder => d.phase = "open" /\ d.base_ = c
         /\ \A o : AddedBy(d, o) = 0
<1>1. d.added_files = PerLevel(<<>>) /\ d.v = 0 /\ d.installed = FALSE
  <2>1. CASE d = NoBuilder
    BY <2>1 DEF NoBuilder
  <2>2. CASE d = [NoBuilder EXCEPT !.phase = "open", !.base_ = c]
    BY <2>2 DEF NoBuilder
  <2> QED BY <2>1, <2>2
<1>2. d = [phase |-> d.phase, base_ |-> d.base_, deleted_files |-> d.deleted_files,
           added_files |-> d.added_files, v |-> d.v, installed |-> d.installed]
  BY DEF NoBuilder
<1>3. d = NoBuilder => d.phase = "none"
  BY DEF NoBuilder
<1>4. d # NoBuilder => d.phase = "open" /\ d.base_ = c
  BY DEF NoBuilder
<1>5. PerLevel(<<>>) \in FileLists(k) /\ \A l \in Level : PerLevel(<<>>)[l] = <<>>
  BY DEF PerLevel, FileLists
<1>6. \A l \in Level : DOMAIN d.added_files[l] = {}
  BY <1>1, <1>5
<1>7. Once(d.added_files)
  BY <1>6 DEF Once
<1>8. \A o : Occurrences(d.added_files, o) = 0
  BY <1>1, <1>5, <1>6, SomePlace
<1> QED BY <1>1, <1>2, <1>3, <1>4, <1>5, <1>7, <1>8 DEF IsBuilder, AddedBy

-----------------------------------------------------------------------------
(* The counters stay right: one lemma for each operation.                  *)
LEMMA RightSays ==
  ASSUME NEW h, NEW vs, NEW c, NEW b, Right(h, vs, c, b)
  PROVE  /\ Len(h) \in Nat /\ vs \in Seq(VersionType(Len(h))) /\ Len(vs) \in Nat
         /\ c \in 1 .. Len(vs) /\ Hold(c, b) \subseteq 1 .. Len(vs)
         /\ Lists(vs, Hold(c, b), Len(h))
<1>1. /\ Len(h) \in Nat /\ vs \in Seq(VersionType(Len(h))) /\ Len(vs) \in Nat
      /\ c \in 1 .. Len(vs)
  BY HeapIs, VersionsOf DEF Right
<1>2. Hold(c, b) \subseteq 1 .. Len(vs)
  BY <1>1 DEF Right, Phases, Hold
<1> QED BY <1>1, <1>2, VersionsOf

LEMMA StartRight ==
  ASSUME NEW h, NEW vs, NEW c, NEW b, Right(h, vs, c, b), b.phase = "none",
         NEW ws, RefSet(vs, ws, c, 2, Len(h)),
         NEW d, IsBuilder(d, Len(h)), Once(d.added_files), d.v = 0, d.phase = "open", d.base_ = c,
         d.installed = FALSE,
         \A o : AddedBy(d, o) = 0
  PROVE  Right(h, ws, c, d)
<1>1. /\ Len(h) \in Nat /\ vs \in Seq(VersionType(Len(h))) /\ c \in 1 .. Len(vs)
      /\ Hold(c, b) \subseteq 1 .. Len(vs)
  BY RightSays
<1>2. \A v \in 1 .. Len(vs) : vs[v].ref_ = IF v = c THEN 1 ELSE 0
  BY DEF Right, RefOf, HoldsBase
<1>3. \A v \in 1 .. Len(ws) : ws[v].ref_ = RefOf(c, d, v)
  BY <1>2 DEF RefSet, RefOf, HoldsBase
<1>4. Hold(c, b) = {c} /\ Hold(c, d) = {c}
  BY DEF Hold
<1>5. Counts(h, ws, Hold(c, d), d)
  <2>1. \A o : AddedBy(b, o) = 0
    BY DEF AddedBy, HoldsBase
  <2>2. \A v \in {c} : vs[v].files_ = ws[v].files_
    BY <1>1 DEF RefSet
  <2>3. Counts(h, vs, {c}, b)
    BY <1>4 DEF Right
  <2>4. Counts(h, ws, {c}, d)
    BY <2>1, <2>2, <2>3, SameCounts
  <2> QED BY <1>4, <2>4
<1>6. Phases(ws, c, d)
  BY DEF Phases
<1> QED BY <1>1, <1>3, <1>5, <1>6 DEF Right, RefSet

LEMMA StartMade ==
  ASSUME NEW h, NEW vs, NEW c, NEW b, Right(h, vs, c, b), b.phase = "none"
  PROVE  Right(h, [vs EXCEPT ![c].ref_ = @ + 1], c,
               [NoBuilder EXCEPT !.phase = "open", !.base_ = c])
<1> DEFINE ws == [vs EXCEPT ![c].ref_ = @ + 1]
           d == [NoBuilder EXCEPT !.phase = "open", !.base_ = c]
<1>1. Len(h) \in Nat /\ vs \in Seq(VersionType(Len(h))) /\ c \in 1 .. Len(vs)
  BY RightSays
<1>2. d.phase = "open" /\ d.base_ = c /\ d.installed = FALSE
  BY DEF NoBuilder
<1>3. IsBuilder(d, Len(h)) /\ Once(d.added_files) /\ d.v = 0 /\ \A o : AddedBy(d, o) = 0
  BY <1>1, NewBuilder
<1>4. RefSet(vs, ws, c, 2, Len(h))
  <2>1. vs[c].ref_ + 1 = 2
    BY <1>1 DEF Right, RefOf, HoldsBase
  <2>2. ws = [vs EXCEPT ![c].ref_ = 2]
    BY <2>1, Zenon
  <2>3. RefSet(vs, [vs EXCEPT ![c].ref_ = 2], c, 2, Len(h))
    BY <1>1, RefIsSet
  <2> QED BY <2>2, <2>3, Zenon
<1> HIDE DEF ws, d
<1>5. Right(h, ws, c, d)
  BY <1>2, <1>3, <1>4, StartRight
<1> QED BY <1>5 DEF ws, d

(* AppendVersion releases the old version when no Builder holds it.        *)
LEMMA AppendRight ==
  ASSUME NEW h, NEW vs, NEW c, NEW b, Right(h, vs, c, b), b.v # 0, ~ b.installed,
         NEW ws, ws = [VersionUnref(vs, c) EXCEPT ![b.v].ref_ = 1],
         NEW d, d = IF b.phase = "deleted" THEN NoBuilder ELSE [b EXCEPT !.installed = TRUE]
  PROVE  Right(FilesUnref(h, vs, c), ws, b.v, d)
<1> DEFINE k == Len(h)
           u == VersionUnref(vs, c)
           g == FilesUnref(h, vs, c)
           n == vs[c].ref_ - 1
<1>1. /\ k \in Nat /\ vs \in Seq(VersionType(k)) /\ c \in 1 .. Len(vs)
      /\ Hold(c, b) \subseteq 1 .. Len(vs) /\ Lists(vs, Hold(c, b), k)
  BY RightSays
<1>2. /\ b.v \in 1 .. Len(vs) /\ b.v # c
      /\ \/ b.phase = "saved" /\ b.base_ = c
         \/ b.phase = "deleted"
  BY DEF Right, Phases
<1>3. \A v \in 1 .. Len(vs) : vs[v].ref_ = (IF v = c THEN 1 ELSE 0)
                                  + (IF b.phase = "saved" /\ v = c THEN 1 ELSE 0)
  BY <1>2 DEF Right, RefOf, HoldsBase
<1>4. n = IF b.phase = "saved" THEN 1 ELSE 0
  <2>1. vs[c].ref_ = 1 + (IF b.phase = "saved" THEN 1 ELSE 0)
    BY <1>1, <1>3
  <2> QED BY <2>1
<1>5. RefSet(vs, u, c, n, k)
  BY <1>1, <1>4, RefIsSet DEF VersionUnref
<1>6. RefSet(u, ws, b.v, 1, k)
  BY <1>2, <1>5, RefIsSet DEF RefSet
<1>7. Hold(c, b) = {c, b.v}
  BY <1>2 DEF Hold
<1>8. Counts(h, vs, {c, b.v}, b) /\ IsHeap(h) /\ IsBuilder(b, k) /\ Once(b.added_files)
  BY <1>7 DEF Right
<1> HIDE DEF u, n
<1>9. ws \in Seq(VersionType(k)) /\ \A v \in 1 .. Len(vs) : ws[v].files_ = vs[v].files_
  BY <1>5, <1>6 DEF RefSet
<1>10. /\ Len(ws) = Len(vs)
       /\ \A v \in 1 .. Len(vs) : ws[v].ref_ = (IF v = b.v THEN 1 ELSE 0)
                                     + (IF b.phase = "saved" /\ v = c THEN 1 ELSE 0)
  BY <1>2, <1>3, <1>4, <1>5, <1>6 DEF RefSet
<1>11. CASE b.phase = "saved"
  <2>1. d = [b EXCEPT !.installed = TRUE] /\ b.base_ = c
    BY <1>2, <1>11
  <2>2. /\ d.phase = "saved" /\ d.base_ = c /\ d.v = b.v /\ d.installed = TRUE
        /\ d.added_files = b.added_files /\ IsBuilder(d, k)
    BY <1>8, <1>11, <2>1 DEF IsBuilder
  <2>3. g = h
    <3>1. vs[c].ref_ > 1
      BY <1>1, <1>3, <1>11
    <3> QED BY <3>1 DEF FilesUnref
  <2>4. Hold(b.v, d) = {c, b.v}
    BY <2>2 DEF Hold
  <2>5. Counts(h, ws, {c, b.v}, d)
    <3>1. \A o : AddedBy(b, o) = AddedBy(d, o)
      BY <1>11, <2>2 DEF AddedBy, HoldsBase
    <3>2. \A v \in {c, b.v} : vs[v].files_ = ws[v].files_
      BY <1>1, <1>2, <1>9
    <3> QED BY <1>8, <3>1, <3>2, SameCounts
  <2>6. \A v \in 1 .. Len(ws) : ws[v].ref_ = RefOf(b.v, d, v)
    BY <1>10, <1>11, <2>2 DEF RefOf, HoldsBase
  <2>7. Phases(ws, b.v, d)
    BY <1>1, <1>2, <1>10, <2>2 DEF Phases
  <2> QED BY <1>2, <1>8, <1>9, <1>10, <2>2, <2>3, <2>4, <2>5, <2>6, <2>7 DEF Right
<1>12. CASE b.phase = "deleted"
  <2>1. d = NoBuilder
    BY <1>12
  <2>2. IsBuilder(d, k) /\ Once(d.added_files) /\ d.v = 0 /\ d.phase = "none"
        /\ \A o : AddedBy(d, o) = 0
    BY <1>1, <2>1, NewBuilder
  <2>3. g = Dropped(h, vs[c].files_)
    <3>1. ~ (vs[c].ref_ > 1)
      BY <1>1, <1>3, <1>12
    <3> QED BY <3>1 DEF FilesUnref, Dropped
  <2>4. Hold(b.v, d) = {b.v}
    BY <2>2 DEF Hold
  <2>5. SameHeap(h, g) /\ Counts(g, vs, {b.v}, b)
    <3>1. {c, b.v} = {b.v} \cup {c} /\ c \notin {b.v}
      BY <1>2
    <3>2. Lists(vs, {b.v} \cup {c}, k) /\ Counts(h, vs, {b.v} \cup {c}, b)
      BY <1>1, <1>7, <1>8, <3>1
    <3> QED BY <1>8, <2>3, <3>1, <3>2, CountsDrop
  <2>6. IsHeap(g) /\ Len(g) = k
    BY <2>5 DEF SameHeap
  <2>7. Counts(g, ws, {b.v}, d)
    <3>1. \A o : AddedBy(b, o) = AddedBy(d, o)
      BY <1>12, <2>2 DEF AddedBy, HoldsBase
    <3>2. \A v \in {b.v} : vs[v].files_ = ws[v].files_
      BY <1>2, <1>9
    <3> HIDE DEF g
    <3> QED BY <2>5, <3>1, <3>2, SameCounts
  <2>8. \A v \in 1 .. Len(ws) : ws[v].ref_ = RefOf(b.v, d, v)
    BY <1>10, <1>12, <2>2 DEF RefOf, HoldsBase
  <2>9. Phases(ws, b.v, d)
    BY <2>2 DEF Phases
  <2> HIDE DEF g
  <2>10. Right(g, ws, b.v, d)
    BY <1>2, <1>9, <1>10, <2>2, <2>4, <2>6, <2>7, <2>8, <2>9 DEF Right
  <2> QED BY <2>10 DEF g
<1> QED BY <1>2, <1>11, <1>12


(* The end of a Builder.                                                   *)
LEMMA EndRight ==
  ASSUME NEW h, NEW vs, NEW c, NEW b, Right(h, vs, c, b), b.phase = "saved",
         NEW ws, ws = VersionUnref(vs, b.base_),
         NEW d, d = IF b.installed THEN NoBuilder ELSE [b EXCEPT !.phase = "deleted"]
  PROVE  Right(FilesUnref(Released(h, b.added_files), vs, b.base_), ws, c, d)
<1> DEFINE k == Len(h)
           r == Released(h, b.added_files)
           g == FilesUnref(r, vs, b.base_)
           a == b.base_
           n == vs[a].ref_ - 1
<1>1. /\ k \in Nat /\ vs \in Seq(VersionType(k)) /\ c \in 1 .. Len(vs)
      /\ Hold(c, b) \subseteq 1 .. Len(vs) /\ Lists(vs, Hold(c, b), k)
  BY RightSays
<1>2. /\ a \in 1 .. Len(vs) /\ b.v \in 1 .. Len(vs) /\ a # b.v
      /\ b.installed \in BOOLEAN /\ c = (IF b.installed THEN b.v ELSE a)
  BY DEF Right, Phases
<1>3. \A v \in 1 .. Len(vs) : vs[v].ref_ = (IF v = c THEN 1 ELSE 0) + (IF v = a THEN 1 ELSE 0)
  BY DEF Right, RefOf, HoldsBase
<1>4. n = IF b.installed THEN 0 ELSE 1
  <2>1. vs[a].ref_ = (IF a = c THEN 1 ELSE 0) + 1
    BY <1>2, <1>3
  <2>2. vs[a].ref_ = IF b.installed THEN 1 ELSE 2
    BY <1>2, <2>1
  <2> QED BY <1>2, <2>2
<1>5. RefSet(vs, ws, a, n, k)
  BY <1>1, <1>2, <1>4, RefIsSet DEF VersionUnref
<1>6. Hold(c, b) = {c, a, b.v} /\ HoldsBase(b)
  BY DEF Hold, HoldsBase
<1>7. Counts(h, vs, {c, a, b.v}, b) /\ IsHeap(h) /\ IsBuilder(b, k) /\ Once(b.added_files)
  BY <1>6 DEF Right
<1> HIDE DEF n
<1>8. /\ ws \in Seq(VersionType(k)) /\ Len(ws) = Len(vs)
      /\ \A v \in 1 .. Len(vs) : ws[v].files_ = vs[v].files_
      /\ \A v \in 1 .. Len(vs) : ws[v].ref_ = IF v = c THEN 1 ELSE 0
  BY <1>2, <1>3, <1>4, <1>5 DEF RefSet
<1>9. ~ HoldsBase(d) /\ \A o : AddedBy(d, o) = 0
  <2>1. d.phase \in {"none", "deleted"}
    BY <1>7 DEF NoBuilder, IsBuilder
  <2> QED BY <2>1 DEF HoldsBase, AddedBy
<1>10. \A v \in 1 .. Len(ws) : ws[v].ref_ = RefOf(c, d, v)
  BY <1>8, <1>9 DEF RefOf
<1>11. IsHeap(r) /\ Len(r) = k /\ Counts(r, vs, {c, a, b.v}, d)
  BY <1>1, <1>6, <1>7, <1>9, CountsRelease
<1> HIDE DEF r
<1>12. CASE b.installed
  <2>1. d = NoBuilder /\ c = b.v
    BY <1>2, <1>12
  <2>2. IsBuilder(d, k) /\ Once(d.added_files) /\ d.v = 0 /\ d.phase = "none"
    BY <1>1, <2>1, NewBuilder
  <2>3. g = Dropped(r, vs[a].files_)
    <3>1. ~ (vs[a].ref_ > 1)
      BY <1>2, <1>3, <2>1
    <3> QED BY <3>1 DEF FilesUnref, Dropped
  <2>4. Hold(c, d) = {c}
    BY <2>2 DEF Hold
  <2>5. SameHeap(r, g) /\ Counts(g, vs, {c}, d)
    <3>1. {c, a, b.v} = {c} \cup {a} /\ a \notin {c}
      BY <1>2, <2>1
    <3>2. Lists(vs, {c} \cup {a}, Len(r)) /\ Counts(r, vs, {c} \cup {a}, d)
      BY <1>1, <1>6, <1>11, <3>1
    <3>3. IsBuilder(d, Len(r))
      BY <1>11, <2>2
    <3> DEFINE L == {c}
               q == Dropped(r, vs[a].files_)
    <3>4. IsHeap(r) /\ Lists(vs, L \cup {a}, Len(r)) /\ Counts(r, vs, L \cup {a}, d) /\ a \notin L
      BY <1>11, <3>1, <3>2
    <3> HIDE DEF L, a
    <3>5. SameHeap(r, q) /\ Counts(q, vs, L, d)
      BY <3>3, <3>4, CountsDrop
    <3> QED BY <2>3, <3>5, Zenon DEF L
  <2>6. IsHeap(g) /\ Len(g) = k
    BY <1>11, <2>5 DEF SameHeap
  <2>7. Counts(g, ws, {c}, d)
    <3>1. \A v \in {c} : vs[v].files_ = ws[v].files_
      BY <1>1, <1>8
    <3> HIDE DEF g
    <3> QED BY <2>5, <3>1, SameCounts
  <2>8. Phases(ws, c, d)
    BY <2>2 DEF Phases
  <2> HIDE DEF g
  <2>9. Right(g, ws, c, d)
    BY <1>1, <1>8, <1>10, <2>2, <2>4, <2>6, <2>7, <2>8 DEF Right
  <2> QED BY <2>9 DEF g, r
<1>13. CASE ~ b.installed
  <2>1. d = [b EXCEPT !.phase = "deleted"] /\ c = a /\ b.installed = FALSE
    BY <1>2, <1>13
  <2>2. /\ d.phase = "deleted" /\ d.v = b.v /\ d.installed = FALSE
        /\ d.added_files = b.added_files /\ IsBuilder(d, k)
    BY <1>7, <2>1 DEF IsBuilder
  <2>3. g = r
    <3>1. vs[a].ref_ > 1
      BY <1>2, <1>3, <2>1
    <3> QED BY <3>1 DEF FilesUnref
  <2>4. Hold(c, d) = {c, a, b.v}
    BY <2>1, <2>2 DEF Hold
  <2>5. Counts(r, ws, {c, a, b.v}, d)
    <3>1. \A v \in {c, a, b.v} : vs[v].files_ = ws[v].files_
      BY <1>1, <1>2, <1>8
    <3> QED BY <1>11, <3>1, SameCounts
  <2>6. Phases(ws, c, d)
    BY <1>2, <1>8, <2>1, <2>2 DEF Phases
  <2>7. Once(d.added_files)
    BY <1>7, <2>2
  <2>8. Right(r, ws, c, d)
    BY <1>1, <1>8, <1>10, <1>11, <2>2, <2>4, <2>5, <2>6, <2>7 DEF Right
  <2> QED BY <2>3, <2>8 DEF r
<1> QED BY <1>2, <1>12, <1>13

(* An object that a held version lists, or the Builder added, is counted.  *)
LEMMA ListedCounts ==
  ASSUME NEW h, NEW vs, NEW L, NEW c \in L, Lists(vs, L, Len(h)),
         NEW b, IsHeap(h), IsBuilder(b, Len(h)), Counts(h, vs, L, b), NEW o \in 1 .. Len(h),
         Occurrences(vs[c].files_, o) # 0 \/ AddedBy(b, o) # 0
  PROVE  ~ h[o].deleted /\ h[o].refs = Holders(vs, L, b, o)
<1> DEFINE K == L \ {c}
           e == Cardinality(HeldBy(vs, K, o))
           m == Cardinality(HeldBy(vs, L, o))
           n == Occurrences(vs[c].files_, o)
           a == AddedBy(b, o)
<1>1. c \notin K /\ K \cup {c} = L
  OBVIOUS
<1> HIDE DEF K
<1>2. m = e + n /\ e \in Nat /\ n \in Nat
  <2>1. Lists(vs, K \cup {c}, Len(h))
    BY <1>1
  <2>2. Cardinality(HeldBy(vs, K \cup {c}, o)) = e + n /\ e \in Nat /\ n \in Nat
    BY <1>1, <2>1, HeldAdds
  <2> QED BY <1>1, <2>2
<1>3. a \in Nat
  BY AddedIs
<1>4. Holders(vs, L, b, o) = m + a
  BY DEF Holders
<1>5. n # 0 \/ a # 0
  OBVIOUS
<1> HIDE DEF e, m, n, a
<1>6. m + a # 0
  BY <1>2, <1>3, <1>5
<1> QED BY <1>4, <1>6 DEF Counts, Counted

(* SaveTo: the files of the new version are the base's or the Builder's.   *)
From(files, base, added) ==
  \A l \in Level : \A i \in DOMAIN files[l] :
    \/ \E j \in DOMAIN base[l] : base[l][j] = files[l][i]
    \/ \E j \in DOMAIN added[l] : added[l][j] = files[l][i]

Saves(d, b, n, k) ==
  /\ IsBuilder(d, k) /\ d.phase = "saved" /\ d.v = n /\ d.base_ = b.base_
  /\ d.installed = FALSE /\ d.added_files = b.added_files

LEMMA SaveRight ==
  ASSUME NEW h, NEW vs, NEW c, NEW b, Right(h, vs, c, b), b.phase = "open",
         NEW files \in FileLists(Len(h)), From(files, vs[c].files_, b.added_files),
         NEW ws, NextVersion(vs, ws, files, 0, Len(h)), NEW d, Saves(d, b, Len(ws), Len(h))
  PROVE  Right(counted(h, files), ws, c, d)
<1> DEFINE k == Len(h)
           g == counted(h, files)
           L == {c}
           n == Len(ws)
<1>1. /\ k \in Nat /\ vs \in Seq(VersionType(k)) /\ c \in 1 .. Len(vs) /\ Len(vs) \in Nat
  BY RightSays
<1>2. b.base_ = c /\ b.v = 0 /\ b.installed = FALSE
  BY DEF Right, Phases
<1>0. /\ n = Len(vs) + 1 /\ ws \in Seq(VersionType(k))
      /\ \A v \in 1 .. Len(vs) : ws[v] = vs[v]
      /\ ws[n].files_ = files /\ ws[n].ref_ = 0
      /\ IsBuilder(d, k) /\ d.phase = "saved" /\ d.v = n /\ d.base_ = c
      /\ d.installed = FALSE /\ d.added_files = b.added_files
  BY <1>2 DEF NextVersion, Saves
<1>3. \A v \in 1 .. Len(vs) : vs[v].ref_ = RefOf(c, b, v)
  BY DEF Right
<1>4. n \in 1 .. Len(ws) /\ n # c /\ c \in 1 .. Len(ws) /\ n \notin L
  BY <1>0, <1>1
<1>5. Hold(c, b) = L
  BY DEF Hold
<1>6. Counts(h, vs, L, b) /\ IsHeap(h) /\ IsBuilder(b, k) /\ Once(b.added_files)
  BY <1>5 DEF Right
<1>7. Hold(c, d) = L \cup {n}
  BY <1>0 DEF Hold
<1>8. \A o : AddedBy(b, o) = AddedBy(d, o)
  BY <1>0 DEF AddedBy, HoldsBase
<1>9. Lists(ws, L \cup {n}, k) /\ Lists(ws, L, k)
  BY <1>0, <1>4, VersionsOf
<1>10. \A v \in L : vs[v].files_ = ws[v].files_
  BY <1>0, <1>1
<1>11. c \in L
  OBVIOUS
<1> HIDE DEF L, n
<1>12. Counts(h, ws, L, d)
  BY <1>6, <1>8, <1>10, SameCounts
<1>13. ASSUME NEW o \in 1 .. k, Occurrences(files, o) # 0
       PROVE  ~ h[o].deleted /\ h[o].refs = Holders(ws, L, d, o)
  <2>1. PICK l \in Level : \E i \in DOMAIN files[l] : files[l][i] = o
    BY <1>1, <1>13, SomePlace
  <2>2. Occurrences(vs[c].files_, o) # 0 \/ Occurrences(b.added_files, o) # 0
    <3>1. vs[c].files_ \in FileLists(k) /\ b.added_files \in FileLists(k)
      BY <1>1, <1>6, VersionsOf DEF IsBuilder
    <3> QED BY <1>1, <2>1, <3>1, SomePlace DEF From
  <2>3. Occurrences(ws[c].files_, o) # 0 \/ AddedBy(d, o) # 0
    BY <1>0, <1>1, <2>2 DEF AddedBy, HoldsBase
  <2> QED BY <1>0, <1>6, <1>9, <1>11, <1>12, <2>3, ListedCounts
<1>14. SameHeap(h, g) /\ Counts(g, ws, L \cup {n}, d)
  <2>1. SameHeap(h, counted(h, ws[n].files_)) /\ Counts(counted(h, ws[n].files_), ws, L \cup {n}, d)
    BY <1>0, <1>4, <1>6, <1>9, <1>12, <1>13, CountsAdd
  <2> QED BY <1>0, <2>1, Zenon
<1>15. IsHeap(g) /\ Len(g) = k
  BY <1>14 DEF SameHeap
<1>16. \A v \in 1 .. Len(ws) : ws[v].ref_ = RefOf(c, d, v)
  <2>1. ASSUME NEW v \in 1 .. Len(vs) PROVE ws[v].ref_ = RefOf(c, d, v)
    BY <1>0, <1>2, <1>3 DEF RefOf, HoldsBase
  <2>2. ws[n].ref_ = RefOf(c, d, n)
    BY <1>0, <1>4 DEF RefOf, HoldsBase
  <2>3. \A v \in 1 .. n : v \in 1 .. Len(vs) \/ v = n
    BY <1>0, <1>1
  <2> QED BY <2>1, <2>2, <2>3 DEF n
<1>17. Phases(ws, c, d)
  BY <1>0, <1>4 DEF Phases
<1> HIDE DEF g
<1>18. Right(g, ws, c, d)
  BY <1>0, <1>4, <1>6, <1>7, <1>14, <1>15, <1>16, <1>17 DEF Right
<1> QED BY <1>18 DEF g

LEMMA SaveMade ==
  ASSUME NEW h, NEW vs, NEW c, NEW b, Right(h, vs, c, b), b.phase = "open",
         NEW files \in FileLists(Len(h)), From(files, vs[c].files_, b.added_files)
  PROVE  Right(counted(h, files), Append(vs, [files_ |-> files, ref_ |-> 0]), c,
               [b EXCEPT !.phase = "saved", !.v = Len(vs) + 1])
<1> DEFINE n == Len(vs) + 1
           ws == Append(vs, [files_ |-> files, ref_ |-> 0])
           d == [b EXCEPT !.phase = "saved", !.v = n]
<1>1. vs \in Seq(VersionType(Len(h)))
  BY RightSays
<1>2. b.installed = FALSE /\ IsBuilder(b, Len(h))
  BY DEF Right, Phases
<1>3. NextVersion(vs, ws, files, 0, Len(h))
  BY <1>1, VersionAdded
<1>4. Saves(d, b, n, Len(h))
  <2> HIDE DEF n
  <2> DEFINE e == [b EXCEPT !.phase = "saved"]
  <2>1. /\ e.phase = "saved" /\ e.base_ = b.base_ /\ e.installed = FALSE
        /\ e.added_files = b.added_files /\ IsBuilder(e, Len(h))
    BY <1>2 DEF IsBuilder
  <2>2. d = [e EXCEPT !.v = n]
    OBVIOUS
  <2> HIDE DEF e, d
  <2>3. /\ d.v = n /\ d.phase = e.phase /\ d.base_ = e.base_ /\ d.installed = e.installed
        /\ d.added_files = e.added_files /\ IsBuilder(d, Len(h))
    BY <2>1, <2>2 DEF IsBuilder
  <2> QED BY <2>1, <2>3 DEF Saves
<1>5. n = Len(ws)
  BY <1>3 DEF NextVersion
<1> HIDE DEF n, ws, d
<1>6. Right(counted(h, files), ws, c, d)
  BY <1>3, <1>4, <1>5, SaveRight
<1> QED BY <1>6 DEF n, ws, d

LEMMA AbortRight ==
  ASSUME NEW h, NEW vs, NEW c, NEW b, Right(h, vs, c, b), b.phase = "open"
  PROVE  Right(h, vs, c, [b EXCEPT !.phase = "aborted"])
<1> DEFINE d == [b EXCEPT !.phase = "aborted"]
           L == {c}
<1>1. IsBuilder(b, Len(h)) /\ Hold(c, b) = L
  BY DEF Right, Hold
<1>2. /\ d.phase = "aborted" /\ d.v = b.v /\ d.base_ = b.base_ /\ d.installed = b.installed
      /\ d.added_files = b.added_files /\ IsBuilder(d, Len(h))
  BY <1>1 DEF IsBuilder
<1> HIDE DEF d
<1>3. Hold(c, d) = L
  BY <1>2 DEF Hold
<1> HIDE DEF L
<1>4. \A o : AddedBy(b, o) = AddedBy(d, o)
  BY <1>2 DEF AddedBy, HoldsBase
<1>5. Counts(h, vs, L, d)
  <2>1. Counts(h, vs, L, b)
    BY <1>1 DEF Right
  <2> QED BY <1>4, <2>1, SameCounts
<1>6. \A v \in 1 .. Len(vs) : vs[v].ref_ = RefOf(c, d, v)
  BY <1>2 DEF Right, RefOf, HoldsBase
<1>7. Phases(vs, c, d)
  BY <1>2 DEF Right, Phases
<1>8. Right(h, vs, c, d)
  BY <1>2, <1>3, <1>5, <1>6, <1>7 DEF Right
<1> QED BY <1>8 DEF d

(* New objects at the end of the heap.                                     *)
Grown(h, g) == /\ IsHeap(g) /\ Len(h) <= Len(g)
               /\ \A o \in 1 .. Len(h) : g[o] = h[o]

LEMMA CountsGrown ==
  ASSUME NEW h, IsHeap(h), NEW g, Grown(h, g), NEW vs, NEW L, Lists(vs, L, Len(h)),
         NEW b, NEW d, Counts(h, vs, L, b),
         \A o \in 1 .. Len(h) : AddedBy(b, o) = AddedBy(d, o),
         \A o \in 1 .. Len(g) : o \notin 1 .. Len(h) => AddedBy(d, o) \in Nat
                                                      /\ Counted(g[o], AddedBy(d, o))
  PROVE  Counts(g, vs, L, d)
<1>1. ASSUME NEW o \in 1 .. Len(h) PROVE Counted(g[o], Holders(vs, L, d, o))
  <2>1. Holders(vs, L, b, o) = Holders(vs, L, d, o) /\ g[o] = h[o]
    BY DEF Holders, Grown
  <2> QED BY <2>1 DEF Counts
<1>2. ASSUME NEW o \in 1 .. Len(g), o \notin 1 .. Len(h)
      PROVE  Counted(g[o], Holders(vs, L, d, o))
  <2>1. HeldBy(vs, L, o) = {}
    <3>1. \A v \in L : Places(vs[v].files_, o) = {}
      BY <1>2, HeapIs, NoPlaces DEF Lists
    <3> QED BY <3>1, HeldIs
  <2>2. Cardinality(HeldBy(vs, L, o)) = 0
    BY <2>1, FS_EmptySet
  <2>3. Holders(vs, L, d, o) = AddedBy(d, o)
    <3> DEFINE a == AddedBy(d, o)
               m == Cardinality(HeldBy(vs, L, o))
    <3>1. a \in Nat /\ m = 0
      BY <1>2, <2>2
    <3> HIDE DEF a, m
    <3>2. m + a = a
      BY <3>1
    <3> QED BY <3>2 DEF Holders, a, m
  <2> QED BY <1>2, <2>3
<1> QED BY <1>1, <1>2 DEF Counts

LEMMA ObjectAdded ==
  ASSUME NEW h, IsHeap(h), NEW x, Object(x)
  PROVE  /\ Grown(h, Append(h, x)) /\ Len(Append(h, x)) = Len(h) + 1
         /\ Append(h, x)[Len(h) + 1] = x
<1> DEFINE k == Len(h)
           g == Append(h, x)
<1>1. k \in Nat /\ DOMAIN h = 1 .. k /\ h = [o \in 1 .. k |-> h[o]]
  BY HeapIs DEF IsHeap
<1>2. /\ g = [o \in 1 .. k + 1 |-> g[o]] /\ g[k + 1] = x
      /\ \A o \in 1 .. k : g[o] = h[o]
  <2> DEFINE S == {h[o] : o \in 1 .. k} \cup {x}
  <2>1. \A o \in 1 .. k : h[o] \in S
    OBVIOUS
  <2>2. x \in S
    OBVIOUS
  <2> HIDE DEF S
  <2>3. h \in Seq(S)
    BY <1>1, <2>1, MadeSeq
  <2>4. g \in Seq(S) /\ Len(g) = k + 1
    BY <2>2, <2>3
  <2>5. g[k + 1] = x /\ \A o \in 1 .. k : g[o] = h[o]
    BY <2>2, <2>3
  <2> HIDE DEF g, k
  <2>6. g = [o \in 1 .. Len(g) |-> g[o]]
    BY <2>4
  <2> QED BY <2>4, <2>5, <2>6
<1>3. \A o \in 1 .. k + 1 : o \in 1 .. k \/ o = k + 1
  BY <1>1
<1>4. \A o \in 1 .. k + 1 : Object(g[o])
  BY <1>2, <1>3 DEF IsHeap
<1>5. k + 1 \in Nat /\ k <= k + 1
  BY <1>1
<1> HIDE DEF k, g
<1>6. IsHeap(g) /\ Len(g) = k + 1
  BY <1>2, <1>4, <1>5, HeapMade
<1>7. Grown(h, g)
  BY <1>2, <1>5, <1>6 DEF Grown, k
<1>8. Len(g) = k + 1 /\ g[k + 1] = x
  BY <1>2, <1>6
<1> QED BY <1>7, <1>8, Zenon DEF k, g

AtEnd(files, base, m) ==
  /\ files \in FileLists(m)
  /\ \A l \in Level : \A i \in DOMAIN files[l] :
       files[l][i] = m \/ \E j \in DOMAIN base[l] : base[l][j] = files[l][i]

LEMMA AtTheEnd ==
  ASSUME NEW k \in Nat, NEW base \in FileLists(k)
  PROVE  AtEnd([base EXCEPT ![0] = Append(@, k + 1)], base, k + 1)
<1> DEFINE files == [base EXCEPT ![0] = Append(@, k + 1)]
<1>1. k + 1 \in Nat /\ k <= k + 1 /\ k + 1 \in 1 .. k + 1
  OBVIOUS
<1>2. base \in FileLists(k + 1) /\ DOMAIN base = Level
  BY <1>1, ListsGrow DEF FileLists
<1>3. \A l \in Level : base[l] \in Seq(1 .. k + 1)
  BY <1>2 DEF FileLists
<1>4. 0 \in Level
  BY VersionEditAssumption DEF Level, Number
<1>5. files = [l \in Level |-> IF l = 0 THEN Append(base[0], k + 1) ELSE base[l]]
  BY <1>2
<1>6. ASSUME NEW l \in Level
      PROVE  /\ files[l] \in Seq(1 .. k + 1)
             /\ \A i \in DOMAIN files[l] :
                  files[l][i] = k + 1 \/ \E j \in DOMAIN base[l] : base[l][j] = files[l][i]
  <2>1. base[l] \in Seq(1 .. k + 1) /\ Append(base[l], k + 1) \in Seq(1 .. k + 1)
    BY <1>1, <1>3
  <2>2. \A i \in DOMAIN Append(base[l], k + 1) :
          \/ Append(base[l], k + 1)[i] = k + 1
          \/ i \in DOMAIN base[l] /\ Append(base[l], k + 1)[i] = base[l][i]
    BY <2>1
  <2>3. files[l] = base[l] \/ files[l] = Append(base[l], k + 1)
    BY <1>5
  <2> QED BY <2>1, <2>2, <2>3
<1> HIDE DEF files
<1>7. AtEnd(files, base, k + 1)
  BY <1>5, <1>6 DEF FileLists, AtEnd
<1> QED BY <1>7 DEF files

(* Version::apply: the new version is counted before the old one goes.     *)
LEMMA ApplyRight ==
  ASSUME NEW h, NEW vs, NEW c, NEW b, Right(h, vs, c, b), b.phase = "none",
         NEW g, Grown(h, g), Len(g) = Len(h) + 1, ~ g[Len(g)].deleted, g[Len(g)].refs = 0,
         NEW files, AtEnd(files, vs[c].files_, Len(g))
  PROVE  Right(FilesUnref(counted(g, files), vs, c),
               Append(VersionUnref(vs, c), [files_ |-> files, ref_ |-> 1]), Len(vs) + 1, b)
<1> DEFINE k == Len(h)
           m == Len(g)
           n == Len(vs) + 1
           u == VersionUnref(vs, c)
           ws == Append(u, [files_ |-> files, ref_ |-> 1])
           L == {c}
           K == {n}
           p == counted(g, files)
           q == FilesUnref(p, vs, c)
<1>1. /\ k \in Nat /\ vs \in Seq(VersionType(k)) /\ c \in 1 .. Len(vs) /\ Len(vs) \in Nat
      /\ m = k + 1 /\ m \in Nat /\ k <= m /\ IsHeap(g) /\ IsHeap(h)
  BY RightSays DEF Grown, Right
<1>2. \A v \in 1 .. Len(vs) : vs[v].ref_ = IF v = c THEN 1 ELSE 0
  BY DEF Right, RefOf, HoldsBase
<1>3. RefSet(vs, u, c, 0, k)
  <2>1. vs[c].ref_ - 1 = 0
    BY <1>1, <1>2
  <2>2. u = [vs EXCEPT ![c].ref_ = 0]
    BY <2>1, Zenon DEF VersionUnref
  <2>3. RefSet(vs, [vs EXCEPT ![c].ref_ = 0], c, 0, k)
    BY <1>1, RefIsSet
  <2> QED BY <2>2, <2>3, Zenon
<1>4. vs[c].files_ \in FileLists(k)
  BY <1>1, VersionsOf
<1>5. /\ files \in FileLists(m)
      /\ \A l \in Level : \A i \in DOMAIN files[l] :
           files[l][i] = m \/ \E j \in DOMAIN vs[c].files_[l] : vs[c].files_[l][j] = files[l][i]
  BY DEF AtEnd
<1>6. NextVersion(u, ws, files, 1, m)
  <2>1. u \in Seq(VersionType(m))
    BY <1>1, <1>3, ListsGrow DEF RefSet
  <2> HIDE DEF u
  <2> QED BY <1>5, <2>1, VersionAdded
<1> HIDE DEF u, ws
<1>7. /\ ws \in Seq(VersionType(m)) /\ Len(ws) = n
      /\ \A v \in 1 .. Len(vs) : ws[v].files_ = vs[v].files_ /\ ws[v].ref_ = 0
      /\ ws[n].files_ = files /\ ws[n].ref_ = 1
  BY <1>2, <1>3, <1>6 DEF NextVersion, RefSet
<1>8. /\ n \in 1 .. Len(ws) /\ n # c /\ c \in 1 .. Len(ws) /\ n \notin L /\ c \notin K
      /\ \A v \in 1 .. n : v \in 1 .. Len(vs) \/ v = n
      /\ c \in L /\ L \cup {n} = K \cup {c} /\ L \subseteq 1 .. Len(vs)
      /\ \A v \in L : vs[v].files_ = ws[v].files_
  BY <1>1, <1>7
<1>9. Hold(c, b) = L /\ Hold(n, b) = K
  BY DEF Hold
<1>10. Lists(ws, L \cup {n}, m) /\ Lists(ws, L, m) /\ Lists(vs, L, k)
  BY <1>1, <1>7, <1>8, VersionsOf
<1>11. Counts(h, vs, L, b) /\ IsBuilder(b, k) /\ Once(b.added_files)
  BY <1>9 DEF Right
<1>12. \A o : AddedBy(b, o) = 0
  BY DEF AddedBy, HoldsBase
<1>13. IsBuilder(b, m)
  BY <1>1, <1>11, ListsGrow DEF IsBuilder
<1> HIDE DEF L, K, n, m, k
<1>14. Counts(g, vs, L, b)
  <2>1. \A o \in 1 .. Len(g) : AddedBy(b, o) \in Nat /\ Counted(g[o], AddedBy(b, o))
    BY <1>12 DEF Counted
  <2>2. Lists(vs, L, Len(h))
    BY <1>10 DEF k
  <2> QED BY <1>1, <1>11, <2>1, <2>2, CountsGrown
<1>15. Counts(g, ws, L, b)
  BY <1>8, <1>14, SameCounts
<1>16. ASSUME NEW o \in 1 .. m, Occurrences(files, o) # 0
       PROVE  ~ g[o].deleted /\ g[o].refs = Holders(ws, L, b, o)
  <2>1. PICK l \in Level : \E i \in DOMAIN files[l] : files[l][i] = o
    BY <1>1, <1>5, <1>16, SomePlace
  <2>2. CASE Occurrences(vs[c].files_, o) # 0
    <3>1. Occurrences(ws[c].files_, o) # 0
      BY <1>1, <1>7, <2>2
    <3> QED BY <1>1, <1>8, <1>10, <1>13, <1>15, <3>1, ListedCounts DEF m
  <2>3. CASE Occurrences(vs[c].files_, o) = 0
    <3>1. o = m
      BY <1>1, <1>4, <1>5, <2>1, <2>3, SomePlace
    <3>2. Holders(ws, L, b, o) = 0
      <4>1. o \notin 1 .. k
        BY <1>1, <3>1
      <4>2. \A v \in L : Places(ws[v].files_, o) = {}
        BY <1>1, <1>8, <1>10, <4>1, NoPlaces DEF Lists
      <4>3. HeldBy(ws, L, o) = {}
        BY <4>2, HeldIs
      <4>4. Cardinality(HeldBy(ws, L, o)) = 0
        BY <4>3, FS_EmptySet
      <4> QED BY <1>12, <4>4 DEF Holders
    <3> QED BY <3>1, <3>2 DEF m
  <2> QED BY <2>2, <2>3
<1>17. IsHeap(p) /\ Len(p) = m /\ Counts(p, ws, L \cup {n}, b)
  <2>1. \A o \in 1 .. Len(g) : Occurrences(ws[n].files_, o) # 0 =>
          ~ g[o].deleted /\ g[o].refs = Holders(ws, L, b, o)
    BY <1>7, <1>16 DEF m
  <2>2. Lists(ws, L \cup {n}, Len(g)) /\ IsBuilder(b, Len(g))
    BY <1>10, <1>13 DEF m
  <2>3. /\ SameHeap(g, counted(g, ws[n].files_))
        /\ Counts(counted(g, ws[n].files_), ws, L \cup {n}, b)
    BY <1>1, <1>8, <1>15, <2>1, <2>2, CountsAdd
  <2> QED BY <1>7, <2>3 DEF SameHeap, m
<1> HIDE DEF p
<1>18. q = Dropped(p, ws[c].files_)
  <2>1. ~ (vs[c].ref_ > 1) /\ ws[c].files_ = vs[c].files_
    BY <1>1, <1>2, <1>7
  <2> QED BY <2>1 DEF FilesUnref, Dropped
<1>19. IsHeap(q) /\ Len(q) = m /\ Counts(q, ws, K, b)
  <2>1. Lists(ws, K \cup {c}, Len(p)) /\ Counts(p, ws, K \cup {c}, b) /\ IsBuilder(b, Len(p))
    BY <1>8, <1>10, <1>13, <1>17
  <2>2. /\ SameHeap(p, Dropped(p, ws[c].files_))
        /\ Counts(Dropped(p, ws[c].files_), ws, K, b)
    BY <1>8, <1>17, <2>1, CountsDrop
  <2> QED BY <1>17, <1>18, <2>2 DEF SameHeap
<1>20. \A v \in 1 .. Len(ws) : ws[v].ref_ = RefOf(n, b, v)
  <2>1. \A v \in 1 .. Len(vs) : v # n
    BY <1>1 DEF n
  <2> QED BY <1>7, <1>8, <2>1 DEF RefOf, HoldsBase
<1>21. Phases(ws, n, b)
  BY DEF Right, Phases
<1> HIDE DEF q
<1>22. Right(q, ws, n, b)
  BY <1>7, <1>8, <1>9, <1>11, <1>13, <1>19, <1>20, <1>21 DEF Right
<1> QED BY <1>22 DEF q, p, ws, u, n

-----------------------------------------------------------------------------
(* The added files: each new object is inserted at most once.              *)
Has(s, x) == \E i \in DOMAIN s : s[i] = x
Distinct(s) == \A i, j \in DOMAIN s : s[i] = s[j] => i = j

LEMMA InsertedAt ==
  ASSUME NEW S, NEW s \in Seq(S), NEW p \in 1 .. Len(s) + 1, NEW e \in S
  PROVE  LET r == InsertAt(s, p, e)
         IN /\ r \in Seq(S) /\ Len(r) = Len(s) + 1
            /\ \A i \in 1 .. Len(s) + 1 :
                 r[i] = IF i < p THEN s[i] ELSE IF i = p THEN e ELSE s[i - 1]
<1> DEFINE n == Len(s)
           a == SubSeq(s, 1, p - 1)
           c == <<e>>
           b == SubSeq(s, p, n)
           d == a \o c
           r == d \o b
<1>1. /\ n \in Nat /\ DOMAIN s = 1 .. n /\ p \in Nat /\ p - 1 \in Nat /\ p - 1 <= n
      /\ p >= 1 /\ n - p + 1 \in Nat
  OBVIOUS
<1>2. \A i \in 1 .. n : s[i] \in S
  OBVIOUS
<1> HIDE DEF n
<1>3. a \in Seq(S) /\ Len(a) = p - 1 /\ \A i \in 1 .. p - 1 : a[i] = s[i]
  <2>1. \A i \in 1 .. p - 1 : s[i] \in S
    BY <1>1, <1>2
  <2>2. /\ a \in Seq(S) /\ Len(a) = (IF 1 <= p - 1 THEN p - 1 - 1 + 1 ELSE 0)
        /\ \A i \in 1 .. p - 1 - 1 + 1 : a[i] = s[1 + i - 1]
    BY <1>1, <2>1, SubSeqProperties
  <2> HIDE DEF a
  <2> QED BY <1>1, <2>2
<1>4. b \in Seq(S) /\ Len(b) = n - p + 1 /\ \A i \in 1 .. n - p + 1 : b[i] = s[p + i - 1]
  <2>1. \A i \in p .. n : s[i] \in S
    BY <1>1, <1>2
  <2>2. /\ b \in Seq(S) /\ Len(b) = (IF p <= n THEN n - p + 1 ELSE 0)
        /\ \A i \in 1 .. n - p + 1 : b[i] = s[p + i - 1]
    BY <1>1, <2>1, SubSeqProperties
  <2> HIDE DEF b
  <2> QED BY <1>1, <2>2
<1>5. c \in Seq(S) /\ Len(c) = 1 /\ c[1] = e
  OBVIOUS
<1> HIDE DEF a, b, c
<1>6. /\ d \in Seq(S) /\ Len(d) = p
      /\ \A i \in 1 .. p : d[i] = IF i < p THEN s[i] ELSE e
  <2>1. /\ d \in Seq(S) /\ Len(d) = Len(a) + Len(c)
        /\ \A i \in 1 .. Len(a) + Len(c) : d[i] = IF i <= Len(a) THEN a[i] ELSE c[i - Len(a)]
    BY <1>3, <1>5, ConcatProperties
  <2> HIDE DEF d
  <2>2. Len(d) = p
    BY <1>1, <1>3, <1>5, <2>1
  <2>3. ASSUME NEW i \in 1 .. p PROVE d[i] = IF i < p THEN s[i] ELSE e
    <3>1. d[i] = IF i <= p - 1 THEN a[i] ELSE c[i - (p - 1)]
      BY <1>1, <1>3, <1>5, <2>1
    <3>2. CASE i < p
      BY <1>1, <1>3, <3>1, <3>2
    <3>3. CASE i = p
      BY <1>1, <1>5, <3>1, <3>3
    <3> QED BY <1>1, <3>2, <3>3
  <2> QED BY <2>1, <2>2, <2>3
<1> HIDE DEF d
<1>7. /\ r \in Seq(S) /\ Len(r) = n + 1
      /\ \A i \in 1 .. n + 1 : r[i] = IF i < p THEN s[i] ELSE IF i = p THEN e ELSE s[i - 1]
  <2>1. /\ r \in Seq(S) /\ Len(r) = Len(d) + Len(b)
        /\ \A i \in 1 .. Len(d) + Len(b) : r[i] = IF i <= Len(d) THEN d[i] ELSE b[i - Len(d)]
    BY <1>4, <1>6, ConcatProperties
  <2> HIDE DEF r
  <2>2. Len(r) = n + 1
    BY <1>1, <1>4, <1>6, <2>1
  <2>3. ASSUME NEW i \in 1 .. n + 1
        PROVE  r[i] = IF i < p THEN s[i] ELSE IF i = p THEN e ELSE s[i - 1]
    <3>1. r[i] = IF i <= p THEN d[i] ELSE b[i - p]
      BY <1>1, <1>4, <1>6, <2>1
    <3>2. CASE i <= p
      BY <1>1, <1>6, <3>1, <3>2
    <3>3. CASE i > p
      <4>1. i - p \in 1 .. n - p + 1 /\ p + (i - p) - 1 = i - 1
        BY <1>1, <3>3
      <4>2. b[i - p] = s[i - 1]
        BY <1>4, <4>1
      <4> QED BY <1>1, <3>1, <3>3, <4>2
    <3> QED BY <1>1, <3>2, <3>3
  <2> QED BY <2>1, <2>2, <2>3
<1>8. InsertAt(s, p, e) = r
  BY DEF InsertAt, r, d, a, b, c, n
<1> HIDE DEF r
<1> QED BY <1>7, <1>8 DEF n

LEMMA Inserted ==
  ASSUME NEW S, NEW s \in Seq(S), NEW p \in 1 .. Len(s) + 1, NEW e \in S
  PROVE  /\ InsertAt(s, p, e) \in Seq(S)
         /\ \A x : Has(InsertAt(s, p, e), x) <=> Has(s, x) \/ x = e
         /\ Distinct(s) /\ ~ Has(s, e) => Distinct(InsertAt(s, p, e))
<1> DEFINE n == Len(s)
           r == InsertAt(s, p, e)
<1>1. n \in Nat /\ DOMAIN s = 1 .. n /\ p \in Nat /\ p >= 1 /\ p <= n + 1
  OBVIOUS
<1>2. /\ r \in Seq(S) /\ Len(r) = n + 1
      /\ \A i \in 1 .. n + 1 : r[i] = IF i < p THEN s[i] ELSE IF i = p THEN e ELSE s[i - 1]
  BY InsertedAt
<1> HIDE DEF n
<1>3. DOMAIN r = 1 .. n + 1
  BY <1>2
<1> HIDE DEF r
<1>4. ASSUME NEW x PROVE Has(r, x) <=> Has(s, x) \/ x = e
  <2>1. ASSUME NEW i \in 1 .. n + 1, r[i] = x PROVE Has(s, x) \/ x = e
    <3>1. i < p => i \in 1 .. n
      BY <1>1
    <3>2. ~ (i < p) /\ i # p => i - 1 \in 1 .. n
      BY <1>1
    <3> QED BY <1>1, <1>2, <2>1, <3>1, <3>2 DEF Has
  <2>2. ASSUME NEW i \in 1 .. n, s[i] = x PROVE Has(r, x)
    <3>1. CASE i < p
      <4>1. i \in 1 .. n + 1 /\ r[i] = x
        BY <1>1, <1>2, <2>2, <3>1
      <4> QED BY <1>3, <4>1 DEF Has
    <3>2. CASE ~ (i < p)
      <4>1. i + 1 \in 1 .. n + 1 /\ ~ (i + 1 < p) /\ i + 1 # p /\ i + 1 - 1 = i
        BY <1>1, <3>2
      <4>2. r[i + 1] = x
        BY <1>2, <2>2, <4>1
      <4> QED BY <1>3, <4>1, <4>2 DEF Has
    <3> QED BY <3>1, <3>2
  <2>3. p \in 1 .. n + 1 /\ r[p] = e
    BY <1>1, <1>2
  <2> QED BY <1>1, <1>3, <2>1, <2>2, <2>3 DEF Has
<1>5. ASSUME Distinct(s), ~ Has(s, e) PROVE Distinct(r)
  <2>1. ASSUME NEW i \in 1 .. n + 1, NEW j \in 1 .. n + 1, r[i] = r[j] PROVE i = j
    <3> DEFINE u(m) == IF m < p THEN m ELSE m - 1
    <3>1. \A m \in 1 .. n + 1 : m # p => u(m) \in 1 .. n /\ r[m] = s[u(m)]
      BY <1>1, <1>2
    <3>2. \A m \in 1 .. n : s[m] # e
      BY <1>1, <1>5 DEF Has
    <3>3. r[p] = e /\ p \in 1 .. n + 1
      BY <1>1, <1>2
    <3>4. i = p <=> j = p
      BY <2>1, <3>1, <3>2, <3>3
    <3>5. i # p /\ j # p => u(i) = u(j)
      <4> HIDE DEF u
      <4> QED BY <1>1, <1>5, <2>1, <3>1 DEF Distinct
    <3>6. i # p /\ j # p => i = j
      BY <1>1, <3>5
    <3> QED BY <3>4, <3>6
  <2> QED BY <1>3, <2>1 DEF Distinct
<1> QED BY <1>2, <1>4, <1>5 DEF r

LEMMA InsertOne ==
  ASSUME NEW S, NEW files \in Seq(S), NEW o \in S, NEW h
  PROVE  /\ insert(files, o, h) \in Seq(S)
         /\ \A x : x # o => (Has(insert(files, o, h), x) <=> Has(files, x))
         /\ Distinct(files) /\ ~ Has(files, o) => Distinct(insert(files, o, h))
<1> DEFINE B == {i \in DOMAIN files : BySmallestKey(h[files[i]].file, h[o].file)}
           p == 1 + Cardinality(B)
<1>1. DOMAIN files = 1 .. Len(files) /\ Len(files) \in Nat
  OBVIOUS
<1>2. p \in 1 .. Len(files) + 1
  <2>1. IsFiniteSet(1 .. Len(files)) /\ Cardinality(1 .. Len(files)) = Len(files)
    BY <1>1, FS_Interval
  <2>2. B \subseteq 1 .. Len(files)
    BY <1>1
  <2> HIDE DEF B
  <2>3. Cardinality(B) <= Len(files) /\ Cardinality(B) \in Nat
    BY <2>1, <2>2, FS_Subset, FS_CardinalityType
  <2> QED BY <1>1, <2>3
<1>3. insert(files, o, h) = files \/ insert(files, o, h) = InsertAt(files, p, o)
  BY DEF insert
<1> HIDE DEF p
<1>4. /\ InsertAt(files, p, o) \in Seq(S)
      /\ \A x : Has(InsertAt(files, p, o), x) <=> Has(files, x) \/ x = o
      /\ Distinct(files) /\ ~ Has(files, o) => Distinct(InsertAt(files, p, o))
  BY <1>2, Inserted
<1> QED BY <1>3, <1>4

Inserts(t, files, at, n, h) ==
  /\ insertNew(files, at, n, h) = t[n]
  /\ t = [i \in 0 .. n |-> IF i = 0 THEN files
            ELSE IF i \in at THEN insert(t[i - 1], Len(heap) + i, h) ELSE t[i - 1]]

LEMMA InsertNewSteps ==
  ASSUME Len(heap) \in Nat, NEW n \in Nat, NEW files \in Seq(1 .. Len(heap)), NEW at, NEW h
  PROVE  \E t : Inserts(t, files, at, n, h)
<1> DEFINE k == Len(heap)
           P == Seq(1 .. k + n)
           F == [y \in P \X (1 .. n) |-> IF y[2] \in at THEN insert(y[1], k + y[2], h) ELSE y[1]]
           t == CHOOSE g : g = [i \in 0 .. n |-> IF i = 0 THEN files
                  ELSE IF i \in at THEN insert(g[i - 1], k + i, h) ELSE g[i - 1]]
<1>1. k \in Nat /\ \A i \in 1 .. n : k + i \in 1 .. k + n
  OBVIOUS
<1>2. files \in P
  BY <1>1
<1>3. ASSUME NEW s \in P, NEW i \in 1 .. n PROVE insert(s, k + i, h) \in P
  BY <1>1, InsertOne
<1>4. F \in [P \X (1 .. n) -> P]
  BY <1>3
<1>5. insertNew(files, at, n, h) = t[n]
  BY Zenon DEF insertNew
<1>6. t = [i \in 0 .. n |-> IF i = 0 THEN files
             ELSE IF i \in at THEN insert(t[i - 1], k + i, h) ELSE t[i - 1]]
  <2> HIDE DEF P
  <2>1. \A s \in P : \A i \in 1 .. n :
          F[<<s, i>>] = IF i \in at THEN insert(s, k + i, h) ELSE s
    BY <1>4
  <2> HIDE DEF F, k
  <2>2. PICK g \in [0 .. n -> P] : Iterated(g, files, n, F)
    BY <1>2, <1>4, Iterates
  <2>3. \A i \in 0 .. n : i # 0 => i \in 1 .. n /\ i - 1 \in 0 .. n
    OBVIOUS
  <2>4. \A i \in 0 .. n : (IF i = 0 THEN files ELSE F[<<g[i - 1], i>>])
          = (IF i = 0 THEN files ELSE IF i \in at THEN insert(g[i - 1], k + i, h) ELSE g[i - 1])
    <3> TAKE i \in 0 .. n
    <3>1. i # 0 => i \in 1 .. n /\ g[i - 1] \in P
      BY <2>2, <2>3
    <3> QED BY <2>1, <3>1
  <2>5. g = [i \in 0 .. n |-> IF i = 0 THEN files
               ELSE IF i \in at THEN insert(g[i - 1], k + i, h) ELSE g[i - 1]]
    BY <2>2, <2>4, Zenon DEF Iterated
  <2> QED BY <2>5, Zenon
<1> HIDE DEF t
<1>7. Inserts(t, files, at, n, h)
  BY <1>5, <1>6 DEF k, Inserts
<1> QED BY <1>7

LEMMA InsertNewIs ==
  ASSUME Len(heap) \in Nat, NEW n \in Nat, NEW files \in Seq(1 .. Len(heap)), Distinct(files),
         NEW at, NEW h
  PROVE  /\ insertNew(files, at, n, h) \in Seq(1 .. Len(heap) + n)
         /\ Distinct(insertNew(files, at, n, h))
         /\ \A x \in 1 .. Len(heap) : Has(insertNew(files, at, n, h), x) <=> Has(files, x)
         /\ \A i \in 1 .. n : Has(insertNew(files, at, n, h), Len(heap) + i) => i \in at
<1> DEFINE k == Len(heap)
           P == Seq(1 .. k + n)
           Good1(s, i) ==
             /\ s \in P /\ Distinct(s)
             /\ \A x \in 1 .. k : Has(s, x) <=> Has(files, x)
             /\ \A j \in 1 .. n : Has(s, k + j) => j \in at /\ j <= i
<1>1. k \in Nat /\ \A i \in 1 .. n : k + i \in 1 .. k + n /\ k + i \notin 1 .. k
  OBVIOUS
<1>2. files \in P
  BY <1>1
<1>3. PICK t : Inserts(t, files, at, n, h)
  BY InsertNewSteps
<1>4. /\ insertNew(files, at, n, h) = t[n]
      /\ t = [i \in 0 .. n |-> IF i = 0 THEN files
                ELSE IF i \in at THEN insert(t[i - 1], k + i, h) ELSE t[i - 1]]
  BY <1>3, Zenon DEF Inserts
<1> DEFINE D == {i \in 0 .. n : Good1(t[i], i)}
<1>5. 0 \in D
  <2>1. t[0] = files /\ 0 \in 0 .. n
    BY <1>4
  <2>2. \A j \in 1 .. n : ~ Has(files, k + j)
    BY <1>1 DEF Has
  <2> QED BY <1>2, <2>1, <2>2
<1>6. ASSUME NEW i \in 1 .. n, i - 1 \in D PROVE i \in D
  <2> DEFINE s == t[i - 1]
  <2>1. Good1(s, i - 1) /\ i \in 0 .. n
    BY <1>6
  <2>2. t[i] = IF i \in at THEN insert(s, k + i, h) ELSE s
    BY <1>4, <2>1
  <2> HIDE DEF s, k
  <2>3. CASE i \in at
    <3> DEFINE r == insert(s, k + i, h)
    <3>1. ~ Has(s, k + i)
      BY <2>1
    <3>2. /\ r \in P /\ Distinct(r)
          /\ \A x : x # k + i => (Has(r, x) <=> Has(s, x))
      BY <1>1, <2>1, <3>1, InsertOne
    <3> HIDE DEF r
    <3>3. \A x \in 1 .. k : Has(r, x) <=> Has(files, x)
      BY <1>1, <2>1, <3>2
    <3>4. ASSUME NEW j \in 1 .. n, Has(r, k + j) PROVE j \in at /\ j <= i
      <4>1. CASE j = i
        BY <2>3, <4>1
      <4>2. CASE j # i
        <5>1. k + j # k + i
          BY <1>1, <4>2
        <5>2. Has(s, k + j)
          BY <3>2, <3>4, <5>1
        <5>3. j \in at /\ j <= i - 1
          BY <2>1, <5>2
        <5> QED BY <5>3
      <4> QED BY <4>1, <4>2
    <3>5. Good1(r, i)
      BY <3>2, <3>3, <3>4
    <3> QED BY <2>1, <2>2, <2>3, <3>5 DEF r
  <2>4. CASE i \notin at
    <3>1. \A j \in 1 .. n : j <= i - 1 => j <= i
      OBVIOUS
    <3>2. Good1(s, i)
      BY <2>1, <3>1
    <3> QED BY <2>1, <2>2, <2>4, <3>2
  <2> QED BY <2>3, <2>4
<1>7. n \in D
  <2>1. n \in 0 .. n
    OBVIOUS
  <2> HIDE DEF D
  <2> QED BY <1>5, <1>6, <2>1, Reaches
<1> QED BY <1>4, <1>7

LEMMA OnceCounts ==
  ASSUME NEW k, NEW files \in FileLists(k), Once(files), NEW o
  PROVE  Occurrences(files, o) \in {0, 1}
<1>1. ASSUME NEW x \in Places(files, o), NEW y \in Places(files, o) PROVE x = y
  <2>1. PICK l \in Level : \E i \in DOMAIN files[l] : x = <<l, i>> /\ files[l][i] = o
    BY PlaceIs
  <2>2. PICK m \in Level : \E j \in DOMAIN files[m] : y = <<m, j>> /\ files[m][j] = o
    BY PlaceIs
  <2> QED BY <2>1, <2>2 DEF Once
<1>2. CASE Places(files, o) = {}
  BY <1>2, FS_EmptySet DEF Occurrences
<1>3. CASE Places(files, o) # {}
  <2>1. PICK x : x \in Places(files, o)
    BY <1>3
  <2>2. Places(files, o) = {x}
    BY <1>1, <2>1
  <2> QED BY <2>2, FS_Singleton DEF Occurrences
<1> QED BY <1>2, <1>3

(* Apply: what the Builder adds are new objects with one reference.        *)
Adds1(d, b, k, m) ==
  /\ IsBuilder(d, m) /\ Once(d.added_files) /\ d.phase = b.phase /\ d.base_ = b.base_
  /\ d.v = b.v /\ d.installed = b.installed
  /\ \A o \in 1 .. k : (\E l \in Level : Has(d.added_files[l], o))
                         <=> \E l \in Level : Has(b.added_files[l], o)

LEMMA AddRight ==
  ASSUME NEW h, NEW vs, NEW c, NEW b, Right(h, vs, c, b), b.phase = "open",
         NEW g, Grown(h, g), \A o \in 1 .. Len(g) : o \notin 1 .. Len(h) =>
                               ~ g[o].deleted /\ g[o].refs = 1,
         NEW d, Adds1(d, b, Len(h), Len(g))
  PROVE  Right(g, vs, c, d)
<1> DEFINE k == Len(h)
           m == Len(g)
<1>1. /\ k \in Nat /\ vs \in Seq(VersionType(k)) /\ c \in 1 .. Len(vs) /\ Len(vs) \in Nat
      /\ m \in Nat /\ k <= m /\ IsHeap(g) /\ IsHeap(h) /\ Lists(vs, Hold(c, b), k)
  BY RightSays, HeapIs DEF Grown, Right
<1>2. IsBuilder(b, k) /\ Once(b.added_files) /\ Counts(h, vs, Hold(c, b), b)
  BY DEF Right
<1>3. b.added_files \in FileLists(k) /\ b.added_files \in FileLists(m)
      /\ d.added_files \in FileLists(m) /\ Once(d.added_files) /\ d.phase = "open"
  BY <1>1, <1>2, ListsGrow DEF IsBuilder, Adds1
<1> HIDE DEF k, m
<1>4. \A o : AddedBy(b, o) = Occurrences(b.added_files, o)
             /\ AddedBy(d, o) = Occurrences(d.added_files, o)
  BY <1>3 DEF AddedBy, HoldsBase
<1>5. ASSUME NEW o \in 1 .. k PROVE AddedBy(b, o) = AddedBy(d, o)
  <2>1. Occurrences(b.added_files, o) # 0 <=> \E l \in Level : Has(b.added_files[l], o)
    BY <1>1, <1>3, SomePlace DEF Has
  <2>2. Occurrences(d.added_files, o) # 0 <=> \E l \in Level : Has(d.added_files[l], o)
    BY <1>1, <1>3, SomePlace DEF Has
  <2>3. /\ Occurrences(b.added_files, o) \in {0, 1}
        /\ Occurrences(d.added_files, o) \in {0, 1}
    BY <1>2, <1>3, OnceCounts
  <2>4. Occurrences(b.added_files, o) # 0 <=> Occurrences(d.added_files, o) # 0
    BY <2>1, <2>2 DEF Adds1, k
  <2> QED BY <1>4, <2>3, <2>4
<1>6. ASSUME NEW o \in 1 .. m, o \notin 1 .. k
      PROVE  AddedBy(d, o) \in Nat /\ Counted(g[o], AddedBy(d, o))
  <2>1. AddedBy(d, o) \in {0, 1}
    BY <1>3, <1>4, OnceCounts
  <2> QED BY <1>6, <2>1 DEF Counted, k, m
<1>7. Hold(c, b) = Hold(c, d)
  BY <1>3 DEF Hold
<1>8. Counts(g, vs, Hold(c, b), d)
  <2> DEFINE L == Hold(c, b)
  <2>1. Lists(vs, L, Len(h)) /\ Counts(h, vs, L, b)
    BY <1>1, <1>2 DEF k
  <2> HIDE DEF L
  <2>2. \A o \in 1 .. Len(h) : AddedBy(b, o) = AddedBy(d, o)
    BY <1>5 DEF k
  <2>3. \A o \in 1 .. Len(g) : o \notin 1 .. Len(h) => AddedBy(d, o) \in Nat
                                                     /\ Counted(g[o], AddedBy(d, o))
    BY <1>6 DEF k, m
  <2>4. Counts(g, vs, L, d)
    BY <1>1, <2>1, <2>2, <2>3, CountsGrown
  <2> QED BY <2>4 DEF L
<1>9. \A v \in 1 .. Len(vs) : vs[v].ref_ = RefOf(c, d, v)
  BY <1>3 DEF Right, RefOf, HoldsBase, Adds1
<1>10. Phases(vs, c, d)
  BY <1>3 DEF Right, Phases, Adds1
<1>11. vs \in Seq(VersionType(m))
  BY <1>1, ListsGrow
<1> QED BY <1>1, <1>3, <1>7, <1>8, <1>9, <1>10, <1>11 DEF Right, Adds1, m

-----------------------------------------------------------------------------
(* SaveTo at one level keeps to the files it is given; until an assert     *)
(* fails, what it saved above level 0 ascends.                             *)
RangedAll(h, S) == \A o \in S : Ranged(h[o].file.smallest, h[o].file.largest)
Ascending(h, s) == \A i, j \in DOMAIN s : i < j => Less(h[s[i]].file.largest.key,
                                                        h[s[j]].file.smallest.key)
AscendingIf(h, S, level, s, ok) == RangedAll(h, S) /\ level > 0 /\ ok => Ascending(h, s)
Saved(S, level) ==
  {s \in [files : Seq(S), ok : BOOLEAN] : AscendingIf(heap, S, level, s.files, s.ok)}

LEMMA OneMoreAscends ==
  ASSUME NEW h, NEW S, RangedAll(h, S), NEW s \in Seq(S), Ascending(h, s), NEW o \in S,
         s # <<>> => Less(h[s[Len(s)]].file.largest.key, h[o].file.smallest.key)
  PROVE  Ascending(h, Append(s, o))
<1> DEFINE n == Len(s)
           t == Append(s, o)
           a(x) == h[x].file.smallest.key
           z(x) == h[x].file.largest.key
<1>1. n \in Nat /\ DOMAIN s = 1 .. n /\ \A i \in 1 .. n : s[i] \in S
  OBVIOUS
<1>2. DOMAIN t = 1 .. n + 1 /\ t[n + 1] = o /\ \A i \in 1 .. n : t[i] = s[i]
  OBVIOUS
<1>3. \A x \in S : a(x) \in Bytes /\ z(x) \in Bytes /\ LessEq(a(x), z(x))
  BY DEF RangedAll, Ranged
<1>4. \A i, j \in 1 .. n : i < j => Less(z(s[i]), a(s[j]))
  BY <1>1 DEF Ascending
<1>5. n # 0 => Less(z(s[n]), a(o))
  BY <1>1
<1> HIDE DEF t, a, z, n
<1>6. ASSUME NEW i \in 1 .. n PROVE Less(z(s[i]), a(o))
  <2>1. n # 0 /\ n \in 1 .. n
    BY <1>1
  <2>2. CASE i = n
    BY <1>5, <2>1, <2>2
  <2>3. CASE i # n
    <3>1. i < n
      BY <1>1, <2>3
    <3>2. Less(z(s[i]), a(s[n])) /\ LessEq(a(s[n]), z(s[n])) /\ Less(z(s[n]), a(o))
      BY <1>1, <1>3, <1>4, <1>5, <2>1, <3>1
    <3>3. /\ z(s[i]) \in Bytes /\ a(s[n]) \in Bytes /\ z(s[n]) \in Bytes /\ a(o) \in Bytes
      BY <1>1, <1>3, <2>1
    <3>4. Less(z(s[i]), z(s[n]))
      BY <3>2, <3>3, LessEqTransitive
    <3> QED BY <3>2, <3>3, <3>4, LessTransitive
  <2> QED BY <2>2, <2>3
<1>7. ASSUME NEW i \in 1 .. n + 1, NEW j \in 1 .. n + 1, i < j PROVE Less(z(t[i]), a(t[j]))
  <2>1. i \in 1 .. n
    BY <1>1, <1>7
  <2>2. CASE j \in 1 .. n
    BY <1>2, <1>4, <1>7, <2>1, <2>2
  <2>3. CASE j \notin 1 .. n
    <3>1. j = n + 1
      BY <1>1, <2>3
    <3> QED BY <1>2, <1>6, <2>1, <3>1
  <2> QED BY <2>2, <2>3
<1> QED BY <1>2, <1>7 DEF Ascending, t, a, z

LEMMA MaybeAdded ==
  ASSUME NEW S, NEW level, NEW s \in Saved(S, level), NEW o \in S
  PROVE  MaybeAddFile(s, level, o) \in Saved(S, level)
<1> DEFINE files == Append(s.files, o)
           ok == s.ok /\ (level > 0 => EndsBefore(s.files, o))
<1>1. s.files \in Seq(S) /\ s.ok \in BOOLEAN /\ AscendingIf(heap, S, level, s.files, s.ok)
  BY DEF Saved
<1>2. files \in Seq(S) /\ ok \in BOOLEAN
  BY <1>1
<1>3. AscendingIf(heap, S, level, files, ok)
  <2> SUFFICES ASSUME RangedAll(heap, S), level > 0, ok PROVE Ascending(heap, files)
    BY DEF AscendingIf
  <2>1. Ascending(heap, s.files) /\ EndsBefore(s.files, o)
    BY <1>1 DEF AscendingIf
  <2>2. s.files # <<>> => Less(heap[s.files[Len(s.files)]].file.largest.key,
                               heap[o].file.smallest.key)
    BY <2>1, Zenon DEF EndsBefore, file
  <2> QED BY <1>1, <2>1, <2>2, OneMoreAscends
<1> HIDE DEF files, ok
<1>4. [files |-> files, ok |-> ok] \in Saved(S, level)
  BY <1>2, <1>3 DEF Saved
<1> QED BY <1>4 DEF MaybeAddFile, files, ok

LEMMA AddAllSteps ==
  ASSUME NEW S, NEW level, NEW s \in Saved(S, level), NEW files \in Seq(S)
  PROVE  \E t : /\ AddAll(s, level, files) = t[Len(files)]
                /\ t = [i \in 0 .. Len(files) |-> IF i = 0 THEN s
                          ELSE MaybeAddFile(t[i - 1], level, files[i])]
                /\ \A i \in 0 .. Len(files) : t[i] \in Saved(S, level)
<1> DEFINE n == Len(files)
           P == Saved(S, level)
           F == [y \in P \X (1 .. n) |-> MaybeAddFile(y[1], level, files[y[2]])]
           t == CHOOSE g : g = [i \in 0 .. n |-> IF i = 0 THEN s
                                 ELSE MaybeAddFile(g[i - 1], level, files[i])]
<1>1. n \in Nat /\ \A i \in 1 .. n : files[i] \in S
  OBVIOUS
<1>2. \A y \in P : \A i \in 1 .. n : MaybeAddFile(y, level, files[i]) \in P
  BY <1>1, MaybeAdded
<1>3. AddAll(s, level, files) = t[n]
  BY Zenon DEF AddAll
<1> HIDE DEF P, n
<1>4. F \in [P \X (1 .. n) -> P]
  BY <1>2
<1>5. t = [i \in 0 .. n |-> IF i = 0 THEN s ELSE MaybeAddFile(t[i - 1], level, files[i])]
  <2>1. \A y \in P : \A i \in 1 .. n : F[<<y, i>>] = MaybeAddFile(y, level, files[i])
    BY <1>4
  <2> HIDE DEF F
  <2>2. PICK g \in [0 .. n -> P] : Iterated(g, s, n, F)
    BY <1>1, <1>4, Iterates DEF P
  <2>3. \A i \in 0 .. n : i # 0 => i \in 1 .. n /\ i - 1 \in 0 .. n
    BY <1>1
  <2>4. \A i \in 0 .. n : (IF i = 0 THEN s ELSE F[<<g[i - 1], i>>])
                        = (IF i = 0 THEN s ELSE MaybeAddFile(g[i - 1], level, files[i]))
    <3> TAKE i \in 0 .. n
    <3>1. i # 0 => i \in 1 .. n /\ g[i - 1] \in P
      BY <2>2, <2>3
    <3> QED BY <2>1, <3>1
  <2>5. g = [i \in 0 .. n |-> IF i = 0 THEN s ELSE MaybeAddFile(g[i - 1], level, files[i])]
    BY <2>2, <2>4, Zenon DEF Iterated
  <2> QED BY <2>5, Zenon
<1> HIDE DEF t
<1> DEFINE D == {i \in 0 .. n : t[i] \in P}
<1>6. 0 \in D
  <2>1. t[0] = s /\ 0 \in 0 .. n
    BY <1>1, <1>5
  <2> QED BY <2>1 DEF P
<1>7. ASSUME NEW i \in 1 .. n, i - 1 \in D PROVE i \in D
  <2>1. i \in 0 .. n /\ i # 0
    BY <1>1
  <2>2. t[i] = MaybeAddFile(t[i - 1], level, files[i])
    BY <1>5, <2>1
  <2> QED BY <1>2, <1>7, <2>1, <2>2
<1>8. \A i \in 0 .. n : t[i] \in P
  <2> HIDE DEF D
  <2>1. \A i \in 0 .. n : i \in D
    BY <1>1, <1>6, <1>7, Reaches
  <2> QED BY <2>1 DEF D
<1> QED BY <1>3, <1>5, <1>8 DEF n, P

LEMMA AddAllIs ==
  ASSUME NEW S, NEW level, NEW s \in Saved(S, level), NEW files \in Seq(S)
  PROVE  AddAll(s, level, files) \in Saved(S, level)
<1> DEFINE n == Len(files)
<1>1. n \in 0 .. n
  OBVIOUS
<1>2. PICK t : AddAll(s, level, files) = t[n] /\ \A i \in 0 .. n : t[i] \in Saved(S, level)
  BY AddAllSteps
<1> HIDE DEF n
<1> QED BY <1>1, <1>2, Zenon

(* What a bisection from place a on of n files has left.                   *)
Range1(a, n) == {r \in [first : Nat, len : Nat] : a <= r.first /\ r.first + r.len <= n + 1}

LEMMA HalveIs ==
  ASSUME NEW files, NEW x, NEW n \in Nat, NEW a \in Nat, NEW r \in Range1(a, n)
  PROVE  halve(files, x, r) \in Range1(a, n)
<1> DEFINE m == r.len
           c == r.first
           q == m \div 2
<1>1. r = [first |-> c, len |-> m] /\ m \in Nat /\ c \in Nat /\ a <= c /\ c + m <= n + 1
  BY DEF Range1
<1>2. m # 0 => q \in Nat /\ q < m
  <2> HIDE DEF m
  <2> QED BY <1>1
<1>3. halve(files, x, r) = r \/ (m # 0 /\ (halve(files, x, r) = [r EXCEPT !.len = q]
        \/ halve(files, x, r) = [first |-> c + q + 1, len |-> m - q - 1]))
  BY DEF halve
<1>4. [r EXCEPT !.len = q] = [first |-> c, len |-> q]
  <2> HIDE DEF m, c, q
  <2> QED BY <1>1
<1> HIDE DEF m, c, q
<1>5. m # 0 => [first |-> c, len |-> q] \in Range1(a, n)
  <2>1. m # 0 => c + q <= n + 1
    BY <1>1, <1>2
  <2> QED BY <1>1, <1>2, <2>1 DEF Range1
<1>6. m # 0 => [first |-> c + q + 1, len |-> m - q - 1] \in Range1(a, n)
  <2>1. m # 0 => /\ m - q - 1 \in Nat /\ c + q + 1 \in Nat /\ a <= c + q + 1
                 /\ c + q + 1 + (m - q - 1) <= n + 1
    BY <1>1, <1>2
  <2> QED BY <2>1 DEF Range1
<1> QED BY <1>3, <1>4, <1>5, <1>6

LEMMA BoundSteps ==
  ASSUME NEW S, NEW files \in Seq(S), NEW first \in 1 .. Len(files) + 1, NEW x
  PROVE  LET n == Len(files)
         IN \E t : /\ upper_bound(files, first, x) = t[n].first
                   /\ t = [i \in 0 .. n |-> IF i = 0 THEN [first |-> first, len |-> n + 1 - first]
                             ELSE halve(files, x, t[i - 1])]
                   /\ \A i \in 0 .. n : t[i] \in Range1(first, n)
<1> DEFINE n == Len(files)
           P == Range1(first, n)
           F == [y \in P \X (1 .. n) |-> halve(files, x, y[1])]
           s == [first |-> first, len |-> Len(files) + 1 - first]
           t == CHOOSE g : g = [i \in 0 .. n |-> IF i = 0 THEN s ELSE halve(files, x, g[i - 1])]
<1>1. n \in Nat /\ first \in Nat /\ first >= 1
  OBVIOUS
<1>2. \A y \in P : halve(files, x, y) \in P
  BY <1>1, HalveIs
<1>3. upper_bound(files, first, x) = t[n].first
  BY Zenon DEF upper_bound
<1>4. s \in P
  <2>1. n + 1 - first \in Nat /\ first + (n + 1 - first) <= n + 1
    BY <1>1
  <2> QED BY <1>1, <2>1 DEF Range1
<1> HIDE DEF P, n, s
<1>5. F \in [P \X (1 .. n) -> P]
  BY <1>2
<1>6. \E g \in [0 .. n -> P] :
        g = [i \in 0 .. n |-> IF i = 0 THEN s ELSE halve(files, x, g[i - 1])]
  <2>1. \A y \in P : \A i \in 1 .. n : F[<<y, i>>] = halve(files, x, y)
    BY <1>5
  <2> HIDE DEF F
  <2>2. PICK g \in [0 .. n -> P] : Iterated(g, s, n, F)
    BY <1>1, <1>4, <1>5, Iterates
  <2>3. \A i \in 0 .. n : i # 0 => i \in 1 .. n /\ i - 1 \in 0 .. n
    BY <1>1
  <2>4. \A i \in 0 .. n : (IF i = 0 THEN s ELSE F[<<g[i - 1], i>>])
                        = (IF i = 0 THEN s ELSE halve(files, x, g[i - 1]))
    <3> TAKE i \in 0 .. n
    <3>1. i # 0 => i \in 1 .. n /\ g[i - 1] \in P
      BY <2>2, <2>3
    <3> QED BY <2>1, <3>1
  <2>5. g = [i \in 0 .. n |-> IF i = 0 THEN s ELSE halve(files, x, g[i - 1])]
    BY <2>2, <2>4, Zenon DEF Iterated
  <2> QED BY <2>2, <2>5
<1>7. t = [i \in 0 .. n |-> IF i = 0 THEN s ELSE halve(files, x, t[i - 1])]
  BY <1>6, Zenon
<1> HIDE DEF t
<1> DEFINE D == {i \in 0 .. n : t[i] \in P}
<1>8. 0 \in D
  <2>1. t[0] = s /\ 0 \in 0 .. n
    BY <1>1, <1>7
  <2> QED BY <1>4, <2>1
<1>9. ASSUME NEW i \in 1 .. n, i - 1 \in D PROVE i \in D
  <2>1. i \in 0 .. n /\ i # 0
    BY <1>1
  <2>2. t[i] = halve(files, x, t[i - 1])
    BY <1>7, <2>1
  <2> QED BY <1>2, <1>9, <2>1, <2>2
<1>10. \A i \in 0 .. n : t[i] \in P
  <2> HIDE DEF D
  <2>1. \A i \in 0 .. n : i \in D
    BY <1>1, <1>8, <1>9, Reaches
  <2> QED BY <2>1 DEF D
<1> QED BY <1>3, <1>7, <1>10 DEF n, s, P

LEMMA BoundIs ==
  ASSUME NEW S, NEW files \in Seq(S), NEW first \in 1 .. Len(files) + 1, NEW x
  PROVE  upper_bound(files, first, x) \in first .. Len(files) + 1
<1> DEFINE n == Len(files)
<1>1. n \in Nat /\ first \in Nat /\ first >= 1
  OBVIOUS
<1>2. PICK t : /\ upper_bound(files, first, x) = t[n].first
               /\ \A i \in 0 .. n : t[i] \in Range1(first, n)
  BY BoundSteps
<1> HIDE DEF n
<1>3. n \in 0 .. n
  BY <1>1
<1>4. t[n].first \in Nat /\ t[n].len \in Nat /\ first <= t[n].first
      /\ t[n].first + t[n].len <= n + 1
  BY <1>2, <1>3 DEF Range1
<1>5. t[n].first \in first .. n + 1
  <2> DEFINE a == t[n].first
             b == t[n].len
  <2>1. a \in Nat /\ b \in Nat /\ first <= a /\ a + b <= n + 1
    BY <1>4
  <2> HIDE DEF a, b
  <2>2. a \in first .. n + 1
    BY <1>1, <2>1
  <2> QED BY <2>2 DEF a
<1> QED BY <1>2, <1>5 DEF n

(* The rounds of a SaveTo: what was saved and the place in the base.       *)
Round(S, level, n) ==
  {s \in [files : Seq(S), ok : BOOLEAN, iter : 1 .. n + 1] :
     AscendingIf(heap, S, level, s.files, s.ok)}

LEMMA SubList ==
  ASSUME NEW S, NEW s \in Seq(S), NEW m \in 1 .. Len(s) + 1, NEW n \in 0 .. Len(s)
  PROVE  SubSeq(s, m, n) \in Seq(S)
<1>1. CASE m <= n + 1
  <2>1. m \in 1 .. Len(s) + 1 /\ n \in m - 1 .. Len(s)
    BY <1>1
  <2> QED BY <2>1, SubSeqProperties
<1>2. CASE ~ (m <= n + 1)
  <2>1. SubSeq(s, m, n) = <<>>
    BY <1>2, SubSeqEmpty, SMT
  <2> QED BY <2>1
<1> QED BY <1>1, <1>2

LEMMA AddUpToIs ==
  ASSUME NEW S, NEW base \in Seq(S), NEW level, NEW s \in Round(S, level, Len(base)), NEW o \in S
  PROVE  addUpTo(s, level, base, o) \in Round(S, level, Len(base))
<1> DEFINE n == Len(base)
           q == upper_bound(base, s.iter, o)
           a == SubSeq(base, s.iter, q - 1)
           t == AddAll([files |-> s.files, ok |-> s.ok], level, Append(a, o))
<1>1. /\ n \in Nat /\ s.iter \in 1 .. n + 1 /\ s.files \in Seq(S) /\ s.ok \in BOOLEAN
      /\ AscendingIf(heap, S, level, s.files, s.ok)
  BY DEF Round
<1>2. q \in s.iter .. n + 1
  BY <1>1, BoundIs
<1>3. q \in 1 .. n + 1 /\ q - 1 \in 0 .. n
  <2> HIDE DEF q, n
  <2> QED BY <1>1, <1>2
<1>4. a \in Seq(S)
  <2> HIDE DEF q
  <2> QED BY <1>1, <1>3, SubList
<1>5. Append(a, o) \in Seq(S)
  <2> HIDE DEF a
  <2> QED BY <1>4
<1>6. [files |-> s.files, ok |-> s.ok] \in Saved(S, level)
  BY <1>1 DEF Saved
<1>7. t \in Saved(S, level)
  <2> HIDE DEF a
  <2> QED BY <1>5, <1>6, AddAllIs
<1>8. addUpTo(s, level, base, o) = [files |-> t.files, ok |-> t.ok, iter |-> q]
  BY DEF addUpTo
<1> HIDE DEF t, q, n
<1>9. t.files \in Seq(S) /\ t.ok \in BOOLEAN /\ AscendingIf(heap, S, level, t.files, t.ok)
  BY <1>7 DEF Saved
<1>10. [files |-> t.files, ok |-> t.ok, iter |-> q] \in Round(S, level, n)
  BY <1>3, <1>9 DEF Round
<1> QED BY <1>8, <1>10 DEF n

LEMMA SaveAddedSteps ==
  ASSUME NEW S, NEW level, versions[builder.base_].files_[level] \in Seq(S),
         builder.added_files[level] \in Seq(S)
  PROVE  LET base == versions[builder.base_].files_[level]
             added == builder.added_files[level]
         IN \E t : /\ saveAdded(level) = t[Len(added)]
                   /\ t = [i \in 0 .. Len(added) |->
                             IF i = 0 THEN [files |-> <<>>, ok |-> TRUE, iter |-> 1]
                             ELSE addUpTo(t[i - 1], level, base, added[i])]
                   /\ \A i \in 0 .. Len(added) : t[i] \in Round(S, level, Len(base))
<1> DEFINE base == versions[builder.base_].files_[level]
           added == builder.added_files[level]
           n == Len(added)
           P == Round(S, level, Len(base))
           F == [y \in P \X (1 .. n) |-> addUpTo(y[1], level, base, added[y[2]])]
           s == [files |-> <<>>, ok |-> TRUE, iter |-> 1]
           t == CHOOSE g : g = [i \in 0 .. n |-> IF i = 0 THEN s
                                 ELSE addUpTo(g[i - 1], level, base, added[i])]
<1>1. base \in Seq(S) /\ n \in Nat /\ \A i \in 1 .. n : added[i] \in S
  OBVIOUS
<1>2. saveAdded(level) = t[n]
  BY Zenon DEF saveAdded
<1> HIDE DEF base, added, n
<1>3. \A y \in P : \A i \in 1 .. n : addUpTo(y, level, base, added[i]) \in P
  BY <1>1, AddUpToIs
<1>4. s \in P
  <2>1. /\ <<>> \in Seq(S) /\ 1 \in 1 .. Len(base) + 1 /\ TRUE \in BOOLEAN
        /\ AscendingIf(heap, S, level, <<>>, TRUE)
    BY <1>1 DEF AscendingIf, Ascending
  <2> QED BY <2>1 DEF Round
<1> HIDE DEF P, s
<1>5. F \in [P \X (1 .. n) -> P]
  BY <1>3
<1>6. \E g \in [0 .. n -> P] :
        g = [i \in 0 .. n |-> IF i = 0 THEN s ELSE addUpTo(g[i - 1], level, base, added[i])]
  <2>1. \A y \in P : \A i \in 1 .. n : F[<<y, i>>] = addUpTo(y, level, base, added[i])
    BY <1>5
  <2> HIDE DEF F
  <2>2. PICK g \in [0 .. n -> P] : Iterated(g, s, n, F)
    BY <1>1, <1>4, <1>5, Iterates
  <2>3. \A i \in 0 .. n : i # 0 => i \in 1 .. n /\ i - 1 \in 0 .. n
    BY <1>1
  <2>4. \A i \in 0 .. n : (IF i = 0 THEN s ELSE F[<<g[i - 1], i>>])
                        = (IF i = 0 THEN s ELSE addUpTo(g[i - 1], level, base, added[i]))
    <3> TAKE i \in 0 .. n
    <3>1. i # 0 => i \in 1 .. n /\ g[i - 1] \in P
      BY <2>2, <2>3
    <3> QED BY <2>1, <3>1
  <2>5. g = [i \in 0 .. n |-> IF i = 0 THEN s ELSE addUpTo(g[i - 1], level, base, added[i])]
    BY <2>2, <2>4, Zenon DEF Iterated
  <2> QED BY <2>2, <2>5
<1>7. t = [i \in 0 .. n |-> IF i = 0 THEN s ELSE addUpTo(t[i - 1], level, base, added[i])]
  BY <1>6, Zenon
<1> HIDE DEF t
<1> DEFINE D == {i \in 0 .. n : t[i] \in P}
<1>8. 0 \in D
  <2>1. t[0] = s /\ 0 \in 0 .. n
    BY <1>1, <1>7
  <2> QED BY <1>4, <2>1
<1>9. ASSUME NEW i \in 1 .. n, i - 1 \in D PROVE i \in D
  <2>1. i \in 0 .. n /\ i # 0
    BY <1>1
  <2>2. t[i] = addUpTo(t[i - 1], level, base, added[i])
    BY <1>7, <2>1
  <2> QED BY <1>3, <1>9, <2>1, <2>2
<1>10. \A i \in 0 .. n : t[i] \in P
  <2> HIDE DEF D
  <2>1. \A i \in 0 .. n : i \in D
    BY <1>1, <1>8, <1>9, Reaches
  <2> QED BY <2>1 DEF D
<1> QED BY <1>2, <1>7, <1>10 DEF P, base, n, s, added

LEMMA SaveAddedIs ==
  ASSUME NEW S, NEW level, versions[builder.base_].files_[level] \in Seq(S),
         builder.added_files[level] \in Seq(S)
  PROVE  saveAdded(level) \in Round(S, level, Len(versions[builder.base_].files_[level]))
<1> DEFINE n == Len(builder.added_files[level])
           m == Len(versions[builder.base_].files_[level])
<1>1. n \in 0 .. n
  OBVIOUS
<1>2. PICK t : saveAdded(level) = t[n] /\ \A i \in 0 .. n : t[i] \in Round(S, level, m)
  BY SaveAddedSteps
<1> HIDE DEF n, m
<1>3. saveAdded(level) \in Round(S, level, m)
  BY <1>1, <1>2, Zenon
<1> QED BY <1>3 DEF m

LEMMA SaveLevelIs ==
  ASSUME NEW S, NEW level, versions[builder.base_].files_[level] \in Seq(S),
         builder.added_files[level] \in Seq(S)
  PROVE  saveLevel(level) \in Saved(S, level)
<1> DEFINE base == versions[builder.base_].files_[level]
           s == saveAdded(level)
           r == SubSeq(base, s.iter, Len(base))
<1>1. s \in Round(S, level, Len(base))
  BY SaveAddedIs
<1>2. saveLevel(level) = AddAll([files |-> s.files, ok |-> s.ok], level, r)
  BY DEF saveLevel
<1>3. base \in Seq(S)
  OBVIOUS
<1> HIDE DEF s, base
<1>4. s.iter \in 1 .. Len(base) + 1 /\ [files |-> s.files, ok |-> s.ok] \in Saved(S, level)
  BY <1>1 DEF Round, Saved
<1>5. Len(base) \in 0 .. Len(base)
  BY <1>3
<1>6. r \in Seq(S)
  BY <1>3, <1>4, <1>5, SubList
<1> HIDE DEF r
<1> QED BY <1>2, <1>4, <1>6, AddAllIs

-----------------------------------------------------------------------------
(* Each action keeps the counters right.                                   *)
LEMMA FromThese ==
  ASSUME NEW T, NEW s \in Seq(T)
  PROVE  s \in Seq({x \in T : Has(s, x)}) /\ \A S : {x \in T : Has(s, x)} \subseteq S => s \in Seq(S)
<1> DEFINE R == {x \in T : Has(s, x)}
<1>1. Len(s) \in Nat /\ DOMAIN s = 1 .. Len(s) /\ s = [i \in 1 .. Len(s) |-> s[i]]
  OBVIOUS
<1>2. \A i \in 1 .. Len(s) : s[i] \in R
  BY <1>1 DEF Has
<1> HIDE DEF R
<1>3. ASSUME NEW S, R \subseteq S PROVE s \in Seq(S)
  <2>1. \A i \in 1 .. Len(s) : s[i] \in S
    BY <1>2, <1>3
  <2> QED BY <1>1, <2>1, MadeSeq
<1> QED BY <1>3 DEF R

LEMMA SavedFiles ==
  ASSUME Right(heap, versions, current_, builder), builder.phase = "open",
         NEW files, files = [level \in Level |-> saveLevel(level).files]
  PROVE  /\ files \in FileLists(Len(heap))
         /\ From(files, versions[current_].files_, builder.added_files)
         /\ \A level \in Level : AscendingIf(heap, 1 .. Len(heap), level, files[level],
                                             saveLevel(level).ok)
<1> DEFINE k == Len(heap)
           base == versions[current_].files_
           added == builder.added_files
           S(l) == {x \in 1 .. k : Has(base[l], x)} \cup {x \in 1 .. k : Has(added[l], x)}
<1>1. base \in FileLists(k) /\ added \in FileLists(k)
  BY RightSays, VersionsOf DEF Right, IsBuilder
<1>2. builder.base_ = current_
  BY DEF Right, Phases
<1>3. ASSUME NEW l \in Level
      PROVE  /\ files[l] \in Seq(1 .. k)
             /\ \A i \in DOMAIN files[l] : Has(base[l], files[l][i]) \/ Has(added[l], files[l][i])
             /\ AscendingIf(heap, 1 .. k, l, files[l], saveLevel(l).ok)
  <2>1. base[l] \in Seq(1 .. k) /\ added[l] \in Seq(1 .. k)
    BY <1>1 DEF FileLists
  <2>2. base[l] \in Seq(S(l)) /\ added[l] \in Seq(S(l))
    <3> HIDE DEF base, added, k
    <3>1. /\ {x \in 1 .. k : Has(base[l], x)} \subseteq S(l)
          /\ {x \in 1 .. k : Has(added[l], x)} \subseteq S(l)
      OBVIOUS
    <3> HIDE DEF S
    <3> QED BY <2>1, <3>1, FromThese
  <2> HIDE DEF S
  <2>3. saveLevel(l) \in Saved(S(l), l)
    BY <1>2, <2>2, SaveLevelIs
  <2>4. files[l] \in Seq(S(l)) /\ AscendingIf(heap, S(l), l, files[l], saveLevel(l).ok)
    BY <2>3 DEF Saved
  <2>5. S(l) \subseteq 1 .. k /\ \A x \in S(l) : Has(base[l], x) \/ Has(added[l], x)
    BY DEF S
  <2>6. \A i \in DOMAIN files[l] : files[l][i] \in S(l)
    BY <2>4
  <2>7. files[l] \in Seq(1 .. k)
    BY <2>4, <2>5
  <2>8. AscendingIf(heap, 1 .. k, l, files[l], saveLevel(l).ok)
    BY <2>4, <2>5 DEF AscendingIf, RangedAll
  <2> QED BY <2>5, <2>6, <2>7, <2>8
<1> HIDE DEF base, added, k
<1>4. files \in FileLists(k)
  BY <1>3 DEF FileLists
<1>5. From(files, base, added)
  BY <1>3 DEF From, Has
<1> QED BY <1>3, <1>4, <1>5 DEF k, base, added

LEMMA SaveStep ==
  ASSUME Right(heap, versions, current_, builder), SaveTo
  PROVE  Right(heap', versions', current_', builder')
<1> DEFINE files == [level \in Level |-> saveLevel(level).files]
<1>1. builder.phase = "open" /\ current_' = current_
  BY DEF SaveTo
<1>2. /\ files \in FileLists(Len(heap))
      /\ From(files, versions[current_].files_, builder.added_files)
  BY <1>1, SavedFiles
<1>3. \/ /\ heap' = counted(heap, files)
         /\ versions' = Append(versions, [files_ |-> files, ref_ |-> 0])
         /\ builder' = [builder EXCEPT !.phase = "saved", !.v = Len(versions) + 1]
      \/ /\ builder' = [builder EXCEPT !.phase = "aborted"]
         /\ UNCHANGED <<heap, versions>>
  <2> DEFINE saved == [level \in Level |-> saveLevel(level)]
             made == [level \in Level |-> saved[level].files]
  <2>1. made = files
    OBVIOUS
  <2>2. \/ /\ heap' = counted(heap, made)
           /\ versions' = Append(versions, [files_ |-> made, ref_ |-> 0])
           /\ builder' = [builder EXCEPT !.phase = "saved", !.v = Len(versions) + 1]
        \/ /\ builder' = [builder EXCEPT !.phase = "aborted"]
           /\ UNCHANGED <<heap, versions>>
    BY Zenon DEF SaveTo
  <2> HIDE DEF made, files
  <2> QED BY <2>1, <2>2, Zenon
<1> HIDE DEF files
<1>4. CASE /\ heap' = counted(heap, files)
           /\ versions' = Append(versions, [files_ |-> files, ref_ |-> 0])
           /\ builder' = [builder EXCEPT !.phase = "saved", !.v = Len(versions) + 1]
  <2>1. Right(counted(heap, files), Append(versions, [files_ |-> files, ref_ |-> 0]), current_,
               [builder EXCEPT !.phase = "saved", !.v = Len(versions) + 1])
    BY <1>1, <1>2, SaveMade
  <2> QED BY <1>1, <1>4, <2>1, Zenon
<1>5. CASE builder' = [builder EXCEPT !.phase = "aborted"] /\ UNCHANGED <<heap, versions>>
  <2>1. Right(heap, versions, current_, [builder EXCEPT !.phase = "aborted"])
    BY <1>1, AbortRight
  <2>2. heap' = heap /\ versions' = versions
    BY <1>5
  <2> QED BY <1>1, <1>5, <2>1, <2>2, Zenon
<1> QED BY <1>3, <1>4, <1>5, Zenon

LEMMA StartStep ==
  ASSUME Right(heap, versions, current_, builder), Builder
  PROVE  Right(heap', versions', current_', builder')
<1>1. /\ builder.phase = "none"
      /\ builder' = [NoBuilder EXCEPT !.phase = "open", !.base_ = current_]
      /\ versions' = [versions EXCEPT ![current_].ref_ = @ + 1]
      /\ heap' = heap /\ current_' = current_
  BY Zenon DEF Builder
<1>2. Right(heap, [versions EXCEPT ![current_].ref_ = @ + 1], current_,
            [NoBuilder EXCEPT !.phase = "open", !.base_ = current_])
  BY <1>1, StartMade
<1> QED BY <1>1, <1>2, Zenon

LEMMA AppendStep ==
  ASSUME Right(heap, versions, current_, builder), AppendVersion
  PROVE  Right(heap', versions', current_', builder')
<1> DEFINE ws == [VersionUnref(versions, current_) EXCEPT ![builder.v].ref_ = 1]
           d == IF builder.phase = "deleted" THEN NoBuilder
                ELSE [builder EXCEPT !.installed = TRUE]
<1>1. /\ builder.v # 0 /\ ~ builder.installed
      /\ heap' = FilesUnref(heap, versions, current_)
      /\ versions' = ws /\ current_' = builder.v /\ builder' = d
  BY Zenon DEF AppendVersion
<1>2. Right(FilesUnref(heap, versions, current_), ws, builder.v, d)
  BY <1>1, AppendRight
<1> HIDE DEF ws, d
<1> QED BY <1>1, <1>2, Zenon

LEMMA EndStep ==
  ASSUME Right(heap, versions, current_, builder), deleteBuilder
  PROVE  Right(heap', versions', current_', builder')
<1> DEFINE ws == VersionUnref(versions, builder.base_)
           d == IF builder.installed THEN NoBuilder ELSE [builder EXCEPT !.phase = "deleted"]
           g == Released(heap, builder.added_files)
<1>1. released(heap) = g
  BY Zenon DEF released, Released
<1>2. /\ builder.phase = "saved"
      /\ heap' = FilesUnref(released(heap), versions, builder.base_)
      /\ versions' = ws /\ current_' = current_ /\ builder' = d
  BY Zenon DEF deleteBuilder
<1>3. Right(FilesUnref(g, versions, builder.base_), ws, current_, d)
  BY <1>2, EndRight
<1> HIDE DEF ws, d, g
<1> QED BY <1>1, <1>2, <1>3, Zenon

LEMMA ApplyStep ==
  ASSUME Right(heap, versions, current_, builder), NEW r, apply(r)
  PROVE  Right(heap', versions', current_', builder')
<1> DEFINE o == [file |-> NewFileEdit(0, r, {}).new_files_[1].file, refs |-> 0, deleted |-> FALSE]
           k == Len(heap)
           g == Append(heap, o)
           base == versions[current_].files_
           files == [base EXCEPT ![0] = Append(@, k + 1)]
           ws == Append(VersionUnref(versions, current_), [files_ |-> files, ref_ |-> 1])
<1>1. /\ builder.phase = "none" /\ builder' = builder
      /\ heap' = FilesUnref(counted(g, files), versions, current_)
      /\ versions' = ws /\ current_' = Len(versions) + 1
  BY Zenon DEF apply
<1>2. Object(o) /\ o.refs = 0 /\ ~ o.deleted
  BY DEF Object
<1>3. IsHeap(heap) /\ k \in Nat
  BY RightSays DEF Right
<1> HIDE DEF o
<1>4. Grown(heap, g) /\ Len(g) = k + 1 /\ g[k + 1] = o
  BY <1>2, <1>3, ObjectAdded
<1>5. base \in FileLists(k)
  BY RightSays, VersionsOf
<1> HIDE DEF g, base
<1>6. AtEnd(files, base, k + 1)
  <2> HIDE DEF k
  <2> QED BY <1>3, <1>5, AtTheEnd
<1>7. AtEnd(files, versions[current_].files_, Len(g)) /\ ~ g[Len(g)].deleted /\ g[Len(g)].refs = 0
  BY <1>2, <1>4, <1>6 DEF base
<1> HIDE DEF files
<1>8. Right(FilesUnref(counted(g, files), versions, current_), ws, Len(versions) + 1, builder)
  BY <1>1, <1>4, <1>7, ApplyRight
<1> HIDE DEF ws
<1> QED BY <1>1, <1>8, Zenon

(* The objects of an edit's new files.                                     *)
NewObjects(s) == [i \in DOMAIN s |-> [file |-> s[i].file, refs |-> 1, deleted |-> FALSE]]
IsList(s) == Len(s) \in Nat /\ s = [i \in 1 .. Len(s) |-> s[i]]

LEMMA ObjectsAdded ==
  ASSUME NEW h, IsHeap(h), NEW s, IsList(s)
  PROVE  /\ Grown(h, h \o NewObjects(s)) /\ Len(h \o NewObjects(s)) = Len(h) + Len(s)
         /\ \A o \in 1 .. Len(h) + Len(s) : o \notin 1 .. Len(h) =>
              /\ ~ (h \o NewObjects(s))[o].deleted /\ (h \o NewObjects(s))[o].refs = 1
              /\ \E i \in DOMAIN s : (h \o NewObjects(s))[o].file = s[i].file
<1> DEFINE k == Len(h)
           n == Len(s)
           x == NewObjects(s)
           g == h \o x
<1>1. k \in Nat /\ h = [o \in 1 .. k |-> h[o]]
  BY HeapIs DEF IsHeap
<1>2. n \in Nat /\ DOMAIN s = 1 .. n
  BY DEF IsList
<1>3. /\ x = [i \in 1 .. n |-> x[i]]
      /\ \A i \in 1 .. n : x[i] = [file |-> s[i].file, refs |-> 1, deleted |-> FALSE]
  <2> HIDE DEF n
  <2> QED BY <1>2 DEF NewObjects
<1>4. ASSUME NEW i \in 1 .. n
      PROVE  Object(x[i]) /\ x[i].refs = 1 /\ ~ x[i].deleted /\ x[i].file = s[i].file
  <2> DEFINE y == [file |-> s[i].file, refs |-> 1, deleted |-> FALSE]
  <2>1. Object(y) /\ y.refs = 1 /\ ~ y.deleted /\ y.file = s[i].file
    BY DEF Object
  <2>2. x[i] = y
    BY <1>3
  <2> HIDE DEF x, y
  <2> QED BY <2>1, <2>2
<1> DEFINE S == {h[o] : o \in 1 .. k} \cup {x[i] : i \in 1 .. n}
<1>5. h \in Seq(S)
  <2>1. \A o \in 1 .. k : h[o] \in S
    OBVIOUS
  <2> HIDE DEF S, k
  <2> QED BY <1>1, <2>1, MadeSeq
<1>6. x \in Seq(S) /\ Len(x) = n
  <2>1. \A i \in 1 .. n : x[i] \in S
    OBVIOUS
  <2> HIDE DEF S, n, x
  <2> QED BY <1>2, <1>3, <2>1, MadeSeq
<1> HIDE DEF S, x
<1>7. /\ g \in Seq(S) /\ Len(g) = k + n
      /\ \A o \in 1 .. k + n : g[o] = IF o <= k THEN h[o] ELSE x[o - k]
  <2>1. /\ g \in Seq(S) /\ Len(g) = Len(h) + Len(x)
        /\ \A o \in 1 .. Len(h) + Len(x) : g[o] = IF o <= Len(h) THEN h[o] ELSE x[o - Len(h)]
    BY <1>5, <1>6, ConcatProperties
  <2> HIDE DEF g, n
  <2> QED BY <1>6, <2>1
<1> HIDE DEF g, k, n
<1>8. \A o \in 1 .. k : o \in 1 .. k + n /\ g[o] = h[o]
  BY <1>1, <1>2, <1>7
<1>9. \A o \in 1 .. k + n : o \notin 1 .. k => o - k \in 1 .. n /\ g[o] = x[o - k]
  BY <1>1, <1>2, <1>7
<1>10. \A o \in 1 .. k : Object(h[o])
  BY DEF IsHeap, k
<1>11. \A o \in 1 .. k + n : Object(g[o])
  BY <1>4, <1>8, <1>9, <1>10
<1>12. g = [o \in 1 .. k + n |-> g[o]]
  <2>1. g = [o \in 1 .. Len(g) |-> g[o]]
    BY <1>7
  <2> QED BY <1>7, <2>1
<1>13. k + n \in Nat /\ k <= k + n
  BY <1>1, <1>2
<1>14. IsHeap(g) /\ Len(g) = k + n
  BY <1>11, <1>12, <1>13, HeapMade
<1>15. Grown(h, g)
  BY <1>8, <1>13, <1>14 DEF Grown, k
<1>16. \A o \in 1 .. k + n : o \notin 1 .. k =>
         ~ g[o].deleted /\ g[o].refs = 1 /\ \E i \in DOMAIN s : g[o].file = s[i].file
  BY <1>2, <1>4, <1>9
<1> QED BY <1>14, <1>15, <1>16 DEF g, k, n, x

(* A level of the Builder's files, with those of an edit's new objects.    *)
AddedAt(s, l) == {i \in DOMAIN s : s[i].level = l}
WithNew(files, s, h) == [l \in Level |-> insertNew(files[l], AddedAt(s, l), Len(s), h)]

LEMMA WithNewIs ==
  ASSUME Len(heap) \in Nat, NEW s, IsList(s), NEW files \in FileLists(Len(heap)), Once(files),
         NEW h
  PROVE  /\ WithNew(files, s, h) \in FileLists(Len(heap) + Len(s)) /\ Once(WithNew(files, s, h))
         /\ \A o \in 1 .. Len(heap) : (\E l \in Level : Has(WithNew(files, s, h)[l], o))
                                        <=> \E l \in Level : Has(files[l], o)
<1> DEFINE k == Len(heap)
           n == Len(s)
           w == WithNew(files, s, h)
           at(l) == AddedAt(s, l)
<1>1. n \in Nat /\ k \in Nat
  BY DEF IsList
<1>2. ASSUME NEW l \in Level
      PROVE  /\ w[l] \in Seq(1 .. k + n) /\ Distinct(w[l])
             /\ \A x \in 1 .. k : Has(w[l], x) <=> Has(files[l], x)
             /\ \A i \in 1 .. n : Has(w[l], k + i) => i \in at(l)
  <2> DEFINE a == at(l)
             b == files[l]
  <2>1. b \in Seq(1 .. k) /\ Distinct(b)
    BY DEF FileLists, Once, Distinct
  <2>2. w[l] = insertNew(b, a, n, h)
    BY DEF WithNew
  <2> HIDE DEF n, a, b, w
  <2>3. /\ insertNew(b, a, n, h) \in Seq(1 .. k + n) /\ Distinct(insertNew(b, a, n, h))
        /\ \A x \in 1 .. k : Has(insertNew(b, a, n, h), x) <=> Has(b, x)
        /\ \A i \in 1 .. n : Has(insertNew(b, a, n, h), k + i) => i \in a
    BY <1>1, <2>1, InsertNewIs
  <2> QED BY <2>2, <2>3 DEF a, b
<1>3. w = [l \in Level |-> w[l]]
  BY DEF WithNew
<1> HIDE DEF w, n, k
<1>4. w \in FileLists(k + n)
  BY <1>2, <1>3 DEF FileLists
<1>5. \A x \in 1 .. k + n : x \in 1 .. k \/ \E i \in 1 .. n : x = k + i
  <2> TAKE x \in 1 .. k + n
  <2>1. CASE x \in 1 .. k
    BY <2>1
  <2>2. CASE x \notin 1 .. k
    <3>1. x - k \in 1 .. n /\ x = k + (x - k)
      BY <1>1, <2>2
    <3> QED BY <3>1
  <2> QED BY <2>1, <2>2
<1>6. \A l, m \in Level, x \in 1 .. k : Has(files[l], x) /\ Has(files[m], x) => l = m
  BY DEF Once, Has
<1>7. \A l, m \in Level, i \in 1 .. n : i \in at(l) /\ i \in at(m) => l = m
  BY DEF AddedAt
<1>8. ASSUME NEW l \in Level, NEW m \in Level, NEW x \in 1 .. k + n, Has(w[l], x), Has(w[m], x)
      PROVE  l = m
  <2>1. CASE x \in 1 .. k
    BY <1>2, <1>6, <1>8, <2>1
  <2>2. ASSUME NEW i \in 1 .. n, x = k + i PROVE l = m
    <3>1. i \in at(l) /\ i \in at(m)
      BY <1>2, <1>8, <2>2
    <3> QED BY <1>7, <3>1
  <2> QED BY <1>5, <2>1, <2>2
<1>9. ASSUME NEW l \in Level, NEW m \in Level, NEW i \in DOMAIN w[l], NEW j \in DOMAIN w[m],
             w[l][i] = w[m][j]
      PROVE  l = m /\ i = j
  <2>1. w[l][i] \in 1 .. k + n
    <3> DEFINE S == 1 .. k + n
    <3>1. w[l] \in Seq(S)
      BY <1>2
    <3> HIDE DEF S
    <3>2. w[l][i] \in S
      BY <3>1
    <3> QED BY <3>2 DEF S
  <2>2. l = m
    BY <1>8, <1>9, <2>1 DEF Has
  <2> QED BY <1>2, <1>9, <2>2 DEF Distinct
<1>10. Once(w)
  BY <1>9 DEF Once
<1>11. \A o \in 1 .. k : (\E l \in Level : Has(w[l], o)) <=> \E l \in Level : Has(files[l], o)
  BY <1>2
<1> QED BY <1>4, <1>10, <1>11 DEF w, n, k

LEMMA EditStep ==
  ASSUME Right(heap, versions, current_, builder), builder.phase = "open",
         NEW e, IsList(e.new_files_), Apply(e)
  PROVE  Right(heap', versions, current_, builder')
<1> DEFINE s == e.new_files_
           k == Len(heap)
           h == heap \o NewObjects(s)
           D == [level \in Level |->
                   (builder.deleted_files[level]
                      \cup {d[2] : d \in {x \in e.deleted_files_ : x[1] = level}})
                     \ {s[i].file.number : i \in AddedAt(s, level)}]
           W == WithNew(builder.added_files, s, h)
           d == [builder EXCEPT !.deleted_files = D, !.added_files = W]
<1>1. heap' = h /\ builder' = d
  <2>1. heap' = h
    BY DEF Apply, NewObjects
  <2>2. builder' = [builder EXCEPT
             !.deleted_files =
               [level \in Level |->
                  (@[level] \cup {y[2] : y \in {x \in e.deleted_files_ : x[1] = level}})
                    \ {s[i].file.number : i \in AddedAt(s, level)}],
             !.added_files =
               [level \in Level |-> insertNew(@[level], AddedAt(s, level), Len(s), h)]]
    BY Zenon DEF Apply, NewObjects, AddedAt
  <2> QED BY <2>1, <2>2 DEF WithNew
<1>2. IsHeap(heap) /\ k \in Nat /\ IsBuilder(builder, k) /\ Once(builder.added_files)
  BY RightSays DEF Right
<1>3. IsList(s)
  OBVIOUS
<1>4. builder.added_files \in FileLists(k)
  BY <1>2 DEF IsBuilder
<1> HIDE DEF s
<1>5. /\ Grown(heap, h) /\ Len(h) = k + Len(s)
      /\ \A o \in 1 .. k + Len(s) : o \notin 1 .. k => ~ h[o].deleted /\ h[o].refs = 1
  BY <1>2, <1>3, ObjectsAdded
<1> HIDE DEF h
<1>6. /\ W \in FileLists(k + Len(s)) /\ Once(W)
      /\ \A o \in 1 .. k : (\E l \in Level : Has(W[l], o))
                             <=> \E l \in Level : Has(builder.added_files[l], o)
  BY <1>2, <1>3, <1>4, WithNewIs
<1> HIDE DEF W, D
<1>7. /\ d.added_files = W /\ d.phase = builder.phase /\ d.base_ = builder.base_
      /\ d.v = builder.v /\ d.installed = builder.installed
      /\ d = [phase |-> d.phase, base_ |-> d.base_, deleted_files |-> d.deleted_files,
              added_files |-> d.added_files, v |-> d.v, installed |-> d.installed]
  <2> DEFINE c == [builder EXCEPT !.deleted_files = D]
  <2>1. /\ c.phase = builder.phase /\ c.base_ = builder.base_ /\ c.v = builder.v
        /\ c.installed = builder.installed
        /\ c = [phase |-> c.phase, base_ |-> c.base_, deleted_files |-> c.deleted_files,
                added_files |-> c.added_files, v |-> c.v, installed |-> c.installed]
    BY <1>2 DEF IsBuilder
  <2>2. d = [c EXCEPT !.added_files = W]
    OBVIOUS
  <2> HIDE DEF c, d
  <2> QED BY <2>1, <2>2
<1> HIDE DEF d
<1>8. Adds1(d, builder, k, Len(h))
  BY <1>5, <1>6, <1>7 DEF Adds1, IsBuilder
<1>9. \A o \in 1 .. Len(h) : o \notin 1 .. k => ~ h[o].deleted /\ h[o].refs = 1
  BY <1>5
<1>10. Right(h, versions, current_, d)
  BY <1>5, <1>8, <1>9, AddRight
<1> QED BY <1>1, <1>10, Zenon

(* The edits that a Builder is given list their new files.                 *)
LEMMA MadeList ==
  ASSUME NEW n \in Int, NEW s, s = [i \in 1 .. n |-> s[i]]
  PROVE  IsList(s)
<1> DEFINE m == IF n > 0 THEN n ELSE 0
           S == {s[i] : i \in 1 .. m}
<1>1. m \in Nat /\ 1 .. n = 1 .. m
  OBVIOUS
<1>2. \A i \in 1 .. m : s[i] \in S
  OBVIOUS
<1> HIDE DEF m, S
<1>3. s = [i \in 1 .. m |-> s[i]]
  BY <1>1, Zenon
<1>4. Len(s) = m
  BY <1>1, <1>2, <1>3, MadeSeq
<1> QED BY <1>1, <1>3, <1>4 DEF IsList

LEMMA DecodedList ==
  ASSUME IInv, msg = "done"
  PROVE  IsList(DecodedEdit.new_files_)
<1>1. edit \in Edits
  BY DEF IInv, Good
<1>2. PICK p \in Nat : Behind(edit, cut, input, decoded, f, p)
  BY DEF IInv, Good
<1> DEFINE n == p - 3 - Deleted(edit)
           s == DecodedEdit.new_files_
<1>3. n \in Int
  BY <1>1, EditIs
<1>4. decoded = DecodedAfter(edit, p)
  BY <1>2 DEF Behind
<1>5. DOMAIN decoded.new_files_ = 1 .. n
  BY <1>4 DEF DecodedAfter
<1>6. s = [i \in DOMAIN decoded.new_files_ |->
             [level |-> decoded.new_files_[i], file |-> f]]
  <2> DEFINE x == [i \in DOMAIN decoded.new_files_ |->
                     [level |-> decoded.new_files_[i], file |-> f]]
  <2>1. DecodedEdit = [decoded EXCEPT !.new_files_ = x]
    BY Zenon DEF DecodedEdit
  <2> HIDE DEF x
  <2>2. [decoded EXCEPT !.new_files_ = x].new_files_ = x
    BY <1>4 DEF DecodedAfter
  <2> QED BY <2>1, <2>2 DEF x
<1> HIDE DEF n, s
<1>7. s = [i \in 1 .. n |-> s[i]]
  BY <1>5, <1>6
<1>8. IsList(s)
  BY <1>3, <1>7, MadeList
<1> QED BY <1>8 DEF s

LEMMA MemoryList ==
  ASSUME NEW e \in MemoryEdits
  PROVE  IsList(e.new_files_)
<1>1. ASSUME NEW D, NEW x PROVE IsList([Clear EXCEPT !.deleted_files_ = D, !.new_files_ = <<x>>].new_files_)
  <2> DEFINE y == [Clear EXCEPT !.deleted_files_ = D, !.new_files_ = <<x>>]
  <2>1. y.new_files_ = <<x>>
    BY DEF Clear
  <2>2. IsList(<<x>>)
    BY DEF IsList
  <2> HIDE DEF y
  <2>3. IsList(y.new_files_)
    BY <2>1, <2>2
  <2> QED BY <2>3 DEF y
<1>2. \A level, r, deleted : IsList(NewFileEdit(level, r, deleted).new_files_)
  BY <1>1, Zenon DEF NewFileEdit
<1>3. \A level, o : IsList(MoveEdit(level, o).new_files_)
  BY <1>1, Zenon DEF MoveEdit
<1>4. \/ \E level, r, deleted : e = NewFileEdit(level, r, deleted)
      \/ \E level, o : e = MoveEdit(level, o)
  <2> DEFINE Ds == EditLevels \X KeyRanges \X {D \in SUBSET Known : Cardinality(D) <= 1}
             Ms == {y \in EditLevels \X DOMAIN heap :
                      /\ y[1] + 1 \in EditLevels /\ <<y[1] + 1, file(y[2]).number>> \notin Known
                      /\ y[2] \in ToSet(versions[current_].files_[y[1]])}
             A == {NewFileEdit(x[1], x[2], x[3]) : x \in Ds}
             B == {MoveEdit(x[1], x[2]) : x \in Ms}
  <2>1. e \in A \/ e \in B
    BY DEF MemoryEdits
  <2>2. e \in A => \E level, r, deleted : e = NewFileEdit(level, r, deleted)
    <3> HIDE DEF Ds
    <3> QED OBVIOUS
  <2>3. e \in B => \E level, o : e = MoveEdit(level, o)
    <3> HIDE DEF Ms
    <3> QED OBVIOUS
  <2> QED BY <2>1, <2>2, <2>3
<1> QED BY <1>2, <1>3, <1>4, Zenon

LEMMA RecordSteps ==
  ASSUME BInv, applyRecord \/ applyEdit
  PROVE  Right(heap', versions', current_', builder') /\ builder.phase # "none"
<1>1. builder.phase = "open" /\ UNCHANGED <<versions, current_>>
  BY DEF applyRecord, applyEdit
<1>2. Right(heap, versions, current_, builder) /\ IInv /\ msg = "done"
  BY <1>1 DEF BInv
<1>3. PICK e : IsList(e.new_files_) /\ Apply(e)
  <2>1. CASE applyRecord
    BY <1>2, <2>1, DecodedList DEF applyRecord
  <2>2. CASE applyEdit
    BY <2>2, MemoryList DEF applyEdit
  <2> QED BY <2>1, <2>2
<1>4. Right(heap', versions, current_, builder')
  BY <1>1, <1>2, <1>3, EditStep
<1> QED BY <1>1, <1>4

LEMMA BuilderInitGood == BuilderInit => BInv
<1> SUFFICES ASSUME BuilderInit PROVE BInv
  OBVIOUS
<1> DEFINE x == [files_ |-> PerLevel(<<>>), ref_ |-> 1]
           vs == <<x>>
<1>1. IInv
  BY InitGood DEF BuilderInit
<1>2. heap = <<>> /\ versions = vs /\ current_ = 1 /\ builder = NoBuilder
  BY Zenon DEF BuilderInit
<1>3. Len(heap) = 0 /\ IsHeap(heap)
  <2>1. Len(<<>>) = 0 /\ <<>> = [o \in 1 .. 0 |-> <<>>[o]]
    OBVIOUS
  <2> QED BY <1>2, <2>1 DEF IsHeap
<1>4. x \in VersionType(0) /\ x.ref_ = 1
  <2>1. PerLevel(<<>>) \in FileLists(0)
    BY DEF PerLevel, FileLists
  <2> QED BY <2>1 DEF VersionType
<1> HIDE DEF x
<1>5. vs \in Seq(VersionType(0)) /\ Len(vs) = 1 /\ vs[1].ref_ = 1
  BY <1>4
<1>6. /\ IsBuilder(builder, 0) /\ Once(builder.added_files) /\ builder.v = 0
      /\ builder.phase = "none"
  BY <1>2, NewBuilder
<1> HIDE DEF vs
<1>7. Phases(vs, 1, builder)
  BY <1>6 DEF Phases
<1>8. \A v \in 1 .. Len(vs) : vs[v].ref_ = RefOf(1, builder, v)
  BY <1>5, <1>6 DEF RefOf, HoldsBase
<1>9. Counts(heap, vs, Hold(1, builder), builder)
  BY <1>3 DEF Counts
<1>10. Right(heap, vs, 1, builder)
  BY <1>3, <1>5, <1>6, <1>7, <1>8, <1>9 DEF Right
<1> QED BY <1>1, <1>2, <1>6, <1>10 DEF BInv

LEMMA VersionStep ==
  ASSUME BInv, UNCHANGED vars,
         \/ Builder \/ applyRecord \/ applyEdit \/ SaveTo \/ AppendVersion \/ deleteBuilder
         \/ \E r \in KeyRanges : apply(r)
  PROVE  BInv'
<1>1. IInv'
  BY Zenon DEF BInv, IInv, vars
<1>2. Right(heap, versions, current_, builder) /\ (builder.phase # "none" => msg = "done")
  BY DEF BInv
<1>3. msg' = msg
  BY DEF vars
<1>4. builder.v # 0 => builder.phase # "none"
  BY <1>2 DEF Right, Phases
<1>5. /\ Right(heap', versions', current_', builder')
      /\ builder.phase # "none" \/ msg = "done" \/ builder' = builder
  <2>1. CASE Builder
    BY <1>2, <2>1, StartStep DEF Builder
  <2>2. CASE applyRecord \/ applyEdit
    BY <2>2, RecordSteps
  <2>3. CASE SaveTo
    <3>1. builder.phase # "none"
      BY <2>3 DEF SaveTo
    <3> QED BY <1>2, <2>3, <3>1, SaveStep
  <2>4. CASE AppendVersion
    <3>1. builder.v # 0
      BY <2>4 DEF AppendVersion
    <3> QED BY <1>2, <1>4, <2>4, <3>1, AppendStep
  <2>5. CASE deleteBuilder
    <3>1. builder.phase # "none"
      BY <2>5 DEF deleteBuilder
    <3> QED BY <1>2, <2>5, <3>1, EndStep
  <2>6. ASSUME NEW r \in KeyRanges, apply(r)
        PROVE  Right(heap', versions', current_', builder') /\ builder' = builder
    <3>1. builder' = builder
      BY <2>6 DEF apply
    <3> QED BY <1>2, <2>6, <3>1, ApplyStep
  <2> QED BY <2>1, <2>2, <2>3, <2>4, <2>5, <2>6
<1>6. builder.phase' # "none" => msg' = "done"
  BY <1>2, <1>3, <1>5
<1> QED BY <1>1, <1>5, <1>6, Zenon DEF BInv

LEMMA BuilderNextGood ==
  ASSUME BInv, [BuilderNext]_<<vars, builderVars>>
  PROVE  BInv'
<1>1. CASE edit_step
  <2>1. Next /\ UNCHANGED builderVars
    BY <1>1 DEF edit_step
  <2>2. msg = ""
    BY <2>1 DEF Next, number, deletedFile, newFile, endOfLoop, Reading
  <2>3. IInv'
    BY <2>1, NextGood DEF BInv
  <2>4. builder.phase = "none" /\ Right(heap, versions, current_, builder)
    BY <2>2 DEF BInv
  <2>5. heap' = heap /\ versions' = versions /\ current_' = current_ /\ builder' = builder
    BY <2>1 DEF builderVars
  <2> QED BY <2>3, <2>4, <2>5, Zenon DEF BInv
<1>2. CASE \/ version_step(Builder) \/ version_step(applyRecord) \/ version_step(applyEdit)
           \/ version_step(SaveTo) \/ version_step(AppendVersion) \/ version_step(deleteBuilder)
           \/ \E r \in KeyRanges : version_step(apply(r))
  BY <1>2, VersionStep DEF version_step
<1>3. CASE UNCHANGED <<vars, builderVars>>
  <2>1. UNCHANGED vars /\ UNCHANGED builderVars
    BY <1>3
  <2>2. IInv'
    BY <2>1, Zenon DEF BInv, IInv, vars
  <2>3. /\ heap' = heap /\ versions' = versions /\ current_' = current_ /\ builder' = builder
        /\ msg' = msg
    BY <2>1 DEF builderVars, vars
  <2> QED BY <2>2, <2>3, Zenon DEF BInv
<1> QED BY <1>1, <1>2, <1>3 DEF BuilderNext

(* The counters of versions and files are right in every reachable state.  *)
THEOREM BuilderInductive == BuilderSpec => []BInv
BY BuilderInitGood, BuilderNextGood, PTL DEF BuilderSpec

(* The versions that are held are those that the invariant speaks of.      *)
LEMMA LiveIs ==
  ASSUME Right(heap, versions, current_, builder)
  PROVE  Live = Hold(current_, builder)
<1>1. /\ DOMAIN versions = 1 .. Len(versions) /\ Len(versions) \in Nat
      /\ current_ \in 1 .. Len(versions) /\ Hold(current_, builder) \subseteq 1 .. Len(versions)
  BY RightSays, VersionsOf
<1>2. ASSUME NEW v \in 1 .. Len(versions)
      PROVE  versions[v].ref_ > 0 <=> v = current_ \/ (HoldsBase(builder) /\ v = builder.base_)
  <2>1. versions[v].ref_ = RefOf(current_, builder, v)
    BY DEF Right
  <2> QED BY <2>1 DEF RefOf
<1>3. Phases(versions, current_, builder)
  BY DEF Right
<1>4. \A v \in 1 .. Len(versions) :
        v \in Hold(current_, builder) <=>
          \/ v = current_ \/ (HoldsBase(builder) /\ v = builder.base_)
          \/ (v = builder.v /\ ~ builder.installed)
  BY <1>1, <1>3 DEF Phases, Hold, HoldsBase
<1>5. \A v \in DOMAIN versions : v \in Live <=> v \in Hold(current_, builder)
  BY <1>1, <1>2, <1>4 DEF Live
<1> QED BY <1>1, <1>5 DEF Live

(* A file of a held version is not deleted and its counter is the number   *)
(* of its holders, for any edits, any order of the releases.               *)
THEOREM FilesCorrect == BuilderSpec => []FilesAreCounted
<1>1. ASSUME BInv PROVE FilesAreCounted
  <2>1. Right(heap, versions, current_, builder)
    BY <1>1 DEF BInv
  <2> DEFINE L == Hold(current_, builder)
  <2>2. Live = L /\ Lists(versions, L, Len(heap)) /\ L \subseteq 1 .. Len(versions)
    BY <2>1, LiveIs, RightSays
  <2>3. /\ Counts(heap, versions, L, builder) /\ IsHeap(heap) /\ IsBuilder(builder, Len(heap))
        /\ Len(heap) \in Nat
    BY <2>1, RightSays DEF Right
  <2> HIDE DEF L
  <2>4. ASSUME NEW v \in Live, NEW level \in Level, NEW o \in ToSet(versions[v].files_[level])
        PROVE  ~ heap[o].deleted /\ heap[o].refs = Cardinality(Held(o)) + Added(o)
    <3>1. versions[v].files_ \in FileLists(Len(heap)) /\ v \in L
      BY <2>2, <2>4 DEF Lists
    <3>2. \E i \in DOMAIN versions[v].files_[level] : versions[v].files_[level][i] = o
      BY <2>4 DEF ToSet
    <3>3. o \in 1 .. Len(heap)
      BY <3>1, <3>2 DEF FileLists
    <3>4. Occurrences(versions[v].files_, o) # 0
      BY <2>3, <3>1, <3>2, SomePlace
    <3>5. ~ heap[o].deleted /\ heap[o].refs = Holders(versions, L, builder, o)
      BY <2>2, <2>3, <3>1, <3>3, <3>4, ListedCounts
    <3>6. Held(o) = HeldBy(versions, L, o)
      BY <2>2, Zenon DEF Held, HeldBy
    <3>7. Added(o) = AddedBy(builder, o)
      BY Zenon DEF Added, AddedBy, HoldsBase
    <3> QED BY <3>5, <3>6, <3>7 DEF Holders
  <2> QED BY <2>4 DEF FilesAreCounted
<1> QED BY <1>1, BuilderInductive, PTL

-----------------------------------------------------------------------------
(* Above level 0 the files of every version ascend.                        *)
Fits(h, files) == \A level \in Level : level > 0 => Ascending(h, files[level])
Fit(h, vs) == RangedAll(h, DOMAIN h) /\ \A v \in DOMAIN vs : Fits(h, vs[v].files_)

SInv == /\ BInv /\ Fit(heap, versions)
        /\ builder.phase # "none" => cut = 0 /\ edit \in Recorded

SameFiles(h, g) == /\ IsHeap(g) /\ Len(g) = Len(h)
                   /\ \A o \in 1 .. Len(h) : g[o].file = h[o].file

LEMMA CountersOnly ==
  ASSUME NEW h, IsHeap(h), NEW files \in FileLists(Len(h))
  PROVE  /\ SameFiles(h, counted(h, files)) /\ SameFiles(h, Dropped(h, files))
         /\ SameFiles(h, Released(h, files))
<1>1. DOMAIN h = 1 .. Len(h) /\ \A o \in 1 .. Len(h) : Object(h[o])
  BY HeapIs DEF IsHeap
<1>2. ASSUME NEW o \in 1 .. Len(h), NEW n, NEW d
      PROVE  /\ [h[o] EXCEPT !.refs = n].file = h[o].file
             /\ [h[o] EXCEPT !.refs = n, !.deleted = d].file = h[o].file
  <2> DEFINE x == [h[o] EXCEPT !.refs = n]
             y == [x EXCEPT !.deleted = d]
  <2>1. h[o] = [file |-> h[o].file, refs |-> h[o].refs, deleted |-> h[o].deleted]
    BY <1>1 DEF Object
  <2>2. x = [file |-> h[o].file, refs |-> n, deleted |-> h[o].deleted]
    BY <2>1
  <2>3. [h[o] EXCEPT !.refs = n, !.deleted = d] = y
    OBVIOUS
  <2> HIDE DEF x
  <2>4. y.file = h[o].file
    BY <2>2
  <2> HIDE DEF y
  <2> QED BY <2>2, <2>3, <2>4 DEF x
<1>3. \A o \in 1 .. Len(h) : counted(h, files)[o].file = h[o].file
  BY <1>1, <1>2 DEF counted
<1>4. \A o \in 1 .. Len(h) : Dropped(h, files)[o].file = h[o].file
  BY <1>1, <1>2 DEF Dropped
<1>5. \A o \in 1 .. Len(h) : Released(h, files)[o].file = h[o].file
  <2> TAKE o \in 1 .. Len(h)
  <2> DEFINE n == Occurrences(files, o)
             d == h[o].deleted \/ (n > 0 /\ h[o].refs - n <= 0)
  <2>1. Released(h, files)[o] = [h[o] EXCEPT !.refs = @ - n, !.deleted = d]
    BY <1>1 DEF Released
  <2> HIDE DEF n, d
  <2> QED BY <1>2, <2>1
<1> QED BY <1>3, <1>4, <1>5, CountedIs, DroppedIs, ReleasedIs DEF SameFiles, SameHeap

LEMMA FilesUnrefIs ==
  ASSUME NEW h, IsHeap(h), NEW vs, NEW v, vs[v].files_ \in FileLists(Len(h))
  PROVE  SameFiles(h, FilesUnref(h, vs, v))
<1>1. FilesUnref(h, vs, v) = h \/ FilesUnref(h, vs, v) = Dropped(h, vs[v].files_)
  BY Zenon DEF FilesUnref, Dropped
<1>2. SameFiles(h, h) /\ SameFiles(h, Dropped(h, vs[v].files_))
  BY CountersOnly DEF SameFiles
<1> QED BY <1>1, <1>2, Zenon

LEMMA SameTwice ==
  ASSUME NEW h, NEW g, NEW q, SameFiles(h, g), SameFiles(g, q)
  PROVE  SameFiles(h, q)
BY DEF SameFiles

LEMMA SameRanged ==
  ASSUME NEW h, IsHeap(h), NEW g, SameFiles(h, g), RangedAll(h, DOMAIN h)
  PROVE  RangedAll(g, DOMAIN g)
BY HeapIs DEF SameFiles, RangedAll

LEMMA AscendingKept ==
  ASSUME NEW k, NEW h, NEW g, \A o \in 1 .. k : g[o].file = h[o].file,
         NEW s \in Seq(1 .. k), Ascending(h, s)
  PROVE  Ascending(g, s)
<1>1. \A i \in DOMAIN s : s[i] \in 1 .. k
  <2> DEFINE S == 1 .. k
  <2>1. s \in Seq(S)
    OBVIOUS
  <2> HIDE DEF S
  <2>2. \A i \in DOMAIN s : s[i] \in S
    BY <2>1
  <2> QED BY <2>2 DEF S
<1>2. ASSUME NEW i \in DOMAIN s, NEW j \in DOMAIN s, i < j
      PROVE  Less(g[s[i]].file.largest.key, g[s[j]].file.smallest.key)
  <2>1. g[s[i]].file = h[s[i]].file /\ g[s[j]].file = h[s[j]].file
    BY <1>1
  <2> QED BY <1>2, <2>1 DEF Ascending
<1> QED BY <1>2 DEF Ascending

LEMMA FitKept ==
  ASSUME NEW h, NEW vs, NEW c, NEW b, Right(h, vs, c, b), Fit(h, vs),
         NEW g, RangedAll(g, DOMAIN g), \A o \in 1 .. Len(h) : g[o].file = h[o].file,
         NEW ws, \A v \in DOMAIN ws :
                   \/ v \in DOMAIN vs /\ ws[v].files_ = vs[v].files_
                   \/ Fits(g, ws[v].files_)
  PROVE  Fit(g, ws)
<1>1. ASSUME NEW v \in DOMAIN vs, ws[v].files_ = vs[v].files_
      PROVE  Fits(g, ws[v].files_)
  <2> DEFINE files == vs[v].files_
  <2>1. files \in FileLists(Len(h)) /\ Fits(h, files)
    BY RightSays, VersionsOf DEF Fit
  <2> HIDE DEF files
  <2>2. ASSUME NEW l \in Level, l > 0 PROVE Ascending(g, files[l])
    <3>1. files[l] \in Seq(1 .. Len(h)) /\ Ascending(h, files[l])
      BY <2>1, <2>2 DEF FileLists, Fits
    <3> QED BY <3>1, AscendingKept
  <2> QED BY <1>1, <2>2 DEF Fits, files
<1> QED BY <1>1 DEF Fit

(* The list of versions: records, of which only the references change.     *)
Records(vs) == \A v \in DOMAIN vs : vs[v] = [files_ |-> vs[v].files_, ref_ |-> vs[v].ref_]
SameLists(vs, ws) == DOMAIN ws = DOMAIN vs /\ \A v \in DOMAIN vs : ws[v].files_ = vs[v].files_

LEMMA RefChanged ==
  ASSUME NEW vs, Records(vs), NEW v \in DOMAIN vs, NEW n
  PROVE  /\ Records([vs EXCEPT ![v].ref_ = n]) /\ SameLists(vs, [vs EXCEPT ![v].ref_ = n])
<1> DEFINE x == [vs[v] EXCEPT !.ref_ = n]
           ws == [vs EXCEPT ![v] = x]
<1>1. x = [files_ |-> vs[v].files_, ref_ |-> n]
  BY DEF Records
<1> HIDE DEF x
<1>2. DOMAIN ws = DOMAIN vs /\ \A u \in DOMAIN vs : ws[u] = IF u = v THEN x ELSE vs[u]
  OBVIOUS
<1> HIDE DEF ws
<1>3. Records(ws) /\ SameLists(vs, ws)
  BY <1>1, <1>2 DEF Records, SameLists
<1> QED BY <1>3 DEF ws, x

LEMMA TheseRecords ==
  ASSUME NEW k, NEW vs \in Seq(VersionType(k))
  PROVE  Records(vs)
BY VersionsOf DEF Records

LEMMA RightHas ==
  ASSUME NEW h, NEW vs, NEW c, NEW b, Right(h, vs, c, b)
  PROVE  /\ IsHeap(h) /\ Len(h) \in Nat /\ DOMAIN h = 1 .. Len(h)
         /\ Records(vs) /\ DOMAIN vs = 1 .. Len(vs) /\ Len(vs) \in Nat /\ c \in DOMAIN vs
         /\ \A v \in DOMAIN vs : vs[v].files_ \in FileLists(Len(h))
         /\ b.added_files \in FileLists(Len(h))
<1>1. /\ IsHeap(h) /\ Len(h) \in Nat /\ DOMAIN h = 1 .. Len(h)
      /\ b.added_files \in FileLists(Len(h)) /\ vs \in Seq(VersionType(Len(h)))
      /\ c \in 1 .. Len(vs)
  BY HeapIs DEF Right, IsBuilder
<1>2. /\ Records(vs) /\ DOMAIN vs = 1 .. Len(vs) /\ Len(vs) \in Nat
      /\ \A v \in DOMAIN vs : vs[v].files_ \in FileLists(Len(h))
  BY <1>1, VersionsOf, TheseRecords
<1> QED BY <1>1, <1>2

(* Most operations leave the files and the lists as they are.              *)
FilesKept == SameFiles(heap, heap') /\ SameLists(versions, versions')

LEMMA KeptFits ==
  ASSUME Right(heap, versions, current_, builder), Fit(heap, versions), FilesKept
  PROVE  Fit(heap', versions')
<1>1. IsHeap(heap) /\ SameFiles(heap, heap') /\ SameLists(versions, versions')
  BY RightHas DEF FilesKept
<1>2. RangedAll(heap', DOMAIN heap')
  BY <1>1, SameRanged DEF Fit
<1>3. /\ \A o \in 1 .. Len(heap) : heap'[o].file = heap[o].file
      /\ \A v \in DOMAIN versions' :
           v \in DOMAIN versions /\ versions'[v].files_ = versions[v].files_
  BY <1>1 DEF SameFiles, SameLists
<1> QED BY <1>2, <1>3, FitKept

LEMMA StartKeeps ==
  ASSUME Right(heap, versions, current_, builder), Builder
  PROVE  FilesKept
<1>1. heap' = heap /\ versions' = [versions EXCEPT ![current_].ref_ = @ + 1]
  BY Zenon DEF Builder
<1> DEFINE n == versions[current_].ref_ + 1
           ws == [versions EXCEPT ![current_].ref_ = n]
<1>2. versions' = ws
  BY <1>1, Zenon
<1> HIDE DEF n
<1>3. SameLists(versions, ws)
  BY RightHas, RefChanged
<1> HIDE DEF ws
<1>4. SameFiles(heap, heap)
  BY RightHas DEF SameFiles
<1> QED BY <1>1, <1>2, <1>3, <1>4, Zenon DEF FilesKept

LEMMA AppendKeeps ==
  ASSUME Right(heap, versions, current_, builder), AppendVersion
  PROVE  FilesKept
<1> DEFINE n == versions[current_].ref_ - 1
           us == [versions EXCEPT ![current_].ref_ = n]
           ws == [us EXCEPT ![builder.v].ref_ = 1]
           g == FilesUnref(heap, versions, current_)
<1>1. builder.v # 0 /\ heap' = g /\ versions' = ws
  BY Zenon DEF AppendVersion, VersionUnref
<1>2. /\ IsHeap(heap) /\ DOMAIN heap = 1 .. Len(heap)
      /\ Records(versions) /\ DOMAIN versions = 1 .. Len(versions) /\ current_ \in DOMAIN versions
      /\ versions[current_].files_ \in FileLists(Len(heap))
  BY RightHas
<1>3. builder.v \in DOMAIN versions
  BY <1>1, <1>2 DEF Right, Phases
<1>4. SameFiles(heap, g)
  BY <1>2, FilesUnrefIs
<1> HIDE DEF n, g
<1>5. Records(us) /\ SameLists(versions, us)
  BY <1>2, RefChanged
<1> HIDE DEF us
<1>6. SameLists(us, ws)
  BY <1>3, <1>5, RefChanged DEF SameLists
<1> HIDE DEF ws
<1>7. SameLists(versions, ws)
  BY <1>5, <1>6 DEF SameLists
<1> QED BY <1>1, <1>4, <1>7, Zenon DEF FilesKept

LEMMA EndKeeps ==
  ASSUME Right(heap, versions, current_, builder), deleteBuilder
  PROVE  FilesKept
<1> DEFINE c == builder.base_
           n == versions[c].ref_ - 1
           ws == [versions EXCEPT ![c].ref_ = n]
           q == Released(heap, builder.added_files)
           g == FilesUnref(q, versions, c)
<1>1. builder.phase = "saved" /\ heap' = g /\ versions' = ws
  BY Zenon DEF deleteBuilder, VersionUnref, released, Released
<1>2. /\ IsHeap(heap) /\ DOMAIN heap = 1 .. Len(heap)
      /\ Records(versions) /\ DOMAIN versions = 1 .. Len(versions)
      /\ \A v \in DOMAIN versions : versions[v].files_ \in FileLists(Len(heap))
      /\ builder.added_files \in FileLists(Len(heap))
  BY RightHas
<1>3. c \in DOMAIN versions
  BY <1>1, <1>2 DEF Right, Phases
<1>4. SameFiles(heap, q)
  BY <1>2, CountersOnly
<1> HIDE DEF q
<1>5. SameFiles(q, g)
  <2>1. IsHeap(q) /\ Len(q) = Len(heap)
    BY <1>4 DEF SameFiles
  <2>2. versions[c].files_ \in FileLists(Len(q))
    BY <1>2, <1>3, <2>1
  <2> QED BY <2>1, <2>2, FilesUnrefIs
<1>6. SameFiles(heap, g)
  BY <1>4, <1>5, SameTwice
<1> HIDE DEF n, g
<1>7. SameLists(versions, ws)
  BY <1>2, <1>3, RefChanged
<1> HIDE DEF ws
<1> QED BY <1>1, <1>6, <1>7, Zenon DEF FilesKept

(* A new version at the end of the list, and nothing else.                 *)
OneMoreVersion(vs, ws, files) ==
  /\ DOMAIN ws = 1 .. Len(vs) + 1 /\ ws[Len(vs) + 1].files_ = files
  /\ \A v \in 1 .. Len(vs) : ws[v].files_ = vs[v].files_

LEMMA SaveMakes ==
  ASSUME Right(heap, versions, current_, builder), SaveTo
  PROVE  LET files == [level \in Level |-> saveLevel(level).files]
         IN \/ /\ \A level \in Level : saveLevel(level).ok
               /\ SameFiles(heap, heap') /\ OneMoreVersion(versions, versions', files)
               /\ builder' = [builder EXCEPT !.phase = "saved", !.v = Len(versions) + 1]
            \/ /\ \E level \in Level : ~ saveLevel(level).ok
               /\ UNCHANGED <<heap, versions>>
               /\ builder' = [builder EXCEPT !.phase = "aborted"]
<1> DEFINE files == [level \in Level |-> saveLevel(level).files]
           x == [files_ |-> files, ref_ |-> 0]
           ws == Append(versions, x)
           g == counted(heap, files)
<1>1. builder.phase = "open"
  BY DEF SaveTo
<1>2. IsHeap(heap) /\ DOMAIN versions = 1 .. Len(versions) /\ Len(versions) \in Nat
  BY RightHas
<1>3. files \in FileLists(Len(heap))
  BY <1>1, SavedFiles
<1>4. \/ /\ \A level \in Level : saveLevel(level).ok
         /\ heap' = g /\ versions' = ws
         /\ builder' = [builder EXCEPT !.phase = "saved", !.v = Len(versions) + 1]
      \/ /\ \E level \in Level : ~ saveLevel(level).ok
         /\ UNCHANGED <<heap, versions>>
         /\ builder' = [builder EXCEPT !.phase = "aborted"]
  <2> DEFINE saved == [level \in Level |-> saveLevel(level)]
             made == [level \in Level |-> saved[level].files]
  <2>1. made = files /\ \A level \in Level : saved[level] = saveLevel(level)
    OBVIOUS
  <2>2. \/ /\ \A level \in Level : saved[level].ok
           /\ heap' = counted(heap, made)
           /\ versions' = Append(versions, [files_ |-> made, ref_ |-> 0])
           /\ builder' = [builder EXCEPT !.phase = "saved", !.v = Len(versions) + 1]
        \/ /\ \E level \in Level : ~ saved[level].ok
           /\ UNCHANGED <<heap, versions>>
           /\ builder' = [builder EXCEPT !.phase = "aborted"]
    BY Zenon DEF SaveTo
  <2> HIDE DEF made, files, saved
  <2> QED BY <2>1, <2>2, Zenon
<1>5. x.files_ = files
  OBVIOUS
<1>6. SameFiles(heap, g)
  BY <1>2, <1>3, CountersOnly
<1> HIDE DEF files, x, g
<1>7. /\ DOMAIN ws = 1 .. Len(versions) + 1 /\ ws[Len(versions) + 1] = x
      /\ \A v \in 1 .. Len(versions) : ws[v] = versions[v]
  BY <1>2, RightSays
<1> HIDE DEF ws
<1>8. OneMoreVersion(versions, ws, files)
  BY <1>5, <1>7 DEF OneMoreVersion
<1> QED BY <1>4, <1>6, <1>8, Zenon DEF files

LEMMA SaveFits ==
  ASSUME Right(heap, versions, current_, builder), Fit(heap, versions), SaveTo
  PROVE  Fit(heap', versions')
<1> DEFINE files == [level \in Level |-> saveLevel(level).files]
<1>1. builder.phase = "open"
  BY DEF SaveTo
<1>2. /\ IsHeap(heap) /\ DOMAIN heap = 1 .. Len(heap)
      /\ DOMAIN versions = 1 .. Len(versions) /\ Len(versions) \in Nat
  BY RightHas
<1>3. /\ files \in FileLists(Len(heap))
      /\ \A level \in Level : AscendingIf(heap, 1 .. Len(heap), level, files[level],
                                          saveLevel(level).ok)
  BY <1>1, SavedFiles
<1>4. \/ /\ \A level \in Level : saveLevel(level).ok
         /\ SameFiles(heap, heap') /\ OneMoreVersion(versions, versions', files)
      \/ UNCHANGED <<heap, versions>>
  BY SaveMakes
<1> HIDE DEF files
<1>5. CASE UNCHANGED <<heap, versions>>
  BY <1>5
<1>6. CASE /\ \A level \in Level : saveLevel(level).ok
           /\ SameFiles(heap, heap') /\ OneMoreVersion(versions, versions', files)
  <2>1. RangedAll(heap', DOMAIN heap') /\ RangedAll(heap, 1 .. Len(heap))
    BY <1>2, <1>6, SameRanged DEF Fit
  <2>2. \A o \in 1 .. Len(heap) : heap'[o].file = heap[o].file
    BY <1>6 DEF SameFiles
  <2>3. ASSUME NEW l \in Level, l > 0 PROVE Ascending(heap', files[l])
    <3>1. Ascending(heap, files[l]) /\ files[l] \in Seq(1 .. Len(heap))
      BY <1>3, <1>6, <2>1, <2>3 DEF AscendingIf, FileLists
    <3> QED BY <2>2, <3>1, AscendingKept
  <2>4. Fits(heap', files)
    BY <2>3 DEF Fits
  <2>5. ASSUME NEW v \in DOMAIN versions'
        PROVE  \/ v \in DOMAIN versions /\ versions'[v].files_ = versions[v].files_
               \/ Fits(heap', versions'[v].files_)
    <3>1. v \in 1 .. Len(versions) \/ v = Len(versions) + 1
      BY <1>2, <1>6 DEF OneMoreVersion
    <3> QED BY <1>2, <1>6, <2>4, <3>1 DEF OneMoreVersion
  <2> QED BY <2>1, <2>2, <2>5, FitKept
<1> QED BY <1>4, <1>5, <1>6, Zenon

LEMMA ApplyMakes ==
  ASSUME Right(heap, versions, current_, builder), NEW r \in KeyRanges, apply(r)
  PROVE  LET k == Len(heap)
             base == versions[current_].files_
         IN /\ IsHeap(heap') /\ Len(heap') = k + 1
            /\ \A o \in 1 .. k : heap'[o].file = heap[o].file
            /\ heap'[k + 1].file = NewFileEdit(0, r, {}).new_files_[1].file
            /\ OneMoreVersion(versions, versions', [base EXCEPT ![0] = Append(@, k + 1)])
            /\ builder' = builder
<1> DEFINE m == NewFileEdit(0, r, {}).new_files_[1].file
           o == [file |-> m, refs |-> 0, deleted |-> FALSE]
           k == Len(heap)
           h == Append(heap, o)
           base == versions[current_].files_
           files == [base EXCEPT ![0] = Append(@, k + 1)]
           n == versions[current_].ref_ - 1
           us == [versions EXCEPT ![current_].ref_ = n]
           x == [files_ |-> files, ref_ |-> 1]
           ws == Append(us, x)
           p == counted(h, files)
           g == FilesUnref(p, versions, current_)
<1>1. heap' = g /\ versions' = ws /\ builder' = builder
  BY Zenon DEF apply, VersionUnref
<1>2. /\ IsHeap(heap) /\ DOMAIN heap = 1 .. k /\ k \in Nat
      /\ Records(versions) /\ DOMAIN versions = 1 .. Len(versions) /\ Len(versions) \in Nat
      /\ current_ \in DOMAIN versions /\ base \in FileLists(k)
  BY RightHas
<1>3. Object(o) /\ o.file = m
  BY DEF Object
<1> HIDE DEF o, m
<1>4. Grown(heap, h) /\ Len(h) = k + 1 /\ h[k + 1] = o
  BY <1>2, <1>3, ObjectAdded
<1> HIDE DEF h
<1>5. IsHeap(h) /\ DOMAIN h = 1 .. k + 1 /\ \A i \in 1 .. k : h[i] = heap[i]
  BY <1>4, HeapIs DEF Grown
<1>6. files \in FileLists(k + 1)
  <2>1. AtEnd(files, base, k + 1)
    <3> HIDE DEF k, base
    <3> QED BY <1>2, AtTheEnd
  <2> QED BY <2>1 DEF AtEnd
<1>7. x.files_ = files
  OBVIOUS
<1> HIDE DEF files, x
<1>8. SameFiles(h, p)
  BY <1>4, <1>5, <1>6, CountersOnly
<1> HIDE DEF p
<1>9. SameFiles(p, g)
  <2>1. IsHeap(p) /\ Len(p) = k + 1
    BY <1>4, <1>8 DEF SameFiles
  <2>2. FileLists(k) \subseteq FileLists(k + 1)
    <3>1. k + 1 \in Nat /\ k <= k + 1
      BY <1>2
    <3> QED BY <1>2, <3>1, ListsGrow
  <2>3. versions[current_].files_ \in FileLists(Len(p))
    BY <1>2, <2>1, <2>2
  <2> QED BY <2>1, <2>3, FilesUnrefIs
<1>10. SameFiles(h, g)
  BY <1>8, <1>9, SameTwice
<1> HIDE DEF g
<1>11. IsHeap(g) /\ Len(g) = k + 1 /\ (\A i \in 1 .. k : g[i].file = heap[i].file)
       /\ g[k + 1].file = m
  <2>1. (\A i \in 1 .. k : i \in 1 .. k + 1) /\ k + 1 \in 1 .. k + 1
    BY <1>2
  <2> QED BY <1>3, <1>4, <1>5, <1>10, <2>1 DEF SameFiles
<1> HIDE DEF n
<1>12. Records(us) /\ SameLists(versions, us)
  BY <1>2, RefChanged
<1>13. /\ DOMAIN ws = 1 .. Len(versions) + 1 /\ ws[Len(versions) + 1] = x
       /\ \A v \in 1 .. Len(versions) : ws[v] = us[v]
  <2> DEFINE S == {us[v] : v \in 1 .. Len(versions)} \cup {x}
  <2>1. us = [v \in 1 .. Len(versions) |-> us[v]]
    BY <1>2
  <2>2. (\A v \in 1 .. Len(versions) : us[v] \in S) /\ x \in S
    OBVIOUS
  <2> HIDE DEF S, us
  <2>3. us \in Seq(S) /\ Len(us) = Len(versions)
    BY <1>2, <2>1, <2>2, MadeSeq
  <2> QED BY <2>2, <2>3
<1> HIDE DEF ws, us
<1>14. OneMoreVersion(versions, ws, files)
  BY <1>2, <1>7, <1>12, <1>13 DEF SameLists, OneMoreVersion
<1> HIDE DEF k
<1> QED BY <1>1, <1>11, <1>14, Zenon DEF m, k, files, base

LEMMA ApplyFits ==
  ASSUME Right(heap, versions, current_, builder), Fit(heap, versions),
         NEW r \in KeyRanges, apply(r)
  PROVE  Fit(heap', versions')
<1> DEFINE m == NewFileEdit(0, r, {}).new_files_[1].file
           k == Len(heap)
           base == versions[current_].files_
           files == [base EXCEPT ![0] = Append(@, k + 1)]
<1>1. /\ IsHeap(heap') /\ Len(heap') = k + 1
      /\ \A o \in 1 .. k : heap'[o].file = heap[o].file
      /\ heap'[k + 1].file = m /\ OneMoreVersion(versions, versions', files)
  BY ApplyMakes
<1>2. /\ DOMAIN heap = 1 .. k /\ k \in Nat
      /\ DOMAIN versions = 1 .. Len(versions) /\ Len(versions) \in Nat
      /\ current_ \in DOMAIN versions /\ base \in FileLists(k)
  BY RightHas
<1>3. Ranged(m.smallest, m.largest)
  <2>1. m.smallest = r[1] /\ m.largest = r[2]
    BY DEF NewFileEdit, Clear
  <2> HIDE DEF m
  <2> QED BY <2>1, VersionBuilderAssumption
<1>4. \A l \in Level : l > 0 => files[l] = base[l]
  <2>1. DOMAIN base = Level
    BY <1>2 DEF FileLists
  <2> HIDE DEF base
  <2> QED BY <2>1
<1> HIDE DEF m, files, k
<1>5. RangedAll(heap', DOMAIN heap')
  <2>1. DOMAIN heap' = 1 .. k + 1 /\ \A i \in 1 .. k + 1 : i \in 1 .. k \/ i = k + 1
    BY <1>1, <1>2, HeapIs
  <2> QED BY <1>1, <1>2, <1>3, <2>1 DEF RangedAll, Fit
<1>6. Fits(heap', files)
  <2>1. ASSUME NEW l \in Level, l > 0 PROVE Ascending(heap', files[l])
    <3>1. Ascending(heap, base[l]) /\ base[l] \in Seq(1 .. k)
      BY <1>2, <2>1 DEF Fit, Fits, FileLists
    <3>2. Ascending(heap', base[l])
      BY <1>1, <3>1, AscendingKept
    <3> QED BY <1>4, <2>1, <3>2
  <2> QED BY <2>1 DEF Fits
<1>7. ASSUME NEW v \in DOMAIN versions'
      PROVE  \/ v \in DOMAIN versions /\ versions'[v].files_ = versions[v].files_
             \/ Fits(heap', versions'[v].files_)
  <2>1. v \in 1 .. Len(versions) \/ v = Len(versions) + 1
    BY <1>1, <1>2 DEF OneMoreVersion
  <2> QED BY <1>1, <1>2, <1>6, <2>1 DEF OneMoreVersion
<1> QED BY <1>1, <1>5, <1>7, FitKept DEF k

LEMMA EditFits ==
  ASSUME Right(heap, versions, current_, builder), Fit(heap, versions),
         NEW e, IsList(e.new_files_), Apply(e),
         \A i \in DOMAIN e.new_files_ :
           Ranged(e.new_files_[i].file.smallest, e.new_files_[i].file.largest)
  PROVE  Fit(heap', versions)
<1> DEFINE s == e.new_files_
           k == Len(heap)
           g == heap \o NewObjects(s)
<1>1. heap' = g
  BY DEF Apply, NewObjects
<1>2. /\ IsHeap(heap) /\ DOMAIN heap = 1 .. k /\ k \in Nat
  BY RightHas
<1>3. IsList(s) /\ \A i \in DOMAIN s : Ranged(s[i].file.smallest, s[i].file.largest)
  OBVIOUS
<1> HIDE DEF s
<1>4. /\ Grown(heap, g) /\ Len(g) = k + Len(s)
      /\ \A o \in 1 .. k + Len(s) : o \notin 1 .. k => \E i \in DOMAIN s : g[o].file = s[i].file
  BY <1>2, <1>3, ObjectsAdded
<1> HIDE DEF g
<1>5. DOMAIN g = 1 .. k + Len(s) /\ \A o \in 1 .. k : g[o] = heap[o]
  BY <1>4, HeapIs DEF Grown
<1>6. RangedAll(g, DOMAIN g)
  <2> HIDE DEF k
  <2>1. ASSUME NEW o \in DOMAIN g PROVE Ranged(g[o].file.smallest, g[o].file.largest)
    <3>1. CASE o \in 1 .. k
      BY <1>2, <1>5, <3>1 DEF Fit, RangedAll
    <3>2. CASE o \notin 1 .. k
      BY <1>3, <1>4, <1>5, <3>2
    <3> QED BY <3>1, <3>2
  <2> QED BY <2>1 DEF RangedAll
<1>7. Fit(g, versions)
  <2>1. \A o \in 1 .. Len(heap) : g[o].file = heap[o].file
    BY <1>5
  <2> QED BY <1>6, <2>1, FitKept
<1> QED BY <1>1, <1>7, Zenon

(* The files of the edits that a Builder is given end where they should.   *)
RangedFiles(s) == \A i \in DOMAIN s : Ranged(s[i].file.smallest, s[i].file.largest)

LEMMA DecodedRanged ==
  ASSUME IInv, msg = "done", cut = 0, edit \in Recorded
  PROVE  RangedFiles(DecodedEdit.new_files_)
<1>1. edit \in Edits
  BY DEF IInv, Good
<1>2. /\ decoded = [edit EXCEPT !.new_files_ = Levels(edit), !.log_number_ = Unset]
      /\ edit.new_files_ # <<>> => f = edit.new_files_[Len(edit.new_files_)].file
  BY WholeEdit DEF WholeEditIsReadBack
<1> DEFINE d == edit.new_files_
           n == Len(d)
           s == DecodedEdit.new_files_
<1>3. DOMAIN d = 1 .. n /\ n \in Nat
  BY <1>1, EditIs
<1>4. decoded.new_files_ = Levels(edit)
        /\ \A x : [decoded EXCEPT !.new_files_ = x].new_files_ = x
  <2>1. edit = [log_number_ |-> edit.log_number_,
                prev_log_number_ |-> edit.prev_log_number_,
                next_file_number_ |-> edit.next_file_number_,
                last_sequence_ |-> edit.last_sequence_, deleted_files_ |-> edit.deleted_files_,
                new_files_ |-> edit.new_files_]
    BY <1>1, VersionEditAssumption DEF Edit
  <2> DEFINE l == Levels(edit)
  <2> HIDE DEF l
  <2>2. decoded = [log_number_ |-> Unset,
                   prev_log_number_ |-> edit.prev_log_number_,
                   next_file_number_ |-> edit.next_file_number_,
                   last_sequence_ |-> edit.last_sequence_, deleted_files_ |-> edit.deleted_files_,
                   new_files_ |-> l]
    BY <1>2, <2>1 DEF l
  <2>3. decoded.new_files_ = l /\ \A x : [decoded EXCEPT !.new_files_ = x].new_files_ = x
    BY <2>2
  <2> QED BY <2>3 DEF l
<1>5. DOMAIN decoded.new_files_ = 1 .. n
  BY <1>3, <1>4 DEF Levels
<1>6. s = [i \in 1 .. n |-> [level |-> decoded.new_files_[i], file |-> f]]
  <2> DEFINE x == [i \in DOMAIN decoded.new_files_ |->
                     [level |-> decoded.new_files_[i], file |-> f]]
  <2>1. DecodedEdit = [decoded EXCEPT !.new_files_ = x]
    BY Zenon DEF DecodedEdit
  <2> HIDE DEF x
  <2>2. s = x
    BY <1>4, <2>1
  <2> QED BY <1>5, <2>2 DEF x
<1> HIDE DEF d, n, s
<1>7. ASSUME NEW i \in 1 .. n PROVE Ranged(f.smallest, f.largest)
  <2>1. n \in 1 .. n
    BY <1>3
  <2>2. edit.new_files_ # <<>>
    BY <1>3, <2>1 DEF d
  <2>3. f = edit.new_files_[n].file /\ n \in DOMAIN edit.new_files_
    BY <1>2, <1>3, <2>1, <2>2 DEF d, n
  <2>4. \A j \in DOMAIN edit.new_files_ :
          Ranged(edit.new_files_[j].file.smallest, edit.new_files_[j].file.largest)
    BY VersionBuilderAssumption
  <2> QED BY <2>3, <2>4
<1>8. \A i \in 1 .. n : s[i].file = f
  BY <1>6
<1>9. DOMAIN s = 1 .. n
  BY <1>6
<1> QED BY <1>7, <1>8, <1>9 DEF RangedFiles, s

LEMMA MemoryRanged ==
  ASSUME RangedAll(heap, DOMAIN heap), NEW e \in MemoryEdits
  PROVE  RangedFiles(e.new_files_)
<1>1. ASSUME NEW D, NEW x, Ranged(x.file.smallest, x.file.largest)
      PROVE  RangedFiles([Clear EXCEPT !.deleted_files_ = D, !.new_files_ = <<x>>].new_files_)
  <2> DEFINE y == [Clear EXCEPT !.deleted_files_ = D, !.new_files_ = <<x>>]
  <2>1. y.new_files_ = <<x>>
    BY DEF Clear
  <2>2. RangedFiles(<<x>>)
    BY <1>1 DEF RangedFiles
  <2> HIDE DEF y
  <2>3. RangedFiles(y.new_files_)
    BY <2>1, <2>2
  <2> QED BY <2>3 DEF y
<1>2. ASSUME NEW level, NEW r \in KeyRanges, NEW deleted
      PROVE  RangedFiles(NewFileEdit(level, r, deleted).new_files_)
  <2> DEFINE x == [level |-> level, file |-> [number |-> NextNumber, file_size |-> 1,
                                              smallest |-> r[1], largest |-> r[2]]]
  <2>1. Ranged(x.file.smallest, x.file.largest)
    BY VersionBuilderAssumption
  <2>2. NewFileEdit(level, r, deleted) = [Clear EXCEPT !.deleted_files_ = deleted, !.new_files_ = <<x>>]
    BY Zenon DEF NewFileEdit
  <2> HIDE DEF x
  <2>3. RangedFiles([Clear EXCEPT !.deleted_files_ = deleted, !.new_files_ = <<x>>].new_files_)
    BY <1>1, <2>1
  <2> QED BY <2>2, <2>3, Zenon
<1>3. ASSUME NEW level, NEW o \in DOMAIN heap
      PROVE  RangedFiles(MoveEdit(level, o).new_files_)
  <2> DEFINE x == [level |-> level + 1, file |-> file(o)]
             D == {<<level, file(o).number>>}
  <2>1. Ranged(x.file.smallest, x.file.largest)
    BY DEF RangedAll, file
  <2>2. MoveEdit(level, o) = [Clear EXCEPT !.deleted_files_ = D, !.new_files_ = <<x>>]
    BY Zenon DEF MoveEdit
  <2> HIDE DEF x, D
  <2>3. RangedFiles([Clear EXCEPT !.deleted_files_ = D, !.new_files_ = <<x>>].new_files_)
    BY <1>1, <2>1
  <2> QED BY <2>2, <2>3, Zenon
<1>4. \/ \E level, deleted : \E r \in KeyRanges : e = NewFileEdit(level, r, deleted)
      \/ \E level : \E o \in DOMAIN heap : e = MoveEdit(level, o)
  <2> DEFINE Ks == {D \in SUBSET Known : Cardinality(D) <= 1}
             Ds == EditLevels \X KeyRanges \X Ks
             P(y) == /\ y[1] + 1 \in EditLevels /\ <<y[1] + 1, file(y[2]).number>> \notin Known
                     /\ y[2] \in ToSet(versions[current_].files_[y[1]])
             Ms == {y \in EditLevels \X DOMAIN heap : P(y)}
             A == {NewFileEdit(x[1], x[2], x[3]) : x \in Ds}
             B == {MoveEdit(x[1], x[2]) : x \in Ms}
  <2>1. e \in A \/ e \in B
    BY DEF MemoryEdits
  <2>2. e \in A => \E level, deleted : \E r \in KeyRanges : e = NewFileEdit(level, r, deleted)
    <3> HIDE DEF Ks
    <3> QED OBVIOUS
  <2>3. e \in B => \E level : \E o \in DOMAIN heap : e = MoveEdit(level, o)
    <3> HIDE DEF P
    <3> QED OBVIOUS
  <2> QED BY <2>1, <2>2, <2>3
<1> QED BY <1>2, <1>3, <1>4, Zenon

LEMMA SearchInit == BuilderInit => SInv
<1> SUFFICES ASSUME BuilderInit PROVE SInv
  OBVIOUS
<1> DEFINE x == [files_ |-> PerLevel(<<>>), ref_ |-> 1]
           vs == <<x>>
<1>1. heap = <<>> /\ versions = vs /\ builder = NoBuilder
  BY Zenon DEF BuilderInit
<1>2. x.files_ = PerLevel(<<>>) /\ builder.phase = "none"
  BY <1>1, NewBuilder
<1>3. RangedAll(heap, DOMAIN heap)
  BY <1>1 DEF RangedAll
<1>4. Fits(heap, x.files_)
  <2>1. \A l \in Level : x.files_[l] = <<>>
    BY <1>2 DEF PerLevel
  <2> HIDE DEF x
  <2> QED BY <2>1 DEF Fits, Ascending
<1> HIDE DEF x
<1>5. \A v \in DOMAIN vs : vs[v] = x
  OBVIOUS
<1> HIDE DEF vs
<1>6. Fit(heap, versions)
  BY <1>1, <1>3, <1>4, <1>5 DEF Fit
<1> QED BY <1>2, <1>6, BuilderInitGood DEF SInv

LEMMA RecordFits ==
  ASSUME SInv, applyRecord \/ applyEdit
  PROVE  Fit(heap', versions')
<1>1. builder.phase = "open" /\ versions' = versions
  BY DEF applyRecord, applyEdit
<1>2. /\ Right(heap, versions, current_, builder) /\ IInv /\ msg = "done"
      /\ cut = 0 /\ edit \in Recorded /\ Fit(heap, versions)
  BY <1>1 DEF BInv, SInv
<1>3. RangedAll(heap, DOMAIN heap)
  BY <1>2 DEF Fit
<1>4. PICK e : IsList(e.new_files_) /\ Apply(e) /\ RangedFiles(e.new_files_)
  <2>1. CASE applyRecord
    BY <1>2, <2>1, DecodedList, DecodedRanged DEF applyRecord
  <2>2. CASE applyEdit
    BY <1>3, <2>2, MemoryList, MemoryRanged DEF applyEdit
  <2> QED BY <2>1, <2>2
<1>5. Fit(heap', versions)
  <2>1. \A i \in DOMAIN e.new_files_ :
          Ranged(e.new_files_[i].file.smallest, e.new_files_[i].file.largest)
    BY <1>4, Zenon DEF RangedFiles
  <2> QED BY <1>2, <1>4, <2>1, EditFits
<1> QED BY <1>1, <1>5, Zenon

LEMMA VersionFits ==
  ASSUME SInv, UNCHANGED vars,
         \/ Builder \/ applyRecord \/ applyEdit \/ SaveTo \/ AppendVersion \/ deleteBuilder
         \/ \E r \in KeyRanges : apply(r)
  PROVE  SInv'
<1>1. BInv'
  BY VersionStep DEF SInv
<1>2. Right(heap, versions, current_, builder) /\ Fit(heap, versions)
  BY DEF SInv, BInv
<1>3. Fit(heap', versions')
  <2>1. CASE applyRecord \/ applyEdit
    BY <2>1, RecordFits
  <2> QED BY <1>2, <2>1, StartKeeps, SaveFits, AppendKeeps, EndKeeps, ApplyFits, KeptFits
<1>4. builder.phase # "none" \/ (cut = 0 /\ edit \in Recorded) \/ builder' = builder
  <2>1. builder.v # 0 => builder.phase # "none"
    BY <1>2 DEF Right, Phases
  <2> QED BY <2>1 DEF Builder, applyRecord, applyEdit, SaveTo, AppendVersion, deleteBuilder, apply
<1>5. cut' = cut /\ edit' = edit
  BY DEF vars
<1>6. builder'.phase # "none" => cut' = 0 /\ edit' \in Recorded
  <2>1. CASE builder.phase # "none" \/ (cut = 0 /\ edit \in Recorded)
    BY <1>5, <2>1 DEF SInv
  <2>2. CASE builder' = builder
    BY <1>5, <2>2 DEF SInv
  <2> QED BY <1>4, <2>1, <2>2
<1> QED BY <1>1, <1>3, <1>6, Zenon DEF SInv

LEMMA SearchNext ==
  ASSUME SInv, [BuilderNext]_<<vars, builderVars>>
  PROVE  SInv'
<1>1. BInv'
  BY BuilderNextGood DEF SInv
<1>2. CASE edit_step \/ UNCHANGED <<vars, builderVars>>
  <2>1. heap' = heap /\ versions' = versions /\ builder' = builder
    BY <1>2 DEF edit_step, builderVars
  <2>2. cut' = cut /\ edit' = edit
    BY <1>2 DEF edit_step, vars, Next, number, deletedFile, newFile, endOfLoop
  <2> QED BY <1>1, <2>1, <2>2, Zenon DEF SInv
<1>3. CASE \/ version_step(Builder) \/ version_step(applyRecord) \/ version_step(applyEdit)
           \/ version_step(SaveTo) \/ version_step(AppendVersion) \/ version_step(deleteBuilder)
           \/ \E r \in KeyRanges : version_step(apply(r))
  BY <1>3, VersionFits DEF version_step
<1> QED BY <1>2, <1>3 DEF BuilderNext

(* Above level 0 every version's files ascend, in every reachable state.   *)
THEOREM SearchInductive == BuilderSpec => []SInv
BY SearchInit, SearchNext, PTL DEF BuilderSpec

LEMMA NotLess ==
  ASSUME NEW key \in Bytes
  PROVE  ~ Less(key, key)
<1>1. Len(key) \in Nat /\ Shorter(key, key) = Len(key)
  BY DEF Bytes, Shorter
<1>2. \A n \in 0 .. Len(key) : CommonPrefix(key, key, n) => n = Len(key)
  BY <1>1 DEF CommonPrefix
<1> QED BY <1>1, <1>2 DEF Less

(* Where files ascend, a key is in the range of one at most.               *)
LEMMA OneHit ==
  ASSUME NEW key \in Bytes, NEW s, NEW k \in Nat, s \in Seq(1 .. k), Ascending(heap, s),
         RangedAll(heap, 1 .. k),
         NEW i \in DOMAIN s, mayInFile(s[i], key), NEW j \in DOMAIN s, mayInFile(s[j], key)
  PROVE  i = j
<1> DEFINE S == 1 .. k
           lo(o) == heap[o].file.smallest.key
           hi(o) == heap[o].file.largest.key
<1>1. i \in Nat /\ j \in Nat /\ s \in Seq(S)
  OBVIOUS
<1>2. \A o \in S : lo(o) \in Bytes /\ hi(o) \in Bytes
  BY DEF RangedAll, Ranged
<1>3. \A m, n \in DOMAIN s : m < n => Less(hi(s[m]), lo(s[n]))
  BY DEF Ascending
<1>4. \A o : mayInFile(o, key) => LessEq(lo(o), key) /\ LessEq(key, hi(o))
  BY DEF mayInFile, file
<1> HIDE DEF S, lo, hi
<1>5. s[i] \in S /\ s[j] \in S
  BY <1>1
<1>6. ASSUME NEW m \in DOMAIN s, NEW n \in DOMAIN s, s[m] \in S, s[n] \in S,
             mayInFile(s[m], key), mayInFile(s[n], key), m < n
      PROVE  FALSE
  <2>1. Less(hi(s[m]), lo(s[n])) /\ LessEq(lo(s[n]), key) /\ LessEq(key, hi(s[m]))
    BY <1>3, <1>4, <1>6
  <2>2. Less(hi(s[m]), key)
    BY <1>2, <1>6, <2>1, LessEqTransitive
  <2>3. Less(key, key)
    BY <1>2, <1>6, <2>1, <2>2, LessEqTransitive
  <2> QED BY <2>3, NotLess
<1> QED BY <1>1, <1>5, <1>6

(* The files a get would read are all that may hold its key, for any edits *)
(* and any order of the operations.                                        *)
THEOREM SearchCorrect == BuilderSpec => []SearchListIsComplete
<1>1. ASSUME SInv PROVE SearchListIsComplete
  <2> DEFINE files == versions[current_].files_
             k == Len(heap)
  <2>1. /\ DOMAIN heap = 1 .. k /\ k \in Nat /\ files \in FileLists(k)
        /\ RangedAll(heap, 1 .. k) /\ Fits(heap, files)
    <3>1. Right(heap, versions, current_, builder) /\ Fit(heap, versions)
      BY <1>1 DEF SInv, BInv
    <3> QED BY <3>1, RightHas DEF Fit
  <2> DEFINE hits(l, key) == {i \in DOMAIN files[l] : mayInFile(files[l][i], key)}
             read(l, key) == IF l = 0 \/ hits(l, key) = {} THEN hits(l, key)
                             ELSE {Min(hits(l, key))}
  <2>2. ASSUME NEW key \in Bytes, NEW l \in Level PROVE read(l, key) = hits(l, key)
    <3> DEFINE H == hits(l, key)
    <3>1. CASE l # 0 /\ H # {}
      <4>1. files[l] \in Seq(1 .. k) /\ Ascending(heap, files[l])
        <5>1. l > 0
          BY <3>1 DEF Level
        <5> HIDE DEF files, k
        <5> QED BY <2>1, <5>1 DEF FileLists, Fits
      <4>2. PICK i : i \in H
        BY <3>1
      <4>3. \A j \in H : j = i
        BY <2>1, <4>1, <4>2, OneHit
      <4>4. i \in Int /\ H = {i}
        BY <4>1, <4>2, <4>3
      <4> HIDE DEF H
      <4>5. Min(H) = i
        BY <4>4 DEF Min
      <4> QED BY <3>1, <4>4, <4>5 DEF H
    <3> QED BY <3>1
  <2>3. ASSUME NEW key \in Bytes
        PROVE  search_list(current_, key) =
                 {o \in DOMAIN heap : mayInFile(o, key)
                                      /\ \E level \in Level : o \in ToSet(files[level])}
    <3>1. search_list(current_, key) = UNION {{files[l][i] : i \in read(l, key)} : l \in Level}
      BY Zenon DEF search_list
    <3>2. \A l \in Level : \A o \in ToSet(files[l]) : o \in DOMAIN heap
      BY <2>1 DEF ToSet, FileLists
    <3>3. \A l \in Level : {files[l][i] : i \in read(l, key)}
                             = {o \in ToSet(files[l]) : mayInFile(o, key)}
      <4> TAKE l \in Level
      <4>1. read(l, key) = hits(l, key)
        BY <2>2
      <4> HIDE DEF read, files
      <4> QED BY <4>1 DEF ToSet
    <3> DEFINE found(l) == {files[l][i] : i \in read(l, key)}
    <3>4. search_list(current_, key) = UNION {found(l) : l \in Level}
      BY <3>1
    <3> HIDE DEF found, read, hits, files
    <3>5. \A l \in Level : found(l) = {o \in ToSet(files[l]) : mayInFile(o, key)}
      BY <3>3 DEF found
    <3> HIDE DEF found
    <3> QED BY <3>2, <3>4, <3>5
  <2>4. \A r \in KeyRanges : r[1].key \in Bytes /\ r[2].key \in Bytes
    BY VersionBuilderAssumption DEF Ranged
  <2>5. \A key \in UNION {{r[1].key, r[2].key} : r \in KeyRanges} : key \in Bytes
    BY <2>4
  <2> QED BY <2>3, <2>5 DEF SearchListIsComplete
<1> QED BY <1>1, SearchInductive, PTL
-----------------------------------------------------------------------------
(* The order of files.                                                     *)
LEMMA LessTotal ==
  ASSUME NEW a \in Bytes, NEW b \in Bytes
  PROVE  a = b \/ Less(a, b) \/ Less(b, a)
<1> DEFINE m == Shorter(a, b)
           D == {i \in Nat : i < m /\ a[i + 1] # b[i + 1]}
<1>1. /\ m \in Nat /\ m <= Len(a) /\ m <= Len(b) /\ (m = Len(a) \/ m = Len(b))
      /\ Shorter(b, a) = m
  BY ShorterType DEF Shorter, Bytes
<1>2. Len(a) \in Nat /\ Len(b) \in Nat
  BY DEF Bytes
<1> HIDE DEF m
<1>3. CASE D # {}
  <2>1. PICK n \in D : \A j \in D : n <= j
    BY <1>3, SmallestExists
  <2>2. n \in 0 .. m /\ n < m /\ a[n + 1] # b[n + 1]
    BY <1>1
  <2>3. \A i \in 1 .. n : a[i] = b[i]
    <3> TAKE i \in 1 .. n
    <3>1. i - 1 \in Nat /\ i - 1 < n /\ i - 1 < m /\ i - 1 + 1 = i
      BY <1>1, <2>2
    <3>2. i - 1 \notin D
      BY <2>1, <3>1
    <3> QED BY <3>1, <3>2
  <2>4. CommonPrefix(a, b, n) /\ CommonPrefix(b, a, n)
    BY <1>1, <2>2, <2>3 DEF CommonPrefix, m
  <2>5. a[n + 1] \in Nat /\ b[n + 1] \in Nat
    <3>1. n + 1 \in DOMAIN a /\ n + 1 \in DOMAIN b
      BY <1>1, <1>2, <2>2 DEF Bytes
    <3>2. Byte \subseteq Nat /\ a \in Seq(Byte) /\ b \in Seq(Byte)
      BY DEF Byte, Bytes
    <3> HIDE DEF Byte
    <3>3. a[n + 1] \in Byte /\ b[n + 1] \in Byte
      BY <3>1, <3>2
    <3> QED BY <3>2, <3>3
  <2>6. a[n + 1] < b[n + 1] \/ b[n + 1] < a[n + 1]
    BY <2>2, <2>5
  <2>7. n # m
    BY <1>1, <2>2
  <2> QED BY <1>1, <2>2, <2>4, <2>6, <2>7 DEF Less, m
<1>4. CASE D = {}
  <2>1. \A i \in 1 .. m : a[i] = b[i]
    <3> TAKE i \in 1 .. m
    <3>1. i - 1 \in Nat /\ i - 1 < m /\ i - 1 + 1 = i
      BY <1>1
    <3> QED BY <1>4, <3>1
  <2>2. CommonPrefix(a, b, m) /\ CommonPrefix(b, a, m) /\ m \in 0 .. m
    BY <1>1, <2>1 DEF CommonPrefix, m
  <2>3. CASE Len(a) # Len(b)
    <3>1. Len(a) < Len(b) \/ Len(b) < Len(a)
      BY <1>2, <2>3
    <3> QED BY <1>1, <2>2, <3>1 DEF Less, m
  <2>4. CASE Len(a) = Len(b)
    <3>1. m = Len(a) /\ a \in Seq(Byte) /\ b \in Seq(Byte)
      BY <1>1, <2>4 DEF Bytes
    <3>2. DOMAIN a = 1 .. m /\ DOMAIN b = 1 .. m
      BY <2>4, <3>1
    <3>3. a = [i \in DOMAIN a |-> a[i]] /\ b = [i \in DOMAIN b |-> b[i]]
      BY <3>1, SeqIsFunction
    <3> QED BY <2>1, <3>2, <3>3
  <2> QED BY <2>3, <2>4
<1> QED BY <1>3, <1>4

Sorted1(x) == x.number \in Nat /\ Ranged(x.smallest, x.largest)
KeyOf(x) == x.smallest.key

LEMMA FilesOrder ==
  ASSUME NEW x, Sorted1(x), NEW y, Sorted1(y)
  PROVE  /\ BySmallestKey(x, y) => ~ BySmallestKey(y, x)
         /\ x.number # y.number => BySmallestKey(x, y) \/ BySmallestKey(y, x)
         /\ BySmallestKey(x, y) => LessEq(KeyOf(x), KeyOf(y))
         /\ ~ BySmallestKey(x, y) => LessEq(KeyOf(y), KeyOf(x))
         /\ \A z : Sorted1(z) /\ BySmallestKey(x, y) /\ BySmallestKey(y, z) => BySmallestKey(x, z)
<1> DEFINE a == KeyOf(x)
           b == KeyOf(y)
<1>1. a \in Bytes /\ b \in Bytes /\ x.number \in Nat /\ y.number \in Nat
  BY DEF Sorted1, Ranged, KeyOf
<1>2. /\ BySmallestKey(x, y) <=> Less(a, b) \/ (a = b /\ x.number < y.number)
      /\ BySmallestKey(y, x) <=> Less(b, a) \/ (a = b /\ y.number < x.number)
  BY DEF BySmallestKey, KeyOf
<1>3. ~ (Less(a, b) /\ Less(b, a)) /\ ~ Less(a, a)
  BY <1>1, NotLess, LessTransitive
<1>4. a = b \/ Less(a, b) \/ Less(b, a)
  BY <1>1, LessTotal
<1>5. ASSUME NEW z, Sorted1(z), BySmallestKey(x, y), BySmallestKey(y, z)
      PROVE  BySmallestKey(x, z)
  <2> DEFINE c == KeyOf(z)
  <2>1. c \in Bytes /\ z.number \in Nat
    BY <1>5 DEF Sorted1, Ranged, KeyOf
  <2>2. /\ BySmallestKey(y, z) <=> Less(b, c) \/ (b = c /\ y.number < z.number)
        /\ BySmallestKey(x, z) <=> Less(a, c) \/ (a = c /\ x.number < z.number)
    BY DEF BySmallestKey, KeyOf
  <2> HIDE DEF a, b, c
  <2>3. Less(a, b) /\ Less(b, c) => Less(a, c)
    BY <1>1, <2>1, LessTransitive
  <2> QED BY <1>1, <1>2, <1>5, <2>1, <2>2, <2>3
<1> HIDE DEF a, b
<1>6. /\ BySmallestKey(x, y) => ~ BySmallestKey(y, x)
      /\ x.number # y.number => BySmallestKey(x, y) \/ BySmallestKey(y, x)
  BY <1>1, <1>2, <1>3, <1>4
<1>7. /\ BySmallestKey(x, y) => LessEq(a, b)
      /\ ~ BySmallestKey(x, y) => LessEq(b, a)
  BY <1>2, <1>4 DEF LessEq
<1> QED BY <1>5, <1>6, <1>7 DEF a, b

(* The bisection finds the place where the later files begin.              *)
FilesOk(S) == \A o \in S : Sorted1(file(o))
FilesInOrder(s) == \A i, j \in DOMAIN s : i < j => BySmallestKey(file(s[i]), file(s[j]))

Halved(files, first, x, r) ==
  /\ \A j \in DOMAIN files : first <= j /\ j < r.first => ~ BySmallestKey(file(x), file(files[j]))
  /\ \A j \in DOMAIN files : r.first + r.len <= j => BySmallestKey(file(x), file(files[j]))

LEMMA HalveHalves ==
  ASSUME NEW S, FilesOk(S), NEW files \in Seq(S), FilesInOrder(files), NEW x \in S,
         NEW first \in Nat, first >= 1, NEW r \in Range1(first, Len(files)),
         Halved(files, first, x, r)
  PROVE  /\ Halved(files, first, x, halve(files, x, r))
         /\ r.len # 0 => halve(files, x, r).len < r.len
         /\ r.len = 0 => halve(files, x, r) = r
<1> DEFINE m == r.len
           c == r.first
           q == m \div 2
           n == Len(files)
           s == halve(files, x, r)
           B(j) == BySmallestKey(file(x), file(files[j]))
<1>1. /\ r = [first |-> c, len |-> m] /\ m \in Nat /\ c \in Nat /\ first <= c /\ c + m <= n + 1
      /\ n \in Nat /\ DOMAIN files = 1 .. n
  BY DEF Range1
<1>2. m # 0 => q \in Nat /\ q < m
  <2> HIDE DEF m
  <2> QED BY <1>1
<1>3. /\ m = 0 => s = r
      /\ m # 0 /\ B(c + q) => s = [r EXCEPT !.len = q]
      /\ m # 0 /\ ~ B(c + q) => s = [first |-> c + q + 1, len |-> m - q - 1]
  BY DEF halve
<1>4. [r EXCEPT !.len = q] = [first |-> c, len |-> q]
  <2> HIDE DEF m, c, q
  <2> QED BY <1>1
<1>5. /\ \A j \in 1 .. n : first <= j /\ j < c => ~ B(j)
      /\ \A j \in 1 .. n : c + m <= j => B(j)
  BY <1>1 DEF Halved
<1>6. \A j, k \in 1 .. n : j < k /\ B(j) => B(k)
  <2> TAKE j, k \in 1 .. n
  <2>1. files[j] \in S /\ files[k] \in S
    BY <1>1
  <2>2. j < k => BySmallestKey(file(files[j]), file(files[k]))
    BY <1>1 DEF FilesInOrder
  <2> QED BY <2>1, <2>2, FilesOrder DEF FilesOk
<1> HIDE DEF m, c, q, s, n, B
<1>7. CASE m = 0
  BY <1>3, <1>7 DEF m, s
<1>8. CASE m # 0 /\ B(c + q)
  <2>1. c + q \in 1 .. n
    BY <1>1, <1>2, <1>8
  <2>2. \A j \in 1 .. n : c + q <= j => B(j)
    <3> TAKE j \in 1 .. n
    <3>1. CASE j = c + q
      BY <1>8, <3>1
    <3>2. CASE c + q < j
      BY <1>6, <1>8, <2>1, <3>2
    <3> QED BY <1>1, <1>2, <1>8, <3>1, <3>2
  <2>3. s.first = c /\ s.len = q
    BY <1>3, <1>4, <1>8
  <2>4. Halved(files, first, x, s)
    BY <1>1, <1>5, <2>2, <2>3 DEF Halved, B
  <2> QED BY <1>2, <1>8, <2>3, <2>4 DEF s, m
<1>9. CASE m # 0 /\ ~ B(c + q)
  <2>1. c + q \in 1 .. n
    BY <1>1, <1>2, <1>9
  <2>2. \A j \in 1 .. n : j < c + q + 1 => ~ B(j)
    <3> TAKE j \in 1 .. n
    <3>1. CASE j = c + q
      BY <1>9, <3>1
    <3>2. CASE j < c + q
      BY <1>6, <1>9, <2>1, <3>2
    <3> QED BY <1>1, <1>2, <1>9, <3>1, <3>2
  <2>3. s.first = c + q + 1 /\ s.len = m - q - 1 /\ c + q + 1 + (m - q - 1) = c + m
    BY <1>1, <1>2, <1>3, <1>9
  <2>4. Halved(files, first, x, s)
    BY <1>1, <1>5, <2>2, <2>3 DEF Halved, B
  <2>5. m - q - 1 < m
    BY <1>1, <1>2, <1>9
  <2> QED BY <1>9, <2>3, <2>4, <2>5 DEF s, m
<1> QED BY <1>7, <1>8, <1>9

LEMMA Bisected ==
  ASSUME NEW S, FilesOk(S), NEW files \in Seq(S), FilesInOrder(files), NEW x \in S,
         NEW first \in 1 .. Len(files) + 1
  PROVE  LET q == upper_bound(files, first, x)
         IN /\ \A j \in DOMAIN files : first <= j /\ j < q =>
                                         ~ BySmallestKey(file(x), file(files[j]))
            /\ \A j \in DOMAIN files : q <= j => BySmallestKey(file(x), file(files[j]))
<1> DEFINE n == Len(files)
<1>1. n \in Nat /\ first \in Nat /\ first >= 1 /\ DOMAIN files = 1 .. n /\ first <= n + 1
  OBVIOUS
<1>2. PICK t : /\ upper_bound(files, first, x) = t[n].first
               /\ t = [i \in 0 .. n |-> IF i = 0 THEN [first |-> first, len |-> n + 1 - first]
                         ELSE halve(files, x, t[i - 1])]
               /\ \A i \in 0 .. n : t[i] \in Range1(first, n)
  BY BoundSteps
<1> DEFINE D == {i \in 0 .. n : Halved(files, first, x, t[i])
                                /\ (t[i].len = 0 \/ t[i].len + i <= n)}
<1>3. 0 \in D
  <2>1. t[0] = [first |-> first, len |-> n + 1 - first] /\ 0 \in 0 .. n
    <3> HIDE DEF n
    <3> QED BY <1>1, <1>2
  <2> HIDE DEF n
  <2>2. t[0].first = first /\ t[0].len = n + 1 - first /\ first + (n + 1 - first) = n + 1
    BY <1>1, <2>1
  <2>3. Halved(files, first, x, t[0])
    BY <1>1, <2>2 DEF Halved
  <2>4. t[0].len + 0 <= n
    BY <1>1, <2>2
  <2> QED BY <2>1, <2>3, <2>4
<1>4. ASSUME NEW i \in 1 .. n, i - 1 \in D PROVE i \in D
  <2> DEFINE r == t[i - 1]
             s == t[i]
  <2>1. i \in 0 .. n /\ i # 0 /\ i - 1 \in 0 .. n
    OBVIOUS
  <2>2. s = halve(files, x, r)
    <3> HIDE DEF n
    <3> QED BY <1>2, <2>1
  <2>3. r \in Range1(first, n) /\ s \in Range1(first, n)
    BY <1>2, <2>1
  <2>4. Halved(files, first, x, r) /\ (r.len = 0 \/ r.len + (i - 1) <= n)
    BY <1>4
  <2> HIDE DEF r, s, D
  <2>5. /\ Halved(files, first, x, s) /\ (r.len # 0 => s.len < r.len)
        /\ (r.len = 0 => s = r)
    BY <1>1, <2>2, <2>3, <2>4, HalveHalves
  <2>6. s.len \in Nat /\ r.len \in Nat
    BY <2>3 DEF Range1
  <2>7. s.len = 0 \/ s.len + i <= n
    <3> HIDE DEF n
    <3> QED BY <1>1, <2>1, <2>4, <2>5, <2>6
  <2> QED BY <2>1, <2>5, <2>7 DEF D, s
<1>5. n \in D
  <2>1. n \in 0 .. n
    OBVIOUS
  <2> HIDE DEF D, n
  <2> QED BY <1>1, <1>3, <1>4, <2>1, Reaches
<1> DEFINE b == t[n].len
           q == t[n].first
<1>6. q \in Nat /\ b \in Nat
  <2>1. n \in 0 .. n
    OBVIOUS
  <2> QED BY <1>2, <2>1 DEF Range1
<1>7. Halved(files, first, x, t[n]) /\ (b = 0 \/ b + n <= n)
  BY <1>5
<1> HIDE DEF b, q, n, D
<1>8. q + b = q
  BY <1>1, <1>6, <1>7
<1> QED BY <1>2, <1>7, <1>8 DEF Halved, q, b

-----------------------------------------------------------------------------
(* What a list has of the files X: those not deleted, each once; and when  *)
(* an assert failed, two of them overlap.                                  *)
Kept(level, X) == {o \in X : file(o).number \notin builder.deleted_files[level]}
Clash(X) == \E o, p \in X : o # p /\ Overlap(file(o), file(p))
Merged(level, s, X) ==
  /\ Distinct(s.files)
  /\ \A o : Has(s.files, o) <=> o \in Kept(level, X)
  /\ ~ s.ok => level > 0 /\ Clash(Kept(level, X))
Before(X, o) == \A p \in X : LessEq(KeyOf(file(p)), KeyOf(file(o)))

LEMMA AppendHas ==
  ASSUME NEW S, NEW s \in Seq(S), NEW o \in S
  PROVE  /\ \A x : Has(Append(s, o), x) <=> Has(s, x) \/ x = o
         /\ Distinct(s) /\ ~ Has(s, o) => Distinct(Append(s, o))
<1> DEFINE n == Len(s)
           t == Append(s, o)
<1>1. n \in Nat /\ DOMAIN s = 1 .. n
  OBVIOUS
<1>2. DOMAIN t = 1 .. n + 1 /\ t[n + 1] = o /\ \A i \in 1 .. n : t[i] = s[i]
  OBVIOUS
<1> HIDE DEF n, t
<1>3. \A i \in 1 .. n + 1 : i \in 1 .. n \/ i = n + 1
  BY <1>1
<1>4. \A i \in 1 .. n : i \in 1 .. n + 1
  BY <1>1
<1>5. n + 1 \in 1 .. n + 1
  BY <1>1
<1>6. \A x : Has(t, x) <=> Has(s, x) \/ x = o
  BY <1>1, <1>2, <1>3, <1>4, <1>5 DEF Has
<1>7. Distinct(s) /\ ~ Has(s, o) => Distinct(t)
  BY <1>1, <1>2, <1>3 DEF Has, Distinct
<1> QED BY <1>6, <1>7 DEF t

LEMMA MaybeMerges ==
  ASSUME NEW S, FilesOk(S), NEW level, NEW s \in Saved(S, level), NEW X \in SUBSET S,
         Merged(level, s, X), NEW o \in S, o \notin X, level > 0 => Before(X, o)
  PROVE  Merged(level, MaybeAddFile(s, level, o), X \cup {o})
<1> DEFINE fs == Append(s.files, o)
           ok == s.ok /\ (level > 0 => EndsBefore(s.files, o))
           Y == Kept(level, X)
           Z == Kept(level, X \cup {o})
<1>1. s.files \in Seq(S) /\ s.ok \in BOOLEAN
  BY DEF Saved
<1>2. /\ Distinct(s.files) /\ \A x : Has(s.files, x) <=> x \in Y
      /\ ~ s.ok => level > 0 /\ Clash(Y)
  BY DEF Merged
<1>3. CASE file(o).number \in builder.deleted_files[level]
  <2>1. Z = Y
    BY <1>3 DEF Kept
  <2>2. MaybeAddFile(s, level, o) = s
    BY <1>3 DEF MaybeAddFile
  <2> QED BY <1>2, <2>1, <2>2 DEF Merged
<1>4. CASE file(o).number \notin builder.deleted_files[level]
  <2>1. Z = Y \cup {o} /\ o \notin Y
    BY <1>4 DEF Kept
  <2>2. MaybeAddFile(s, level, o) = [files |-> fs, ok |-> ok]
    BY <1>4 DEF MaybeAddFile
  <2>3. Distinct(fs) /\ \A x : Has(fs, x) <=> x \in Z
    <3> HIDE DEF Y, Z
    <3> QED BY <1>1, <1>2, <2>1, AppendHas
  <2>4. ASSUME ~ ok PROVE level > 0 /\ Clash(Z)
    <3>1. CASE ~ s.ok
      BY <1>2, <2>1, <3>1 DEF Clash
    <3>2. CASE level > 0 /\ ~ EndsBefore(s.files, o)
      <4> DEFINE p == s.files[Len(s.files)]
      <4>1. s.files # <<>> /\ ~ Less(file(p).largest.key, file(o).smallest.key)
        BY <3>2, Zenon DEF EndsBefore
      <4>2. Len(s.files) \in DOMAIN s.files
        BY <1>1, <4>1
      <4>3. p \in Y
        BY <1>2, <4>2 DEF Has
      <4>4. p \in X /\ p \in S /\ p # o /\ p \in Z /\ o \in Z
        BY <2>1, <4>3 DEF Kept
      <4>5. Sorted1(file(p)) /\ Sorted1(file(o)) /\ LessEq(KeyOf(file(p)), KeyOf(file(o)))
        BY <3>2, <4>4 DEF FilesOk, Before
      <4> HIDE DEF p, Y, Z
      <4>6. Overlap(file(p), file(o))
        <5> DEFINE a == file(p).smallest.key
                   b == file(p).largest.key
                   c == file(o).smallest.key
                   d == file(o).largest.key
        <5>1. a \in Bytes /\ b \in Bytes /\ c \in Bytes /\ d \in Bytes /\ LessEq(c, d)
              /\ LessEq(a, c) /\ ~ Less(b, c)
          BY <4>1, <4>5 DEF Sorted1, Ranged, KeyOf, p
        <5> HIDE DEF a, b, c, d
        <5>2. LessEq(a, d)
          BY <5>1, LessEqTransitive
        <5>3. LessEq(c, b)
          BY <5>1, LessTotal DEF LessEq
        <5> QED BY <5>2, <5>3 DEF Overlap, a, b, c, d
      <4> QED BY <3>2, <4>4, <4>6 DEF Clash
    <3> QED BY <2>4, <3>1, <3>2
  <2> HIDE DEF fs, ok, Y
  <2> QED BY <2>2, <2>3, <2>4 DEF Merged
<1> QED BY <1>3, <1>4

LEMMA AllMerge ==
  ASSUME NEW S, FilesOk(S), NEW level, NEW s \in Saved(S, level), NEW X \in SUBSET S,
         Merged(level, s, X), NEW files \in Seq(S), Distinct(files),
         \A i \in DOMAIN files : files[i] \notin X,
         level > 0 => /\ \A i \in DOMAIN files : Before(X, files[i])
                      /\ \A i, j \in DOMAIN files : i < j =>
                           LessEq(KeyOf(file(files[i])), KeyOf(file(files[j])))
  PROVE  Merged(level, AddAll(s, level, files), X \cup ToSet(files))
<1> DEFINE n == Len(files)
           Up(i) == X \cup {files[j] : j \in 1 .. i}
<1>1. n \in Nat /\ DOMAIN files = 1 .. n /\ \A i \in 1 .. n : files[i] \in S
  OBVIOUS
<1>2. PICK t : /\ AddAll(s, level, files) = t[n]
               /\ t = [i \in 0 .. n |-> IF i = 0 THEN s
                         ELSE MaybeAddFile(t[i - 1], level, files[i])]
               /\ \A i \in 0 .. n : t[i] \in Saved(S, level)
  BY AddAllSteps
<1> HIDE DEF n
<1> DEFINE D == {i \in 0 .. n : Merged(level, t[i], Up(i))}
<1>3. 0 \in D
  <2>1. t[0] = s /\ 0 \in 0 .. n
    BY <1>1, <1>2
  <2>2. Up(0) = X
    OBVIOUS
  <2> HIDE DEF Up
  <2> QED BY <2>1, <2>2
<1>4. ASSUME NEW i \in 1 .. n, i - 1 \in D PROVE i \in D
  <2>1. i \in 0 .. n /\ i # 0 /\ i - 1 \in 0 .. n /\ i \in Nat
    BY <1>1
  <2>2. t[i] = MaybeAddFile(t[i - 1], level, files[i])
    BY <1>2, <2>1
  <2>3. Merged(level, t[i - 1], Up(i - 1)) /\ t[i - 1] \in Saved(S, level)
    BY <1>2, <1>4, <2>1
  <2>4. \A j \in 1 .. i - 1 : j \in 1 .. n /\ j < i
    BY <1>1
  <2>5. 1 .. i = 1 .. i - 1 \cup {i}
    BY <2>1
  <2>6. Up(i) = Up(i - 1) \cup {files[i]}
    BY <2>5
  <2>7. Up(i - 1) \in SUBSET S
    BY <1>1, <2>4
  <2>8. files[i] \notin Up(i - 1)
    BY <1>1, <2>4 DEF Distinct
  <2>9. level > 0 => Before(Up(i - 1), files[i])
    BY <1>1, <2>4 DEF Before
  <2> HIDE DEF Up, D
  <2>10. Merged(level, t[i], Up(i))
    BY <1>1, <2>2, <2>3, <2>6, <2>7, <2>8, <2>9, MaybeMerges
  <2> QED BY <2>1, <2>10 DEF D
<1>5. n \in D
  <2>1. n \in 0 .. n
    BY <1>1
  <2> HIDE DEF D
  <2> QED BY <1>1, <1>3, <1>4, <2>1, Reaches
<1>6. Up(n) = X \cup ToSet(files)
  BY <1>1 DEF ToSet
<1> HIDE DEF Up
<1> QED BY <1>2, <1>5, <1>6

(* The files that the rounds of a SaveTo have been through.                *)
Taken(base, added, iter, i) == {base[j] : j \in 1 .. iter - 1} \cup {added[j] : j \in 1 .. i}
Sources(S, level, base, added) ==
  /\ base \in Seq(S) /\ added \in Seq(S) /\ Distinct(base) /\ Distinct(added)
  /\ \A i \in DOMAIN base, j \in DOMAIN added : base[i] # added[j]
  /\ FilesInOrder(added) /\ (level > 0 => FilesInOrder(base))
Up(level, base, added, s, i) ==
  /\ Merged(level, [files |-> s.files, ok |-> s.ok], Taken(base, added, s.iter, i))
  /\ level > 0 => \A x \in Taken(base, added, s.iter, i) :
       /\ \A j \in DOMAIN base : s.iter <= j => LessEq(KeyOf(file(x)), KeyOf(file(base[j])))
       /\ \A j \in DOMAIN added : i < j => LessEq(KeyOf(file(x)), KeyOf(file(added[j])))

LEMMA InOrderSays ==
  ASSUME NEW S, FilesOk(S), NEW s \in Seq(S), FilesInOrder(s)
  PROVE  \A i, j \in DOMAIN s : i < j => LessEq(KeyOf(file(s[i])), KeyOf(file(s[j])))
<1> TAKE i, j \in DOMAIN s
<1>1. s[i] \in S /\ s[j] \in S
  OBVIOUS
<1>2. Sorted1(file(s[i])) /\ Sorted1(file(s[j]))
  BY <1>1 DEF FilesOk
<1> QED BY <1>2, FilesOrder DEF FilesInOrder

LEMMA PartOf ==
  ASSUME NEW S, NEW base \in Seq(S), NEW a \in 1 .. Len(base) + 1, NEW q \in a .. Len(base) + 1
  PROVE  LET l == SubSeq(base, a, q - 1)
         IN l \in Seq(S) /\ Len(l) = q - a /\ \A j \in 1 .. q - a : l[j] = base[a + j - 1]
<1> DEFINE n == Len(base)
           l == SubSeq(base, a, q - 1)
<1>1. n \in Nat /\ a \in Nat /\ q \in Nat /\ 1 <= a /\ a <= q /\ q <= n + 1 /\ DOMAIN base = 1 .. n
  OBVIOUS
<1>2. \A i \in a .. q - 1 : base[i] \in S
  <2> TAKE i \in a .. q - 1
  <2>1. i \in 1 .. n
    BY <1>1
  <2> HIDE DEF n
  <2> QED BY <1>1, <2>1
<1>3. /\ l \in Seq(S) /\ Len(l) = (IF a <= q - 1 THEN q - 1 - a + 1 ELSE 0)
      /\ \A i \in 1 .. q - 1 - a + 1 : l[i] = base[a + i - 1]
  BY <1>1, <1>2, SubSeqProperties
<1> HIDE DEF n, l
<1>4. q - 1 - a + 1 = q - a /\ (a <= q - 1 \/ q - a = 0)
  BY <1>1
<1> QED BY <1>1, <1>3, <1>4 DEF l

LEMMA ListUpTo ==
  ASSUME NEW S, NEW base \in Seq(S), NEW a \in 1 .. Len(base) + 1, NEW q \in a .. Len(base) + 1,
         NEW o \in S
  PROVE  LET l == Append(SubSeq(base, a, q - 1), o)
         IN /\ l \in Seq(S) /\ DOMAIN l = 1 .. q - a + 1 /\ l[q - a + 1] = o
            /\ \A j \in 1 .. q - a : l[j] = base[a + j - 1]
<1> DEFINE p == SubSeq(base, a, q - 1)
           l == Append(p, o)
<1>1. p \in Seq(S) /\ Len(p) = q - a /\ \A j \in 1 .. q - a : p[j] = base[a + j - 1]
  BY PartOf
<1> HIDE DEF p
<1>2. /\ l \in Seq(S) /\ DOMAIN l = 1 .. q - a + 1 /\ l[q - a + 1] = o
      /\ \A j \in 1 .. q - a : l[j] = p[j]
  BY <1>1, AppendFacts
<1> HIDE DEF l
<1> QED BY <1>1, <1>2 DEF l, p

LEMMA RoundMerges ==
  ASSUME NEW S, FilesOk(S), NEW level, NEW base, NEW added, Sources(S, level, base, added),
         NEW i \in DOMAIN added, NEW s \in Round(S, level, Len(base)),
         Up(level, base, added, s, i - 1)
  PROVE  Up(level, base, added, addUpTo(s, level, base, added[i]), i)
<1> DEFINE n == Len(base)
           a == s.iter
           o == added[i]
           q == upper_bound(base, a, o)
           l == Append(SubSeq(base, a, q - 1), o)
           s0 == [files |-> s.files, ok |-> s.ok]
           t == AddAll(s0, level, l)
           X == Taken(base, added, a, i - 1)
           Y == Taken(base, added, q, i)
           K(x) == KeyOf(file(x))
<1>1. /\ n \in Nat /\ base \in Seq(S) /\ DOMAIN base = 1 .. n /\ Distinct(base)
      /\ added \in Seq(S) /\ DOMAIN added = 1 .. Len(added) /\ Distinct(added) /\ Len(added) \in Nat
      /\ i \in 1 .. Len(added) /\ i \in Nat /\ o \in S
  BY DEF Sources
<1>2. /\ a \in 1 .. n + 1 /\ s.files \in Seq(S) /\ s.ok \in BOOLEAN
      /\ AscendingIf(heap, S, level, s.files, s.ok)
  BY DEF Round
<1>3. q \in a .. n + 1
  BY <1>1, <1>2, BoundIs
<1>4. s0 \in Saved(S, level)
  BY <1>2 DEF Saved
<1>5. /\ Merged(level, s0, X)
      /\ level > 0 => \A x \in X :
           /\ \A j \in 1 .. n : a <= j => LessEq(K(x), K(base[j]))
           /\ \A j \in 1 .. Len(added) : i - 1 < j => LessEq(K(x), K(added[j]))
  BY <1>1 DEF Up
<1>6. level > 0 => /\ \A j \in 1 .. n : a <= j /\ j < q =>
                        ~ BySmallestKey(file(o), file(base[j]))
                   /\ \A j \in 1 .. n : q <= j => BySmallestKey(file(o), file(base[j]))
  BY <1>1, <1>2, Bisected DEF Sources
<1>7. addUpTo(s, level, base, o) = [files |-> t.files, ok |-> t.ok, iter |-> q]
  BY DEF addUpTo
<1> HIDE DEF a, n, s0, K, q
<1>8. a \in Nat /\ q \in Nat /\ 1 <= a /\ a <= q /\ q <= n + 1
  BY <1>1, <1>2, <1>3
<1>9. /\ l \in Seq(S) /\ DOMAIN l = 1 .. q - a + 1 /\ l[q - a + 1] = o
      /\ \A j \in 1 .. q - a : l[j] = base[a + j - 1]
  BY <1>1, <1>2, <1>3, ListUpTo DEF n
<1> HIDE DEF l, t, o
<1>10. ASSUME NEW j \in 1 .. q - a + 1
       PROVE  \/ j = q - a + 1 /\ l[j] = o
              \/ /\ j < q - a + 1 /\ l[j] = base[a + j - 1] /\ a + j - 1 \in 1 .. n
                 /\ a <= a + j - 1 /\ a + j - 1 < q
  <2>1. j = q - a + 1 \/ j \in 1 .. q - a
    BY <1>8
  <2>2. CASE j \in 1 .. q - a
    <3>1. /\ j < q - a + 1 /\ a + j - 1 \in 1 .. n /\ a <= a + j - 1 /\ a + j - 1 < q
      BY <1>1, <1>8, <2>2
    <3> QED BY <1>9, <2>2, <3>1
  <2> QED BY <1>9, <2>1, <2>2
<1>11. \A m \in 1 .. n : base[m] # o
  BY <1>1 DEF Sources, o
<1>12. Distinct(l)
  <2>1. ASSUME NEW j \in 1 .. q - a + 1, NEW m \in 1 .. q - a + 1, l[j] = l[m] PROVE j = m
    <3>1. CASE j = q - a + 1 /\ m = q - a + 1
      BY <3>1
    <3>2. CASE j < q - a + 1 /\ m < q - a + 1
      <4>1. /\ base[a + j - 1] = base[a + m - 1] /\ a + j - 1 \in 1 .. n /\ a + m - 1 \in 1 .. n
        BY <1>10, <2>1, <3>2
      <4>2. a + j - 1 = a + m - 1
        BY <1>1, <4>1 DEF Distinct
      <4> QED BY <1>8, <4>2
    <3>3. CASE ~ (j < q - a + 1 <=> m < q - a + 1)
      BY <1>10, <1>11, <2>1, <3>3
    <3>4. j <= q - a + 1 /\ m <= q - a + 1 /\ j \in Int /\ m \in Int
      BY <1>8
    <3> QED BY <1>8, <3>1, <3>2, <3>3, <3>4
  <2> QED BY <1>9, <2>1 DEF Distinct
<1>13. X \in SUBSET S
  <2>1. \A j \in 1 .. a - 1 : j \in 1 .. n
    BY <1>1, <1>8
  <2>2. \A j \in 1 .. i - 1 : j \in 1 .. Len(added)
    BY <1>1
  <2>3. (\A j \in 1 .. n : base[j] \in S) /\ \A j \in 1 .. Len(added) : added[j] \in S
    BY <1>1
  <2> QED BY <2>1, <2>2, <2>3 DEF Taken
<1>14. ASSUME NEW j \in DOMAIN l PROVE l[j] \notin X
  <2>1. \A m \in 1 .. a - 1 : m \in 1 .. n /\ m < a
    BY <1>1, <1>8
  <2>2. \A m \in 1 .. i - 1 : m \in 1 .. Len(added) /\ m # i
    BY <1>1
  <2>3. ASSUME NEW m \in 1 .. a - 1 PROVE l[j] # base[m]
    <3>1. CASE l[j] = o
      BY <1>11, <2>1, <3>1
    <3>2. CASE l[j] = base[a + j - 1] /\ a + j - 1 \in 1 .. n /\ a <= a + j - 1
      <4>1. m # a + j - 1 /\ m \in 1 .. n
        BY <1>1, <1>8, <2>1, <3>2
      <4> QED BY <1>1, <3>2, <4>1 DEF Distinct
    <3> QED BY <1>9, <1>10, <3>1, <3>2
  <2>4. ASSUME NEW m \in 1 .. i - 1 PROVE l[j] # added[m]
    <3>1. added[m] # o
      BY <1>1, <2>2 DEF Distinct, o
    <3>2. \A k \in 1 .. n : base[k] # added[m]
      BY <1>1, <2>2 DEF Sources
    <3> QED BY <1>9, <1>10, <3>1, <3>2
  <2> QED BY <2>3, <2>4 DEF Taken
<1>15. /\ \A m \in 1 .. n : base[m] \in S /\ Sorted1(file(base[m]))
       /\ \A m \in 1 .. Len(added) : added[m] \in S /\ Sorted1(file(added[m]))
       /\ Sorted1(file(o)) /\ o = added[i]
  <2>1. (\A m \in 1 .. n : base[m] \in S) /\ \A m \in 1 .. Len(added) : added[m] \in S
    BY <1>1
  <2> QED BY <1>1, <2>1 DEF FilesOk, o
<1>16. level > 0 => /\ \A m \in 1 .. n : a <= m /\ m < q => LessEq(K(base[m]), K(o))
                    /\ \A m \in 1 .. n : q <= m => LessEq(K(o), K(base[m]))
  BY <1>6, <1>15, FilesOrder DEF K
<1>17. level > 0 => \A m, k \in 1 .. n : m < k => LessEq(K(base[m]), K(base[k]))
  BY <1>1, InOrderSays DEF Sources, K
<1>18. \A m, k \in 1 .. Len(added) : m < k => LessEq(K(added[m]), K(added[k]))
  BY <1>1, InOrderSays DEF Sources, K
<1>19. level > 0 => \A j \in DOMAIN l : Before(X, l[j])
  <2> SUFFICES ASSUME level > 0, NEW j \in 1 .. q - a + 1, NEW x \in X
               PROVE  LessEq(K(x), K(l[j]))
    BY <1>9 DEF Before, K
  <2>1. i - 1 < i
    BY <1>1
  <2>2. LessEq(K(x), K(o))
    BY <1>1, <1>5, <1>15, <2>1
  <2>3. \A m \in 1 .. n : a <= m => LessEq(K(x), K(base[m]))
    BY <1>5
  <2> QED BY <1>10, <2>2, <2>3
<1>20. level > 0 => \A j, m \in DOMAIN l : j < m => LessEq(K(l[j]), K(l[m]))
  <2> SUFFICES ASSUME level > 0, NEW j \in 1 .. q - a + 1, NEW m \in 1 .. q - a + 1, j < m
               PROVE  LessEq(K(l[j]), K(l[m]))
    BY <1>9
  <2>1. j # q - a + 1
    BY <1>8
  <2>2. l[j] = base[a + j - 1] /\ a + j - 1 \in 1 .. n /\ a <= a + j - 1 /\ a + j - 1 < q
    BY <1>10, <2>1
  <2>3. CASE l[m] = o
    BY <1>16, <2>2, <2>3
  <2>4. CASE l[m] = base[a + m - 1] /\ a + m - 1 \in 1 .. n
    <3>1. a + j - 1 < a + m - 1
      BY <1>8
    <3> QED BY <1>17, <2>2, <2>4, <3>1
  <2> QED BY <1>10, <2>3, <2>4
<1>21. Merged(level, t, X \cup ToSet(l))
  BY <1>4, <1>5, <1>9, <1>12, <1>13, <1>14, <1>19, <1>20, AllMerge DEF t, K
<1>22. X \cup ToSet(l) = Y
  <2>1. ASSUME NEW m \in 1 .. q - 1, ~ (m \in 1 .. a - 1) PROVE base[m] \in ToSet(l)
    <3>1. m - a + 1 \in 1 .. q - a /\ a + (m - a + 1) - 1 = m /\ m - a + 1 \in 1 .. q - a + 1
      BY <1>8, <2>1
    <3>2. l[m - a + 1] = base[m]
      BY <1>9, <3>1
    <3> QED BY <1>9, <3>1, <3>2 DEF ToSet
  <2>2. o \in ToSet(l)
    <3>1. q - a + 1 \in 1 .. q - a + 1
      BY <1>8
    <3> QED BY <1>9, <3>1 DEF ToSet
  <2>3. ASSUME NEW x \in ToSet(l) PROVE x = o \/ \E m \in 1 .. q - 1 : x = base[m]
    <3>1. PICK j \in 1 .. q - a + 1 : x = l[j]
      BY <1>9 DEF ToSet
    <3>2. a + j - 1 < q /\ a <= a + j - 1 => a + j - 1 \in 1 .. q - 1
      BY <1>8
    <3> QED BY <1>10, <3>1, <3>2
  <2>4. 1 .. i = 1 .. i - 1 \cup {i}
    BY <1>1
  <2>5. \A m \in 1 .. a - 1 : m \in 1 .. q - 1
    BY <1>8
  <2> HIDE DEF X, Y
  <2>6. X = {base[j] : j \in 1 .. a - 1} \cup {added[j] : j \in 1 .. i - 1}
    BY DEF X, Taken
  <2>7. Y = {base[j] : j \in 1 .. q - 1} \cup {added[j] : j \in 1 .. i}
    BY DEF Y, Taken
  <2>8. \A x \in Y : x \in X \cup ToSet(l)
    BY <1>15, <2>1, <2>2, <2>4, <2>6, <2>7
  <2>9. \A x \in X \cup ToSet(l) : x \in Y
    <3>1. \A x \in X : x \in Y
      BY <2>4, <2>5, <2>6, <2>7
    <3>2. \A x \in ToSet(l) : x \in Y
      BY <1>15, <2>3, <2>4, <2>7
    <3> QED BY <3>1, <3>2
  <2> QED BY <2>8, <2>9
<1>23. level > 0 => \A x \in Y :
         /\ \A j \in 1 .. n : q <= j => LessEq(K(x), K(base[j]))
         /\ \A j \in 1 .. Len(added) : i < j => LessEq(K(x), K(added[j]))
  <2> SUFFICES ASSUME level > 0, NEW x \in Y
               PROVE  /\ \A j \in 1 .. n : q <= j => LessEq(K(x), K(base[j]))
                      /\ \A j \in 1 .. Len(added) : i < j => LessEq(K(x), K(added[j]))
    OBVIOUS
  <2> HIDE DEF X, Y
  <2>1. CASE x \in X
    <3>1. (\A j \in 1 .. n : q <= j => a <= j) /\ \A j \in 1 .. Len(added) : i < j => i - 1 < j
      BY <1>1, <1>8
    <3> QED BY <1>5, <2>1, <3>1
  <2>2. CASE x \in ToSet(l)
    <3>1. PICK k \in 1 .. q - a + 1 : x = l[k]
      BY <1>9, <2>2 DEF ToSet
    <3>2. \A j \in 1 .. n : q <= j => LessEq(K(x), K(base[j]))
      <4>1. CASE x = o
        BY <1>16, <4>1
      <4>2. CASE x = base[a + k - 1] /\ a + k - 1 \in 1 .. n /\ a + k - 1 < q
        <5>1. \A j \in 1 .. n : q <= j => a + k - 1 < j
          BY <1>8, <4>2
        <5> QED BY <1>17, <4>2, <5>1
      <4> QED BY <1>10, <3>1, <4>1, <4>2
    <3>3. LessEq(K(x), K(o)) /\ K(x) \in Bytes
      <4>1. CASE x = o
        BY <1>15, <4>1 DEF LessEq, K, KeyOf, Sorted1, Ranged
      <4>2. CASE x = base[a + k - 1] /\ a + k - 1 \in 1 .. n /\ a <= a + k - 1 /\ a + k - 1 < q
        BY <1>15, <1>16, <4>2 DEF K, KeyOf, Sorted1, Ranged
      <4> QED BY <1>10, <3>1, <4>1, <4>2
    <3>4. ASSUME NEW j \in 1 .. Len(added), i < j PROVE LessEq(K(x), K(added[j]))
      <4>1. LessEq(K(o), K(added[j]))
        BY <1>1, <1>15, <1>18, <3>4
      <4>2. K(o) \in Bytes /\ K(added[j]) \in Bytes
        BY <1>15 DEF K, KeyOf, Sorted1, Ranged
      <4> QED BY <3>3, <4>1, <4>2, LessEqTransitive
    <3> QED BY <3>2, <3>4
  <2> QED BY <1>22, <2>1, <2>2
<1>24. Merged(level, [files |-> t.files, ok |-> t.ok], Y)
  BY <1>21, <1>22 DEF Merged
<1> HIDE DEF X
<1> QED BY <1>1, <1>7, <1>23, <1>24 DEF Up, K, Y, o

LEMMA SaveMerges ==
  ASSUME NEW S, FilesOk(S), NEW level, NEW base, base = versions[builder.base_].files_[level],
         NEW added, added = builder.added_files[level], Sources(S, level, base, added)
  PROVE  Merged(level, saveLevel(level), ToSet(base) \cup ToSet(added))
<1> DEFINE n == Len(base)
           m == Len(added)
<1>1. /\ n \in Nat /\ base \in Seq(S) /\ DOMAIN base = 1 .. n /\ Distinct(base)
      /\ added \in Seq(S) /\ DOMAIN added = 1 .. m /\ m \in Nat
  BY DEF Sources
<1>2. PICK t : /\ saveAdded(level) = t[m]
               /\ t = [i \in 0 .. m |-> IF i = 0 THEN [files |-> <<>>, ok |-> TRUE, iter |-> 1]
                         ELSE addUpTo(t[i - 1], level, base, added[i])]
               /\ \A i \in 0 .. m : t[i] \in Round(S, level, n)
  BY <1>1, SaveAddedSteps
<1> HIDE DEF m, n
<1> DEFINE D == {i \in 0 .. m : Up(level, base, added, t[i], i)}
<1>3. 0 \in D
  <2>1. t[0] = [files |-> <<>>, ok |-> TRUE, iter |-> 1] /\ 0 \in 0 .. m
    BY <1>1, <1>2
  <2>2. t[0].files = <<>> /\ t[0].ok = TRUE /\ t[0].iter = 1
    BY <2>1
  <2>3. Taken(base, added, 1, 0) = {}
    BY DEF Taken
  <2>4. Merged(level, [files |-> <<>>, ok |-> TRUE], {})
    BY DEF Merged, Distinct, Has, Kept
  <2>5. Up(level, base, added, t[0], 0)
    BY <2>2, <2>3, <2>4 DEF Up
  <2> QED BY <2>1, <2>5
<1>4. ASSUME NEW i \in 1 .. m, i - 1 \in D PROVE i \in D
  <2>1. i \in 0 .. m /\ i # 0 /\ i - 1 \in 0 .. m
    BY <1>1
  <2>2. t[i] = addUpTo(t[i - 1], level, base, added[i])
    BY <1>2, <2>1
  <2>3. Up(level, base, added, t[i - 1], i - 1) /\ t[i - 1] \in Round(S, level, Len(base))
    BY <1>2, <1>4, <2>1 DEF n
  <2>4. i \in DOMAIN added
    BY <1>1
  <2>5. Up(level, base, added, addUpTo(t[i - 1], level, base, added[i]), i)
    BY <2>3, <2>4, RoundMerges
  <2> QED BY <2>1, <2>2, <2>5
<1>5. m \in D
  <2>1. m \in 0 .. m
    BY <1>1
  <2> HIDE DEF D
  <2> QED BY <1>1, <1>3, <1>4, <2>1, Reaches
<1> DEFINE s == saveAdded(level)
           a == s.iter
           s0 == [files |-> s.files, ok |-> s.ok]
           r == SubSeq(base, a, n)
           X == Taken(base, added, a, m)
<1>6. s \in Round(S, level, n) /\ Up(level, base, added, s, m)
  <2>1. m \in 0 .. m
    BY <1>1
  <2> QED BY <1>2, <1>5, <2>1
<1>7. saveLevel(level) = AddAll(s0, level, r)
  BY DEF saveLevel, n
<1> HIDE DEF s
<1>8. /\ a \in 1 .. n + 1 /\ s0 \in Saved(S, level) /\ Merged(level, s0, X)
      /\ level > 0 => \A x \in X : \A j \in 1 .. n : a <= j =>
                        LessEq(KeyOf(file(x)), KeyOf(file(base[j])))
  BY <1>1, <1>6 DEF Round, Saved, Up
<1> HIDE DEF a, s0
<1>9. a \in Nat /\ 1 <= a /\ a <= n + 1 /\ n + 1 - a \in Nat /\ n + 1 - 1 = n
  BY <1>1, <1>8
<1>10. r \in Seq(S) /\ Len(r) = n + 1 - a /\ \A j \in 1 .. n + 1 - a : r[j] = base[a + j - 1]
  <2>1. n + 1 \in a .. Len(base) + 1 /\ a \in 1 .. Len(base) + 1
    BY <1>1, <1>8, <1>9 DEF n
  <2> DEFINE q == n + 1
             l == SubSeq(base, a, q - 1)
  <2> HIDE DEF q
  <2>2. l \in Seq(S) /\ Len(l) = q - a /\ \A j \in 1 .. q - a : l[j] = base[a + j - 1]
    <3>1. base \in Seq(S) /\ a \in 1 .. Len(base) + 1 /\ q \in a .. Len(base) + 1
      BY <1>1, <2>1 DEF q
    <3> QED BY <3>1, PartOf, Zenon
  <2>3. q - 1 = n
    BY <1>1 DEF q
  <2>4. q - a = n + 1 - a
    <3>1. n \in Nat /\ a \in Nat
      BY <1>1, <1>9
    <3> HIDE DEF n
    <3> QED BY <3>1 DEF q
  <2> QED BY <2>2, <2>3, <2>4
<1> HIDE DEF r
<1>11. DOMAIN r = 1 .. n + 1 - a
  BY <1>10
<1>12. \A j \in 1 .. n + 1 - a : a + j - 1 \in 1 .. n /\ a <= a + j - 1
  BY <1>1, <1>9
<1>13. Distinct(r)
  <2>1. ASSUME NEW i \in 1 .. n + 1 - a, NEW j \in 1 .. n + 1 - a, r[i] = r[j] PROVE i = j
    <3>1. base[a + i - 1] = base[a + j - 1]
      BY <1>10, <2>1
    <3>2. a + i - 1 = a + j - 1
      BY <1>1, <1>12, <3>1 DEF Distinct
    <3> QED BY <1>9, <3>2
  <2> QED BY <1>11, <2>1 DEF Distinct
<1>14. X \in SUBSET S
  <2>1. \A j \in 1 .. a - 1 : j \in 1 .. n
    BY <1>1, <1>9
  <2>2. (\A j \in 1 .. n : base[j] \in S) /\ \A j \in 1 .. m : added[j] \in S
    BY <1>1
  <2> QED BY <2>1, <2>2 DEF Taken
<1>15. ASSUME NEW j \in DOMAIN r PROVE r[j] \notin X
  <2>1. r[j] = base[a + j - 1] /\ a + j - 1 \in 1 .. n /\ a <= a + j - 1
    BY <1>10, <1>11, <1>12
  <2>2. \A k \in 1 .. a - 1 : k \in 1 .. n /\ k # a + j - 1
    BY <1>1, <1>9, <2>1
  <2>3. \A k \in 1 .. a - 1 : base[k] # r[j]
    BY <1>1, <2>1, <2>2 DEF Distinct
  <2>4. \A k \in 1 .. m : added[k] # r[j]
    BY <1>1, <2>1 DEF Sources
  <2> QED BY <2>3, <2>4 DEF Taken
<1>16. level > 0 => \A j \in DOMAIN r : Before(X, r[j])
  BY <1>8, <1>10, <1>11, <1>12 DEF Before
<1>17. level > 0 => \A i, j \in DOMAIN r : i < j =>
                      LessEq(KeyOf(file(r[i])), KeyOf(file(r[j])))
  <2> SUFFICES ASSUME level > 0, NEW i \in 1 .. n + 1 - a, NEW j \in 1 .. n + 1 - a, i < j
               PROVE  LessEq(KeyOf(file(r[i])), KeyOf(file(r[j])))
    BY <1>11
  <2>1. a + i - 1 < a + j - 1
    BY <1>9
  <2>2. FilesInOrder(base)
    BY DEF Sources
  <2>3. LessEq(KeyOf(file(base[a + i - 1])), KeyOf(file(base[a + j - 1])))
    BY <1>1, <1>12, <2>1, <2>2, InOrderSays
  <2> QED BY <1>10, <2>3
<1>18. Merged(level, AddAll(s0, level, r), X \cup ToSet(r))
  BY <1>8, <1>10, <1>13, <1>14, <1>15, <1>16, <1>17, AllMerge
<1>19. X \cup ToSet(r) = ToSet(base) \cup ToSet(added)
  <2>1. ASSUME NEW k \in 1 .. n, ~ (k \in 1 .. a - 1) PROVE base[k] \in ToSet(r)
    <3>1. k - a + 1 \in 1 .. n + 1 - a /\ a + (k - a + 1) - 1 = k
      BY <1>1, <1>9, <2>1
    <3> QED BY <1>10, <1>11, <3>1 DEF ToSet
  <2>2. \A x \in ToSet(r) : \E k \in 1 .. n : x = base[k]
    BY <1>10, <1>11, <1>12 DEF ToSet
  <2>3. \A k \in 1 .. a - 1 : k \in 1 .. n
    BY <1>1, <1>9
  <2>4. X = {base[j] : j \in 1 .. a - 1} \cup {added[j] : j \in 1 .. m}
    BY DEF Taken
  <2>5. /\ ToSet(base) = {base[j] : j \in 1 .. n}
        /\ ToSet(added) = {added[j] : j \in 1 .. m}
    BY <1>1 DEF ToSet
  <2> HIDE DEF X
  <2> QED BY <2>1, <2>2, <2>3, <2>4, <2>5
<1> HIDE DEF X
<1> QED BY <1>7, <1>18, <1>19

-----------------------------------------------------------------------------
(* The numbers of files tell them apart.  What a level of the Builder asks *)
(* for: the files of the base and the added ones, those deleted left out.  *)
NumbersOk(h) == \A o \in DOMAIN h : h[o].file.number \in Nat
NumbersDiffer(h, s) ==
  \A i, j \in DOMAIN s : h[s[i]].file.number = h[s[j]].file.number => i = j
Apart(h, s, t) ==
  \A i \in DOMAIN s, j \in DOMAIN t : h[s[i]].file.number # h[t[j]].file.number
Orderly(h, s) == \A i, j \in DOMAIN s : i < j => BySmallestKey(h[s[i]].file, h[s[j]].file)
AskedFiles(h, base, added, D) ==
  {h[o].file : o \in {x \in ToSet(base) \cup ToSet(added) : h[x].file.number \notin D}}
Asked(h, base, added, D, w) ==
  /\ NumbersDiffer(h, added) /\ Apart(h, base, added) /\ Orderly(h, added)
  /\ w = AskedFiles(h, base, added, D)

LEMMA FirstOnes ==
  ASSUME NEW n \in Nat, NEW B, B \subseteq 1 .. n,
         \A i \in 1 .. n, j \in B : i < j => i \in B
  PROVE  Cardinality(B) \in 0 .. n /\ B = 1 .. Cardinality(B)
<1> DEFINE E == {i \in 1 .. n + 1 : i \notin B}
<1>1. n + 1 \in E /\ E \in SUBSET Nat
  OBVIOUS
<1>2. PICK q \in E : \A i \in E : q <= i
  BY <1>1, SmallestExists
<1>3. q \in 1 .. n + 1 /\ q \notin B /\ \A i \in 1 .. n + 1 : i < q => i \in B
  BY <1>2
<1> HIDE DEF E
<1>4. \A j \in B : j \in 1 .. q - 1
  <2> TAKE j \in B
  <2>1. j \in 1 .. n /\ j # q /\ j \in Nat
    BY <1>3
  <2>2. ~ (q < j)
    <3>1. q < j => q \in 1 .. n
      BY <1>3, <2>1
    <3> QED BY <1>3, <3>1
  <2> QED BY <1>3, <2>1, <2>2
<1>5. \A j \in 1 .. q - 1 : j \in B
  <2>1. \A j \in 1 .. q - 1 : j \in 1 .. n + 1 /\ j < q
    BY <1>3
  <2> QED BY <1>3, <2>1
<1>6. B = 1 .. q - 1 /\ q - 1 \in 0 .. n
  <2>1. \A j : j \in B <=> j \in 1 .. q - 1
    BY <1>4, <1>5, Zenon
  <2>2. B = 1 .. q - 1
    BY <2>1, Zenon
  <2> QED BY <1>3, <2>2
<1>7. Cardinality(1 .. q - 1) = q - 1
  <2>1. q - 1 \in Nat
    BY <1>6
  <2> QED BY <2>1, FS_Interval
<1> QED BY <1>6, <1>7

(* A file of a number that the level does not have is put in its place.    *)
LEMMA InsertPuts ==
  ASSUME NEW k, NEW h, NEW s \in Seq(1 .. k), NEW o \in 1 .. k,
         \A x \in 1 .. k : Sorted1(h[x].file),
         NumbersDiffer(h, s), Orderly(h, s),
         \A i \in DOMAIN s : h[s[i]].file.number # h[o].file.number
  PROVE  LET r == insert(s, o, h)
         IN /\ r \in Seq(1 .. k) /\ \A x : Has(r, x) <=> Has(s, x) \/ x = o
            /\ NumbersDiffer(h, r) /\ Orderly(h, r)
<1> DEFINE n == Len(s)
           S == 1 .. k
           B == {i \in DOMAIN s : BySmallestKey(h[s[i]].file, h[o].file)}
           p == 1 + Cardinality(B)
           r == InsertAt(s, p, o)
           L(x, y) == BySmallestKey(h[x].file, h[y].file)
<1>1. insert(s, o, h) = r
  <2> HIDE DEF p
  <2>1. ~ \E i \in DOMAIN s : h[s[i]].file.number = h[o].file.number
                              /\ h[s[i]].file.smallest.key = h[o].file.smallest.key
    OBVIOUS
  <2>2. insert(s, o, h) = InsertAt(s, p, o)
    BY <2>1 DEF insert, p
  <2> QED BY <2>2
<1>2. n \in Nat /\ DOMAIN s = 1 .. n
  OBVIOUS
<1> HIDE DEF S
<1>3. (\A i \in 1 .. n : s[i] \in S) /\ s \in Seq(S) /\ o \in S
  <2>1. s \in Seq(S) /\ o \in S
    BY DEF S
  <2> QED BY <1>2, <2>1
<1>4. \A x, y, z \in S : /\ L(x, y) => ~ L(y, x)
                         /\ h[x].file.number # h[y].file.number => L(x, y) \/ L(y, x)
                         /\ L(x, y) /\ L(y, z) => L(x, z)
  BY FilesOrder DEF S
<1>5. \A i, j \in 1 .. n : i < j => L(s[i], s[j])
  BY <1>2 DEF Orderly
<1> HIDE DEF L
<1>6. B = {i \in 1 .. n : L(s[i], o)}
  BY <1>2 DEF L
<1> HIDE DEF B, n
<1>7. Cardinality(B) \in 0 .. n /\ B = 1 .. Cardinality(B)
  <2>1. \A i \in 1 .. n, j \in B : i < j => i \in B
    BY <1>3, <1>4, <1>5, <1>6
  <2>2. B \subseteq 1 .. n
    BY <1>6
  <2> QED BY <1>2, <2>1, <2>2, FirstOnes
<1>8. p \in 1 .. n + 1 /\ \A i \in 1 .. n : i \in B <=> i < p
  BY <1>2, <1>7
<1> HIDE DEF p
<1>9. \A i \in 1 .. n : (i < p => L(s[i], o)) /\ (~ (i < p) => L(o, s[i]))
  <2> TAKE i \in 1 .. n
  <2>1. i < p => L(s[i], o)
    BY <1>6, <1>8
  <2>2. ~ (i < p) => ~ L(s[i], o)
    BY <1>6, <1>8
  <2>3. h[s[i]].file.number # h[o].file.number
    BY <1>2
  <2> QED BY <1>3, <1>4, <2>1, <2>2, <2>3
<1>10. /\ r \in Seq(S) /\ Len(r) = n + 1
       /\ \A i \in 1 .. n + 1 : r[i] = IF i < p THEN s[i] ELSE IF i = p THEN o ELSE s[i - 1]
       /\ \A x : Has(r, x) <=> Has(s, x) \/ x = o
  <2>1. p \in 1 .. Len(s) + 1
    BY <1>8 DEF n
  <2>2. r \in Seq(S) /\ \A x : Has(r, x) <=> Has(s, x) \/ x = o
    BY <1>3, <2>1, Inserted
  <2>3. Len(r) = Len(s) + 1 /\ \A i \in 1 .. Len(s) + 1 :
          r[i] = IF i < p THEN s[i] ELSE IF i = p THEN o ELSE s[i - 1]
    BY <1>3, <2>1, InsertedAt
  <2> QED BY <2>2, <2>3 DEF n
<1> HIDE DEF r
<1>11. DOMAIN r = 1 .. n + 1
  BY <1>2, <1>10
<1>12. \A i \in 1 .. n + 1 :
         \/ i < p /\ i \in 1 .. n /\ r[i] = s[i]
         \/ i = p /\ r[i] = o
         \/ i > p /\ i - 1 \in 1 .. n /\ ~ (i - 1 < p) /\ r[i] = s[i - 1]
  <2> TAKE i \in 1 .. n + 1
  <2>1. CASE i < p
    BY <1>2, <1>8, <1>10, <2>1
  <2>2. CASE i = p
    BY <1>8, <1>10, <2>2
  <2>3. CASE i > p
    <3>1. i - 1 \in 1 .. n /\ ~ (i - 1 < p) /\ ~ (i < p) /\ i # p
      BY <1>2, <1>8, <2>3
    <3> QED BY <1>10, <2>3, <3>1
  <2> QED BY <1>8, <2>1, <2>2, <2>3
<1>13. ASSUME NEW i \in 1 .. n + 1, NEW j \in 1 .. n + 1, i < j PROVE L(r[i], r[j])
  <2>1. CASE i < p /\ i \in 1 .. n /\ r[i] = s[i]
    <3>1. CASE j < p /\ j \in 1 .. n /\ r[j] = s[j]
      BY <1>5, <1>13, <2>1, <3>1
    <3>2. CASE j = p /\ r[j] = o
      BY <1>9, <2>1, <3>2
    <3>3. CASE j > p /\ j - 1 \in 1 .. n /\ r[j] = s[j - 1]
      <4>1. i < j - 1
        BY <1>8, <2>1, <3>3
      <4> QED BY <1>5, <2>1, <3>3, <4>1
    <3> QED BY <1>12, <3>1, <3>2, <3>3
  <2>2. CASE i = p /\ r[i] = o
    <3>1. j > p
      BY <1>13, <2>2
    <3>2. j - 1 \in 1 .. n /\ ~ (j - 1 < p) /\ r[j] = s[j - 1]
      BY <1>8, <1>12, <3>1
    <3> QED BY <1>9, <2>2, <3>2
  <2>3. CASE i > p /\ i - 1 \in 1 .. n /\ r[i] = s[i - 1]
    <3>1. j > p
      BY <1>8, <1>13, <2>3
    <3>2. j - 1 \in 1 .. n /\ r[j] = s[j - 1] /\ i - 1 < j - 1
      BY <1>8, <1>12, <1>13, <3>1
    <3> QED BY <1>5, <2>3, <3>2
  <2> QED BY <1>12, <2>1, <2>2, <2>3
<1>14. Orderly(h, r)
  BY <1>11, <1>13 DEF Orderly, L
<1>15. ASSUME NEW i \in 1 .. n + 1, NEW j \in 1 .. n + 1,
              h[r[i]].file.number = h[r[j]].file.number
       PROVE  i = j
  <2> DEFINE N(x) == h[x].file.number
  <2>1. \A a, b \in 1 .. n : N(s[a]) = N(s[b]) => a = b
    BY <1>2 DEF NumbersDiffer
  <2>2. \A a \in 1 .. n : N(s[a]) # N(o)
    BY <1>2
  <2>3. N(r[i]) = N(r[j])
    BY <1>15
  <2> HIDE DEF N
  <2>4. CASE i = p
    <3>1. N(r[i]) = N(o)
      BY <1>12, <2>4
    <3>2. j = p
      BY <1>12, <2>2, <2>3, <3>1
    <3> QED BY <2>4, <3>2
  <2>5. CASE j = p
    <3>1. N(r[j]) = N(o)
      BY <1>12, <2>5
    <3>2. i = p
      BY <1>12, <2>2, <2>3, <3>1
    <3> QED BY <2>5, <3>2
  <2>6. CASE i # p /\ j # p
    <3>1. i < p \/ i > p
      BY <1>8, <2>6
    <3>2. j < p \/ j > p
      BY <1>8, <2>6
    <3>3. CASE i < p /\ j < p
      <4>1. N(s[i]) = N(s[j]) /\ i \in 1 .. n /\ j \in 1 .. n
        BY <1>8, <1>12, <2>3, <3>3
      <4> QED BY <2>1, <4>1
    <3>4. CASE i > p /\ j > p
      <4>1. N(s[i - 1]) = N(s[j - 1]) /\ i - 1 \in 1 .. n /\ j - 1 \in 1 .. n
        BY <1>8, <1>12, <2>3, <3>4
      <4>2. i - 1 = j - 1
        BY <2>1, <4>1
      <4> QED BY <4>2
    <3>5. CASE i < p /\ j > p
      <4>1. N(s[i]) = N(s[j - 1]) /\ i \in 1 .. n /\ j - 1 \in 1 .. n /\ ~ (j - 1 < p)
        BY <1>8, <1>12, <2>3, <3>5
      <4>2. i = j - 1
        BY <2>1, <4>1
      <4> QED BY <3>5, <4>1, <4>2
    <3>6. CASE i > p /\ j < p
      <4>1. N(s[i - 1]) = N(s[j]) /\ i - 1 \in 1 .. n /\ j \in 1 .. n /\ ~ (i - 1 < p)
        BY <1>8, <1>12, <2>3, <3>6
      <4>2. i - 1 = j
        BY <2>1, <4>1
      <4> QED BY <3>6, <4>1, <4>2
    <3> QED BY <3>1, <3>2, <3>3, <3>4, <3>5, <3>6
  <2> QED BY <2>4, <2>5, <2>6
<1>16. NumbersDiffer(h, r)
  BY <1>11, <1>15 DEF NumbersDiffer
<1> QED BY <1>1, <1>10, <1>14, <1>16 DEF S

(* Of the new files of an edit that a level gets, all the same one, the    *)
(* level keeps one.                                                        *)
OneIsPut(h, s, at, n, r) ==
  /\ NumbersDiffer(h, r) /\ Orderly(h, r)
  /\ (\A i \in 1 .. n : i \notin at) => r = s
  /\ \A i \in 1 .. n : i \in at =>
       \E j \in 1 .. n : j \in at /\ \A y : Has(r, y) <=> Has(s, y) \/ y = Len(heap) + j

LEMMA LevelPuts ==
  ASSUME Len(heap) \in Nat, NEW n \in Nat, NEW s \in Seq(1 .. Len(heap)), NEW at, NEW h, NEW x,
         \A y \in 1 .. Len(heap) + n : Sorted1(h[y].file),
         \A i \in 1 .. n : i \in at => h[Len(heap) + i].file = x,
         NumbersDiffer(h, s), Orderly(h, s),
         \A i \in DOMAIN s : h[s[i]].file.number # x.number
  PROVE  OneIsPut(h, s, at, n, insertNew(s, at, n, h))
<1> DEFINE k == Len(heap)
           S == 1 .. k + n
           Good1(r, i) ==
             /\ r \in Seq(S) /\ NumbersDiffer(h, r) /\ Orderly(h, r)
             /\ \/ r = s /\ \A j \in 1 .. i : j \notin at
                \/ \E j \in 1 .. n : j \in at /\ j <= i
                                     /\ \A y : Has(r, y) <=> Has(s, y) \/ y = k + j
<1>1. k \in Nat /\ \A i \in 1 .. n : k + i \in S
  OBVIOUS
<1>2. s \in Seq(S)
  BY <1>1
<1>3. PICK t : Inserts(t, s, at, n, h)
  BY InsertNewSteps
<1>4. /\ insertNew(s, at, n, h) = t[n]
      /\ t = [i \in 0 .. n |-> IF i = 0 THEN s
                ELSE IF i \in at THEN insert(t[i - 1], k + i, h) ELSE t[i - 1]]
  BY <1>3, Zenon DEF Inserts
<1> DEFINE D == {i \in 0 .. n : Good1(t[i], i)}
<1>5. 0 \in D
  <2>1. t[0] = s /\ 0 \in 0 .. n /\ \A j \in 1 .. 0 : j \notin at
    BY <1>4
  <2> QED BY <1>2, <2>1
<1>6. ASSUME NEW i \in 1 .. n, i - 1 \in D PROVE i \in D
  <2> DEFINE r == t[i - 1]
  <2>1. Good1(r, i - 1) /\ i \in 0 .. n
    BY <1>6
  <2>2. t[i] = IF i \in at THEN insert(r, k + i, h) ELSE r
    BY <1>4, <2>1
  <2>3. /\ \A j \in 1 .. i : j = i \/ j \in 1 .. i - 1
        /\ \A j \in 1 .. n : j <= i - 1 => j <= i
    OBVIOUS
  <2> HIDE DEF r, k, S
  <2>4. CASE i \notin at
    <3>1. t[i] = r
      BY <2>2, <2>4
    <3>2. CASE r = s /\ \A j \in 1 .. i - 1 : j \notin at
      <4>1. \A j \in 1 .. i : j \notin at
        BY <2>3, <2>4, <3>2
      <4> QED BY <2>1, <3>1, <3>2, <4>1
    <3>3. CASE \E j \in 1 .. n : j \in at /\ j <= i - 1
                                 /\ \A y : Has(r, y) <=> Has(s, y) \/ y = k + j
      <4>1. \E j \in 1 .. n : j \in at /\ j <= i /\ \A y : Has(r, y) <=> Has(s, y) \/ y = k + j
        BY <2>3, <3>3
      <4> QED BY <2>1, <3>1, <4>1
    <3> QED BY <2>1, <3>2, <3>3
  <2>5. CASE i \in at /\ r = s
    <3> DEFINE u == insert(s, k + i, h)
    <3>1. /\ \A y \in 1 .. k + n : Sorted1(h[y].file)
          /\ h[k + i].file = x /\ s \in Seq(1 .. k + n) /\ k + i \in 1 .. k + n
      BY <1>1, <1>2, <2>5 DEF k, S
    <3>2. \A j \in DOMAIN s : h[s[j]].file.number # h[k + i].file.number
      BY <3>1
    <3>3. /\ u \in Seq(S) /\ \A y : Has(u, y) <=> Has(s, y) \/ y = k + i
          /\ NumbersDiffer(h, u) /\ Orderly(h, u)
      BY <3>1, <3>2, InsertPuts DEF S
    <3>4. t[i] = u
      BY <2>2, <2>5
    <3>5. i <= i
      OBVIOUS
    <3> HIDE DEF u
    <3> QED BY <2>1, <2>5, <3>3, <3>4, <3>5
  <2>6. ASSUME i \in at, NEW j \in 1 .. n, j \in at, j <= i - 1,
               \A y : Has(r, y) <=> Has(s, y) \/ y = k + j
        PROVE  i \in D
    <3>1. h[k + i].file = x /\ h[k + j].file = x
      BY <2>6 DEF k
    <3>2. Has(r, k + j)
      BY <2>6
    <3>3. PICK m \in DOMAIN r : r[m] = k + j
      BY <3>2 DEF Has
    <3>4. h[r[m]].file = h[k + i].file
      BY <3>1, <3>3
    <3>5. \E q \in DOMAIN r : h[r[q]].file.number = h[k + i].file.number
                              /\ h[r[q]].file.smallest.key = h[k + i].file.smallest.key
      BY <3>4
    <3>6. insert(r, k + i, h) = r
      BY <3>5, Zenon DEF insert
    <3>7. t[i] = r /\ j <= i
      BY <2>2, <2>3, <2>6, <3>6
    <3> QED BY <2>1, <2>6, <3>7
  <2> QED BY <2>1, <2>4, <2>5, <2>6
<1>7. n \in D
  <2>1. n \in 0 .. n
    OBVIOUS
  <2> HIDE DEF D
  <2> QED BY <1>5, <1>6, <2>1, Reaches
<1> DEFINE r == insertNew(s, at, n, h)
<1>8. Good1(r, n)
  BY <1>4, <1>7
<1> HIDE DEF r, S, D
<1>9. ASSUME \A i \in 1 .. n : i \notin at PROVE r = s
  BY <1>8, <1>9
<1>10. ASSUME NEW i \in 1 .. n, i \in at
       PROVE  \E j \in 1 .. n : j \in at /\ \A y : Has(r, y) <=> Has(s, y) \/ y = k + j
  BY <1>8, <1>10
<1> QED BY <1>8, <1>9, <1>10 DEF r, OneIsPut

(* Only the files count, not their counters.                               *)
LEMMA ListedIn ==
  ASSUME NEW S, NEW s \in Seq(S)
  PROVE  /\ \A i \in DOMAIN s : s[i] \in S /\ Has(s, s[i])
         /\ \A x : x \in ToSet(s) <=> Has(s, x)
         /\ \A x : Has(s, x) => x \in S
<1>1. \A i \in DOMAIN s : s[i] \in S
  OBVIOUS
<1> QED BY <1>1 DEF Has, ToSet

LEMMA NumbersKept ==
  ASSUME NEW k, NEW h, NEW g, \A o \in 1 .. k : g[o].file = h[o].file,
         NEW s \in Seq(1 .. k), NumbersDiffer(h, s)
  PROVE  NumbersDiffer(g, s)
<1> DEFINE S == 1 .. k
<1>1. s \in Seq(S)
  OBVIOUS
<1>2. \A o \in S : g[o].file = h[o].file
  OBVIOUS
<1> HIDE DEF S
<1>3. \A i \in DOMAIN s : g[s[i]].file = h[s[i]].file
  BY <1>1, <1>2, ListedIn
<1> QED BY <1>3 DEF NumbersDiffer

LEMMA AskedKept ==
  ASSUME NEW k, NEW h, NEW g, \A o \in 1 .. k : g[o].file = h[o].file,
         NEW s \in Seq(1 .. k), NEW t \in Seq(1 .. k), NEW D
  PROVE  \A w : Asked(h, t, s, D, w) => Asked(g, t, s, D, w)
<1> DEFINE S == 1 .. k
<1> HIDE DEF S
<1>1. s \in Seq(S) /\ t \in Seq(S) /\ \A o \in S : g[o].file = h[o].file
  BY DEF S
<1>2. /\ \A i \in DOMAIN s : g[s[i]].file = h[s[i]].file
      /\ \A i \in DOMAIN t : g[t[i]].file = h[t[i]].file
  BY <1>1, ListedIn
<1>3. /\ NumbersDiffer(h, s) => NumbersDiffer(g, s)
      /\ Orderly(h, s) => Orderly(g, s)
      /\ Apart(h, t, s) => Apart(g, t, s)
  BY <1>2 DEF NumbersDiffer, Apart, Orderly
<1>4. ToSet(s) \subseteq S /\ ToSet(t) \subseteq S
  BY <1>1, ListedIn
<1>5. ASSUME NEW a, NEW b, a \subseteq S, b \subseteq S
      PROVE  {g[o].file : o \in {x \in a \cup b : g[x].file.number \notin D}}
               = {h[o].file : o \in {x \in a \cup b : h[x].file.number \notin D}}
  <2>1. \A x \in a \cup b : g[x].file = h[x].file
    BY <1>1, <1>5
  <2> QED BY <2>1
<1>6. AskedFiles(g, t, s, D) = AskedFiles(h, t, s, D)
  BY <1>4, <1>5 DEF AskedFiles
<1> QED BY <1>3, <1>6 DEF Asked

(* What an edit asks of a level, and what the Builder makes of it.         *)
LevelAsked(h, base, r, at, x, D, E, w) ==
  LET rest == {y \in w : y.number \notin E}
  IN /\ at = {} => Asked(h, base, r, D \cup E, rest)
     /\ at # {} => Asked(h, base, r, (D \cup E) \ {x.number}, rest \cup {x})

LEMMA LevelAsks ==
  ASSUME Len(heap) \in Nat, NEW n \in Nat, NEW at \in SUBSET (1 .. n), NEW h, NEW x,
         NEW base \in Seq(1 .. Len(heap)), NEW s \in Seq(1 .. Len(heap)), NEW D, NEW w, NEW E,
         \A y \in 1 .. Len(heap) + n : Sorted1(h[y].file),
         \A i \in at : h[Len(heap) + i].file = x,
         Asked(h, base, s, D, w),
         at # {} => /\ \A i \in DOMAIN base : h[base[i]].file.number # x.number
                    /\ \A i \in DOMAIN s : h[s[i]].file.number # x.number
  PROVE  LevelAsked(h, base, insertNew(s, at, n, h), at, x, D, E, w)
<1> DEFINE k == Len(heap)
           r == insertNew(s, at, n, h)
           rest == {y \in w : y.number \notin E}
           N(o) == h[o].file.number
<1>1. /\ NumbersDiffer(h, s) /\ Orderly(h, s) /\ Apart(h, base, s)
      /\ w = {h[o].file : o \in {y \in ToSet(base) \cup ToSet(s) : N(y) \notin D}}
  BY DEF Asked, AskedFiles
<1>2. rest = {h[o].file : o \in {y \in ToSet(base) \cup ToSet(s) : N(y) \notin D \cup E}}
  BY <1>1
<1>3. CASE at = {}
  <2>1. \A i \in DOMAIN s : h[s[i]].file.number # Unset /\ h[s[i]].file.number \in Nat
    <3>1. \A i \in DOMAIN s : s[i] \in 1 .. k + n
      <4> DEFINE S == 1 .. k
      <4>1. \A o \in S : o \in 1 .. k + n
        OBVIOUS
      <4>2. s \in Seq(S)
        OBVIOUS
      <4> HIDE DEF S
      <4> QED BY <4>1, <4>2
    <3> QED BY <3>1, VersionEditAssumption DEF Sorted1
  <2> DEFINE z == [number |-> Unset]
  <2>2. z.number = Unset /\ \A i \in 1 .. n : i \notin at
    BY <1>3
  <2> HIDE DEF z
  <2>3. r = s
    <3>1. \A i \in DOMAIN s : h[s[i]].file.number # z.number
      BY <2>1, <2>2
    <3>2. \A i \in 1 .. n : i \in at => h[Len(heap) + i].file = z
      BY <2>2
    <3>3. OneIsPut(h, s, at, n, r)
      BY <1>1, <3>1, <3>2, LevelPuts
    <3> QED BY <2>2, <3>3 DEF OneIsPut
  <2> HIDE DEF rest
  <2> QED BY <1>1, <1>2, <1>3, <2>3 DEF Asked, AskedFiles, LevelAsked, rest
<1>4. CASE at # {}
  <2>1. PICK i \in at : TRUE
    BY <1>4
  <2>2. i \in 1 .. n /\ \A m \in 1 .. n : m \in at => h[k + m].file = x
    BY <2>1
  <2>3. /\ \A m \in DOMAIN s : h[s[m]].file.number # x.number
        /\ \A m \in DOMAIN base : h[base[m]].file.number # x.number
    BY <1>4
  <2>4. /\ NumbersDiffer(h, r) /\ Orderly(h, r)
        /\ \E j \in 1 .. n : j \in at /\ \A y : Has(r, y) <=> Has(s, y) \/ y = k + j
    <3>1. OneIsPut(h, s, at, n, r)
      BY <1>1, <2>2, <2>3, LevelPuts
    <3> QED BY <2>1, <2>2, <3>1 DEF OneIsPut
  <2>5. PICK j \in 1 .. n : j \in at /\ \A y : Has(r, y) <=> Has(s, y) \/ y = k + j
    BY <2>4
  <2> DEFINE o == k + j
  <2>6. h[o].file = x
    BY <2>5
  <2> HIDE DEF o, r, rest
  <2>7. Apart(h, base, r)
    <3>1. ASSUME NEW a \in DOMAIN base, NEW b \in DOMAIN r PROVE N(base[a]) # N(r[b])
      <4>1. Has(r, r[b])
        BY DEF Has
      <4>2. Has(s, r[b]) \/ r[b] = o
        BY <2>5, <4>1 DEF o
      <4>3. CASE r[b] = o
        BY <2>3, <2>6, <4>3
      <4>4. CASE Has(s, r[b])
        <5>1. PICK c \in DOMAIN s : s[c] = r[b]
          BY <4>4 DEF Has
        <5>2. N(base[a]) # N(s[c])
          BY <1>1 DEF Apart
        <5> QED BY <5>1, <5>2
      <4> QED BY <4>2, <4>3, <4>4
    <3> QED BY <3>1 DEF Apart
  <2>8. ToSet(r) = ToSet(s) \cup {o}
    <3>1. (\A y : y \in ToSet(r) <=> Has(r, y)) /\ \A y : y \in ToSet(s) <=> Has(s, y)
      BY DEF Has, ToSet
    <3> QED BY <2>5, <3>1 DEF o
  <2> DEFINE Z == ToSet(base) \cup ToSet(s)
             F == (D \cup E) \ {x.number}
  <2>9. \A y \in Z : N(y) # x.number
    BY <2>3 DEF ToSet
  <2>10. ToSet(base) \cup ToSet(r) = Z \cup {o}
    BY <2>8
  <2>11. AskedFiles(h, base, r, F) = {h[y].file : y \in {q \in Z \cup {o} : N(q) \notin F}}
    BY <2>10 DEF AskedFiles
  <2>12. rest = {h[y].file : y \in {q \in Z : N(q) \notin D \cup E}}
    BY <1>2
  <2> HIDE DEF Z
  <2>13. {q \in Z \cup {o} : N(q) \notin F} = {q \in Z : N(q) \notin D \cup E} \cup {o}
    <3>1. N(o) = x.number
      BY <2>6
    <3> HIDE DEF N
    <3>2. \A q \in Z : N(q) \notin F <=> N(q) \notin D \cup E
      BY <2>9
    <3>3. N(o) \notin F
      BY <3>1
    <3> QED BY <3>2, <3>3
  <2>14. AskedFiles(h, base, r, F) = rest \cup {x}
    BY <2>6, <2>11, <2>12, <2>13
  <2> QED BY <1>4, <2>4, <2>7, <2>14 DEF Asked, LevelAsked, r, rest
<1> QED BY <1>3, <1>4

-----------------------------------------------------------------------------
(* The invariant of what the Builder saves: the numbers tell the files     *)
(* apart, and every level asks for the files wanted.                       *)
AsEdited(h, level, s, w) ==
  /\ {h[o].file : o \in ToSet(s)} = w
  /\ Len(s) = Cardinality(w)
  /\ level > 0 => \A i \in 1 .. Len(s) - 1 : Less(h[s[i]].file.largest.key,
                                                  h[s[i + 1]].file.smallest.key)
SavedOf(h, vs, b, w) ==
  /\ b.phase = "saved" => \A level \in Level : AsEdited(h, level, vs[b.v].files_[level], w[level])
  /\ b.phase = "aborted" => \E level \in Level \ {0} : ~ Disjoint(w[level])
Asks(h, vs, c, b, w) ==
  /\ NumbersOk(h)
  /\ \A v \in DOMAIN vs : \A level \in Level : NumbersDiffer(h, vs[v].files_[level])
  /\ b.phase = "open" =>
       \A level \in Level : Asked(h, vs[c].files_[level], b.added_files[level],
                                  b.deleted_files[level], w[level])
  /\ SavedOf(h, vs, b, w)

AInv == SInv /\ Asks(heap, versions, current_, builder, wanted)

DeletedAt(e, level) == {d[2] : d \in {x \in e.deleted_files_ : x[1] = level}}

LEMMA ApplyGives ==
  ASSUME IsBuilder(builder, Len(heap)), NEW e, Apply(e)
  PROVE  LET s == e.new_files_
             h == heap \o NewObjects(s)
         IN /\ heap' = h
            /\ builder'.phase = builder.phase
            /\ builder'.added_files = WithNew(builder.added_files, s, h)
            /\ \A level \in Level :
                 builder'.deleted_files[level] =
                   (builder.deleted_files[level] \cup DeletedAt(e, level))
                     \ {s[i].file.number : i \in AddedAt(s, level)}
<1> DEFINE s == e.new_files_
           h == heap \o NewObjects(s)
           D == [level \in Level |->
                   (builder.deleted_files[level] \cup DeletedAt(e, level))
                     \ {s[i].file.number : i \in AddedAt(s, level)}]
           W == WithNew(builder.added_files, s, h)
           c == [builder EXCEPT !.deleted_files = D]
           d == [builder EXCEPT !.deleted_files = D, !.added_files = W]
<1>1. heap' = h
  BY DEF Apply, NewObjects
<1>2. builder' = [builder EXCEPT
             !.deleted_files =
               [level \in Level |->
                  (@[level] \cup {y[2] : y \in {x \in e.deleted_files_ : x[1] = level}})
                    \ {s[i].file.number : i \in AddedAt(s, level)}],
             !.added_files =
               [level \in Level |-> insertNew(@[level], AddedAt(s, level), Len(s), h)]]
  BY Zenon DEF Apply, NewObjects, AddedAt
<1>3. builder' = d
  BY <1>2 DEF WithNew, DeletedAt
<1>4. d = [c EXCEPT !.added_files = W]
  OBVIOUS
<1>5. \A level \in Level : D[level] =
        (builder.deleted_files[level] \cup DeletedAt(e, level))
          \ {s[i].file.number : i \in AddedAt(s, level)}
  OBVIOUS
<1> HIDE DEF W, D
<1>6. /\ c.phase = builder.phase /\ c.deleted_files = D
      /\ c = [phase |-> c.phase, base_ |-> c.base_, deleted_files |-> c.deleted_files,
              added_files |-> c.added_files, v |-> c.v, installed |-> c.installed]
  BY DEF IsBuilder
<1> HIDE DEF c, d
<1>7. d.added_files = W /\ d.deleted_files = D /\ d.phase = builder.phase
  BY <1>4, <1>6
<1> HIDE DEF s, h
<1> QED BY <1>1, <1>3, <1>5, <1>7 DEF W, s, h

LEMMA EditAsks ==
  ASSUME Right(heap, versions, current_, builder), Fit(heap, versions), builder.phase = "open",
         Asks(heap, versions, current_, builder, wanted),
         NEW e, IsList(e.new_files_), Apply(e), RangedFiles(e.new_files_),
         \A d \in e.deleted_files_ : d = <<d[1], d[2]>>,
         NEW x, x.number \in Nat, \A i \in DOMAIN e.new_files_ : e.new_files_[i].file = x,
         \A l \in Level : AddedAt(e.new_files_, l) # {} =>
           \A o \in ToSet(versions[current_].files_[l]) \cup ToSet(builder.added_files[l]) :
             heap[o].file.number # x.number
  PROVE  Asks(heap', versions, current_, builder', After1(wanted, e))
<1> DEFINE s == e.new_files_
           n == Len(s)
           k == Len(heap)
           h == heap \o NewObjects(s)
           base == versions[current_].files_
           added == builder.added_files
           D == builder.deleted_files
           w == After1(wanted, e)
<1>1. /\ IsHeap(heap) /\ k \in Nat /\ DOMAIN heap = 1 .. k /\ IsBuilder(builder, k)
      /\ DOMAIN versions = 1 .. Len(versions) /\ current_ \in DOMAIN versions
      /\ (\A v \in DOMAIN versions : versions[v].files_ \in FileLists(k))
      /\ added \in FileLists(k)
  BY RightHas DEF Right
<1>2. /\ heap' = h /\ builder'.phase = "open" /\ builder'.added_files = WithNew(added, s, h)
      /\ \A l \in Level : builder'.deleted_files[l] =
                            (D[l] \cup DeletedAt(e, l)) \ {s[i].file.number : i \in AddedAt(s, l)}
  BY <1>1, ApplyGives
<1>3. /\ IsList(s) /\ (\A i \in DOMAIN s : s[i].file = x /\ Ranged(s[i].file.smallest, s[i].file.largest))
      /\ \A l \in Level : w[l] = {y \in wanted[l] : <<l, y.number>> \notin e.deleted_files_}
                                   \cup {s[i].file : i \in AddedAt(s, l)}
  BY DEF RangedFiles, After1, AddedAt
<1> HIDE DEF s, w
<1>4. /\ Grown(heap, h) /\ Len(h) = k + n
      /\ \A o \in 1 .. k + n : o \notin 1 .. k => \E i \in DOMAIN s : h[o].file = s[i].file
  BY <1>1, <1>3, ObjectsAdded
<1> HIDE DEF h
<1>5. /\ n \in Nat /\ DOMAIN s = 1 .. n
  BY <1>3 DEF IsList
<1>6. /\ IsHeap(h) /\ DOMAIN h = 1 .. k + n /\ \A o \in 1 .. k : h[o] = heap[o]
      /\ \A o \in 1 .. k + n : o \notin 1 .. k => h[o].file = x /\ Ranged(x.smallest, x.largest)
  BY <1>3, <1>4, HeapIs DEF Grown
<1>7. /\ NumbersOk(heap) /\ RangedAll(heap, 1 .. k)
      /\ \A v \in DOMAIN versions : \A l \in Level : NumbersDiffer(heap, versions[v].files_[l])
      /\ \A l \in Level : Asked(heap, base[l], added[l], D[l], wanted[l])
  BY <1>1 DEF Asks, Fit
<1> HIDE DEF k, n
<1>8. \A y \in 1 .. k + n : Sorted1(h[y].file)
  BY <1>1, <1>6, <1>7 DEF NumbersOk, RangedAll, Sorted1
<1>9. NumbersOk(h)
  BY <1>6, <1>8 DEF NumbersOk, Sorted1
<1>10. \A o \in 1 .. k : h[o].file = heap[o].file
  BY <1>6
<1>11. ASSUME NEW v \in DOMAIN versions, NEW l \in Level
       PROVE  NumbersDiffer(h, versions[v].files_[l])
  <2> DEFINE t == versions[v].files_[l]
             S == 1 .. k
  <2>1. t \in Seq(S) /\ NumbersDiffer(heap, t)
    BY <1>1, <1>7 DEF FileLists
  <2>2. \A o \in S : h[o].file = heap[o].file
    BY <1>10
  <2> HIDE DEF t, S
  <2>3. \A i \in DOMAIN t : h[t[i]].file = heap[t[i]].file
    BY <2>1, <2>2, ListedIn
  <2>4. NumbersDiffer(h, t)
    BY <2>1, <2>3 DEF NumbersDiffer
  <2> QED BY <2>4 DEF t
<1>12. \A i \in 1 .. n : k + i \in 1 .. k + n /\ k + i \notin 1 .. k
  BY <1>1, <1>5
<1>13. ASSUME NEW l \in Level
       PROVE  Asked(h, base[l], builder'.added_files[l], builder'.deleted_files[l], w[l])
  <2> DEFINE at == AddedAt(s, l)
             E == DeletedAt(e, l)
             b == base[l]
             a == added[l]
             r == insertNew(a, at, n, h)
             rest == {y \in wanted[l] : y.number \notin E}
  <2>1. b \in Seq(1 .. k) /\ a \in Seq(1 .. k) /\ Asked(heap, b, a, D[l], wanted[l])
    BY <1>1, <1>7 DEF FileLists
  <2>2. at \in SUBSET (1 .. n) /\ (\A i \in at : h[k + i].file = x /\ s[i].file = x)
    BY <1>3, <1>5, <1>6, <1>12 DEF AddedAt
  <2>3. builder'.added_files[l] = r
    BY <1>2 DEF WithNew, n
  <2>4. \A y : y \in E <=> <<l, y>> \in e.deleted_files_
    BY DEF DeletedAt
  <2>5. w[l] = rest \cup {s[i].file : i \in at}
    BY <1>3, <2>4
  <2>6. builder'.deleted_files[l] = (D[l] \cup E) \ {s[i].file.number : i \in at}
    BY <1>2
  <2>7. at # {} => /\ \A i \in DOMAIN b : heap[b[i]].file.number # x.number
                   /\ \A i \in DOMAIN a : heap[a[i]].file.number # x.number
    BY DEF ToSet, s
  <2> HIDE DEF b, a, at, E
  <2>8. Asked(h, b, a, D[l], wanted[l])
    BY <1>10, <2>1, AskedKept
  <2>9. at # {} => /\ \A i \in DOMAIN b : h[b[i]].file.number # x.number
                   /\ \A i \in DOMAIN a : h[a[i]].file.number # x.number
    <3> DEFINE S == 1 .. k
    <3>1. (\A i \in DOMAIN b : b[i] \in S) /\ \A i \in DOMAIN a : a[i] \in S
      <4>1. b \in Seq(S) /\ a \in Seq(S)
        BY <2>1
      <4> HIDE DEF S
      <4> QED BY <4>1, ListedIn
    <3>2. /\ \A i \in DOMAIN b : h[b[i]].file = heap[b[i]].file
          /\ \A i \in DOMAIN a : h[a[i]].file = heap[a[i]].file
      BY <1>10, <3>1
    <3> QED BY <2>7, <3>2
  <2>10. /\ at = {} => Asked(h, b, r, D[l] \cup E, rest)
         /\ at # {} => Asked(h, b, r, (D[l] \cup E) \ {x.number}, rest \cup {x})
    <3>1. LevelAsked(h, b, r, at, x, D[l], E, wanted[l])
      BY <1>1, <1>5, <1>8, <2>1, <2>2, <2>8, <2>9, LevelAsks DEF k
    <3> QED BY <3>1 DEF LevelAsked
  <2> HIDE DEF r, rest
  <2>11. CASE at = {}
    <3>1. w[l] = rest /\ builder'.deleted_files[l] = D[l] \cup E
      BY <2>5, <2>6, <2>11
    <3> QED BY <2>3, <2>10, <2>11, <3>1 DEF b
  <2>12. CASE at # {}
    <3>1. w[l] = rest \cup {x} /\ builder'.deleted_files[l] = (D[l] \cup E) \ {x.number}
      BY <2>2, <2>5, <2>6, <2>12
    <3> QED BY <2>3, <2>10, <2>12, <3>1 DEF b
  <2> QED BY <2>11, <2>12
<1>14. SavedOf(h, versions, builder', w)
  BY <1>2 DEF SavedOf
<1>15. Asks(h, versions, current_, builder', w)
  BY <1>2, <1>9, <1>11, <1>13, <1>14 DEF Asks
<1> QED BY <1>2, <1>15 DEF w

-----------------------------------------------------------------------------
(* SaveTo.                                                                 *)
LEMMA EachOnce ==
  ASSUME NEW S, NEW s \in Seq(S), NEW h, NumbersDiffer(h, s)
  PROVE  Len(s) = Cardinality({h[o].file : o \in ToSet(s)})
<1> DEFINE n == Len(s)
           T == {h[o].file : o \in ToSet(s)}
           g == [i \in 1 .. n |-> h[s[i]].file]
<1>1. n \in Nat /\ DOMAIN s = 1 .. n
  OBVIOUS
<1>2. T = {h[s[i]].file : i \in 1 .. n}
  BY <1>1 DEF ToSet
<1>3. \A i, j \in 1 .. n : h[s[i]].file = h[s[j]].file => i = j
  BY <1>1 DEF NumbersDiffer
<1> HIDE DEF n, T
<1>4. g \in Injection(1 .. n, T) /\ g \in Surjection(1 .. n, T)
  <2>1. g \in [1 .. n -> T] /\ \A i \in 1 .. n : g[i] = h[s[i]].file
    BY <1>2
  <2>2. \A y \in T : \E i \in 1 .. n : g[i] = y
    BY <1>2
  <2> HIDE DEF g
  <2>3. g \in Injection(1 .. n, T)
    BY <1>3, <2>1 DEF Injection, IsInjective
  <2>4. g \in Surjection(1 .. n, T)
    BY <2>1, <2>2 DEF Surjection
  <2> QED BY <2>3, <2>4
<1>5. IsFiniteSet(1 .. n) /\ Cardinality(1 .. n) = n
  BY <1>1, FS_Interval
<1>6. Cardinality(T) = Cardinality(1 .. n)
  BY <1>4, <1>5, FS_Surjection
<1> QED BY <1>5, <1>6 DEF n, T

LEMMA SaveSources ==
  ASSUME Right(heap, versions, current_, builder), Fit(heap, versions), builder.phase = "open",
         Asks(heap, versions, current_, builder, wanted), NEW level \in Level
  PROVE  LET base == versions[builder.base_].files_[level]
             added == builder.added_files[level]
             X == ToSet(base) \cup ToSet(added)
         IN /\ FilesOk(1 .. Len(heap)) /\ Sources(1 .. Len(heap), level, base, added)
            /\ \A o, p \in X : file(o).number = file(p).number => o = p
            /\ wanted[level] = {file(o) : o \in Kept(level, X)}
<1> DEFINE k == Len(heap)
           S == 1 .. k
           base == versions[builder.base_].files_[level]
           added == builder.added_files[level]
           X == ToSet(base) \cup ToSet(added)
           N(o) == file(o).number
<1>1. /\ k \in Nat /\ DOMAIN heap = 1 .. k /\ current_ \in DOMAIN versions
      /\ builder.base_ = current_
      /\ (\A v \in DOMAIN versions : versions[v].files_ \in FileLists(k))
      /\ builder.added_files \in FileLists(k)
  BY RightHas DEF Right, Phases
<1>2. base \in Seq(S) /\ added \in Seq(S)
  BY <1>1 DEF FileLists
<1>3. /\ NumbersOk(heap) /\ RangedAll(heap, 1 .. k)
      /\ NumbersDiffer(heap, base) /\ NumbersDiffer(heap, added)
      /\ Apart(heap, base, added) /\ Orderly(heap, added)
      /\ wanted[level] = AskedFiles(heap, base, added, builder.deleted_files[level])
  BY <1>1 DEF Asks, Asked, Fit
<1>4. level > 0 => Ascending(heap, base)
  BY <1>1 DEF Fit, Fits
<1>5. FilesOk(S)
  BY <1>1, <1>3 DEF FilesOk, Sorted1, NumbersOk, RangedAll, file
<1>6. wanted[level] = {file(o) : o \in Kept(level, X)}
  BY <1>3 DEF AskedFiles, Kept, file
<1> HIDE DEF S, base, added
<1>7. /\ \A i, j \in DOMAIN base : N(base[i]) = N(base[j]) => i = j
      /\ \A i, j \in DOMAIN added : N(added[i]) = N(added[j]) => i = j
      /\ \A i \in DOMAIN base, j \in DOMAIN added : N(base[i]) # N(added[j])
  BY <1>3 DEF NumbersDiffer, Apart, file
<1>8. FilesInOrder(added)
  BY <1>3 DEF Orderly, FilesInOrder, file
<1>9. level > 0 => FilesInOrder(base)
  <2>1. ASSUME level > 0, NEW i \in DOMAIN base, NEW j \in DOMAIN base, i < j
        PROVE  BySmallestKey(file(base[i]), file(base[j]))
    <3> DEFINE a == file(base[i]).smallest.key
               b == file(base[i]).largest.key
               c == file(base[j]).smallest.key
    <3>1. base[i] \in S /\ base[j] \in S
      BY <1>2, ListedIn
    <3>2. a \in Bytes /\ b \in Bytes /\ c \in Bytes /\ LessEq(a, b)
      BY <1>5, <3>1 DEF FilesOk, Sorted1, Ranged
    <3>3. Less(b, c)
      BY <1>4, <2>1 DEF Ascending, file
    <3> HIDE DEF a, b, c
    <3>4. Less(a, c)
      BY <3>2, <3>3, LessEqTransitive
    <3> QED BY <3>4 DEF a, c, BySmallestKey
  <2> QED BY <2>1 DEF FilesInOrder
<1>10. /\ Distinct(base) /\ Distinct(added)
       /\ \A i \in DOMAIN base, j \in DOMAIN added : base[i] # added[j]
  BY <1>7 DEF Distinct
<1>11. Sources(S, level, base, added)
  BY <1>2, <1>8, <1>9, <1>10 DEF Sources
<1>12. ASSUME NEW o \in X, NEW p \in X, N(o) = N(p) PROVE o = p
  <2> HIDE DEF N
  <2>1. /\ o \in ToSet(base) \/ o \in ToSet(added)
        /\ p \in ToSet(base) \/ p \in ToSet(added)
    OBVIOUS
  <2>2. /\ \A y \in ToSet(base) : \E i \in DOMAIN base : y = base[i]
        /\ \A y \in ToSet(added) : \E i \in DOMAIN added : y = added[i]
    BY DEF ToSet
  <2> QED BY <1>7, <1>12, <2>1, <2>2
<1> HIDE DEF X, k
<1> QED BY <1>5, <1>6, <1>11, <1>12 DEF S, base, added, X, k

LEMMA SavedAsks ==
  ASSUME Right(heap, versions, current_, builder), Fit(heap, versions), builder.phase = "open",
         Asks(heap, versions, current_, builder, wanted), NEW level \in Level
  PROVE  LET s == saveLevel(level)
         IN /\ NumbersDiffer(heap, s.files)
            /\ s.ok => AsEdited(heap, level, s.files, wanted[level])
            /\ ~ s.ok => level > 0 /\ ~ Disjoint(wanted[level])
<1> DEFINE S == 1 .. Len(heap)
           base == versions[builder.base_].files_[level]
           added == builder.added_files[level]
           X == ToSet(base) \cup ToSet(added)
           Y == Kept(level, X)
           s == saveLevel(level)
           fs == s.files
           w == wanted[level]
<1>1. /\ FilesOk(S) /\ Sources(S, level, base, added)
      /\ (\A o, p \in X : file(o).number = file(p).number => o = p)
      /\ w = {file(o) : o \in Y}
  BY SaveSources
<1>2. Merged(level, s, X)
  BY <1>1, SaveMerges
<1>3. base \in Seq(S) /\ added \in Seq(S)
  BY <1>1 DEF Sources
<1>4. s \in Saved(S, level)
  BY <1>3, SaveLevelIs
<1>5. RangedAll(heap, S)
  <2>1. DOMAIN heap = 1 .. Len(heap)
    BY RightHas
  <2> QED BY <2>1 DEF Fit
<1> HIDE DEF S, base, added, s
<1>6. /\ fs \in Seq(S) /\ Distinct(fs) /\ (\A o : Has(fs, o) <=> o \in Y)
      /\ ~ s.ok => level > 0 /\ Clash(Y)
      /\ level > 0 /\ s.ok => Ascending(heap, fs)
  BY <1>2, <1>4, <1>5 DEF Merged, Saved, AscendingIf
<1>7. Y \subseteq X
  BY DEF Kept
<1> HIDE DEF X, Y, fs
<1>8. ToSet(fs) = Y
  BY <1>6, ListedIn
<1>9. NumbersDiffer(heap, fs)
  <2>1. ASSUME NEW i \in DOMAIN fs, NEW j \in DOMAIN fs,
               heap[fs[i]].file.number = heap[fs[j]].file.number
        PROVE  i = j
    <3>1. fs[i] \in X /\ fs[j] \in X
      BY <1>6, <1>7 DEF Has
    <3>2. fs[i] = fs[j]
      BY <1>1, <2>1, <3>1 DEF file
    <3> QED BY <1>6, <3>2 DEF Distinct
  <2> QED BY <2>1 DEF NumbersDiffer
<1>10. {heap[o].file : o \in ToSet(fs)} = w
  BY <1>1, <1>8 DEF file
<1>11. Len(fs) = Cardinality(w)
  BY <1>6, <1>9, <1>10, EachOnce
<1>12. ASSUME s.ok, level > 0, NEW i \in 1 .. Len(fs) - 1
       PROVE  Less(heap[fs[i]].file.largest.key, heap[fs[i + 1]].file.smallest.key)
  <2>1. i \in DOMAIN fs /\ i + 1 \in DOMAIN fs /\ i < i + 1
    BY <1>6
  <2> QED BY <1>6, <1>12, <2>1 DEF Ascending
<1>13. s.ok => AsEdited(heap, level, fs, w)
  BY <1>10, <1>11, <1>12 DEF AsEdited
<1>14. ASSUME ~ s.ok PROVE level > 0 /\ ~ Disjoint(w)
  <2>1. PICK o \in Y, p \in Y : o # p /\ Overlap(file(o), file(p))
    BY <1>6, <1>14 DEF Clash
  <2>2. file(o) # file(p)
    BY <1>1, <1>7, <2>1
  <2>3. file(o) \in w /\ file(p) \in w
    BY <1>1
  <2> QED BY <1>6, <1>14, <2>1, <2>2, <2>3 DEF Disjoint
<1> QED BY <1>9, <1>13, <1>14 DEF s, fs

LEMMA EditedKept ==
  ASSUME NEW k, NEW h, NEW g, \A o \in 1 .. k : g[o].file = h[o].file,
         NEW s \in Seq(1 .. k), NEW level, NEW w, AsEdited(h, level, s, w)
  PROVE  AsEdited(g, level, s, w)
<1> DEFINE S == 1 .. k
<1>1. s \in Seq(S) /\ \A o \in S : g[o].file = h[o].file
  OBVIOUS
<1> HIDE DEF S
<1>2. \A i \in DOMAIN s : g[s[i]].file = h[s[i]].file
  BY <1>1, ListedIn
<1>3. ToSet(s) \subseteq S
  BY <1>1, ListedIn
<1>4. {g[o].file : o \in ToSet(s)} = {h[o].file : o \in ToSet(s)}
  BY <1>1, <1>3
<1>5. \A i \in 1 .. Len(s) - 1 : i \in DOMAIN s /\ i + 1 \in DOMAIN s
  BY <1>1
<1> QED BY <1>2, <1>4, <1>5 DEF AsEdited

LEMMA SaveAsks ==
  ASSUME Right(heap, versions, current_, builder), Fit(heap, versions),
         Asks(heap, versions, current_, builder, wanted), SaveTo
  PROVE  Asks(heap', versions', current_', builder', wanted')
<1> DEFINE files == [level \in Level |-> saveLevel(level).files]
           n == Len(versions)
           k == Len(heap)
<1>1. builder.phase = "open" /\ wanted' = wanted
  BY DEF SaveTo
<1>2. /\ IsHeap(heap) /\ DOMAIN heap = 1 .. k /\ IsBuilder(builder, k)
      /\ DOMAIN versions = 1 .. n /\ n \in Nat
      /\ \A v \in DOMAIN versions : versions[v].files_ \in FileLists(k)
  BY RightHas DEF Right
<1>3. files \in FileLists(k)
  BY <1>1, SavedFiles
<1>4. \A level \in Level :
        /\ NumbersDiffer(heap, files[level])
        /\ saveLevel(level).ok => AsEdited(heap, level, files[level], wanted[level])
        /\ ~ saveLevel(level).ok => level > 0 /\ ~ Disjoint(wanted[level])
  BY <1>1, SavedAsks
<1>5. \/ /\ \A level \in Level : saveLevel(level).ok
         /\ SameFiles(heap, heap') /\ OneMoreVersion(versions, versions', files)
         /\ builder' = [builder EXCEPT !.phase = "saved", !.v = n + 1]
      \/ /\ \E level \in Level : ~ saveLevel(level).ok
         /\ UNCHANGED <<heap, versions>>
         /\ builder' = [builder EXCEPT !.phase = "aborted"]
  BY SaveMakes
<1>6. /\ NumbersOk(heap)
      /\ \A v \in DOMAIN versions : \A level \in Level :
           NumbersDiffer(heap, versions[v].files_[level])
  BY DEF Asks
<1> HIDE DEF files, k
<1>7. CASE /\ \A level \in Level : saveLevel(level).ok
           /\ SameFiles(heap, heap') /\ OneMoreVersion(versions, versions', files)
           /\ builder' = [builder EXCEPT !.phase = "saved", !.v = n + 1]
  <2>1. builder'.phase = "saved" /\ builder'.v = n + 1
    <3> HIDE DEF n
    <3> QED BY <1>2, <1>7 DEF IsBuilder
  <2> HIDE DEF n
  <2>2. /\ DOMAIN versions' = 1 .. n + 1 /\ versions'[n + 1].files_ = files
        /\ \A v \in 1 .. n : versions'[v].files_ = versions[v].files_
    BY <1>7 DEF OneMoreVersion, n
  <2>3. DOMAIN heap' = 1 .. k /\ \A o \in 1 .. k : heap'[o].file = heap[o].file
    BY <1>7, HeapIs DEF SameFiles, k
  <2>4. NumbersOk(heap')
    BY <1>2, <1>6, <2>3 DEF NumbersOk
  <2>5. ASSUME NEW v \in DOMAIN versions', NEW level \in Level
        PROVE  NumbersDiffer(heap', versions'[v].files_[level])
    <3> DEFINE s == versions'[v].files_[level]
    <3>1. s \in Seq(1 .. k) /\ NumbersDiffer(heap, s)
      <4>1. v = n + 1 \/ v \in 1 .. n
        BY <1>2, <2>2
      <4>2. CASE v = n + 1
        BY <1>3, <1>4, <2>2, <4>2 DEF FileLists
      <4>3. CASE v \in 1 .. n
        BY <1>2, <1>6, <2>2, <4>3 DEF FileLists
      <4> QED BY <4>1, <4>2, <4>3
    <3> HIDE DEF s
    <3>2. NumbersDiffer(heap', s)
      BY <2>3, <3>1, NumbersKept
    <3> QED BY <3>2 DEF s
  <2>6. ASSUME NEW level \in Level PROVE AsEdited(heap', level, files[level], wanted[level])
    <3>1. files[level] \in Seq(1 .. k) /\ AsEdited(heap, level, files[level], wanted[level])
      BY <1>3, <1>4, <1>7 DEF FileLists
    <3> QED BY <2>3, <3>1, EditedKept
  <2>7. SavedOf(heap', versions', builder', wanted')
    BY <1>1, <2>1, <2>2, <2>6 DEF SavedOf
  <2> QED BY <2>1, <2>4, <2>5, <2>7 DEF Asks
<1>8. CASE /\ \E level \in Level : ~ saveLevel(level).ok
           /\ UNCHANGED <<heap, versions>>
           /\ builder' = [builder EXCEPT !.phase = "aborted"]
  <2>1. builder'.phase = "aborted"
    BY <1>2, <1>8 DEF IsBuilder
  <2>2. \E level \in Level \ {0} : ~ Disjoint(wanted[level])
    BY <1>4, <1>8
  <2>3. SavedOf(heap', versions', builder', wanted')
    BY <1>1, <2>1, <2>2 DEF SavedOf
  <2>4. heap' = heap /\ versions' = versions
    BY <1>8
  <2> QED BY <1>6, <2>1, <2>3, <2>4 DEF Asks
<1> QED BY <1>5, <1>7, <1>8, Zenon

-----------------------------------------------------------------------------
(* The other operations.                                                   *)
LEMMA KeptAsks ==
  ASSUME Right(heap, versions, current_, builder), Asks(heap, versions, current_, builder, wanted),
         FilesKept
  PROVE  /\ NumbersOk(heap')
         /\ \A v \in DOMAIN versions' : \A level \in Level :
              NumbersDiffer(heap', versions'[v].files_[level])
<1> DEFINE k == Len(heap)
<1>1. /\ DOMAIN heap = 1 .. k /\ DOMAIN heap' = 1 .. k
      /\ \A v \in DOMAIN versions : versions[v].files_ \in FileLists(k)
  BY RightHas, HeapIs DEF FilesKept, SameFiles
<1>2. \A o \in 1 .. k : heap'[o].file = heap[o].file
  BY DEF FilesKept, SameFiles
<1>3. DOMAIN versions' = DOMAIN versions
      /\ \A v \in DOMAIN versions : versions'[v].files_ = versions[v].files_
  BY DEF FilesKept, SameLists
<1> HIDE DEF k
<1>4. NumbersOk(heap')
  BY <1>1, <1>2 DEF Asks, NumbersOk
<1>5. ASSUME NEW v \in DOMAIN versions, NEW level \in Level
      PROVE  NumbersDiffer(heap', versions[v].files_[level])
  <2>1. versions[v].files_[level] \in Seq(1 .. k) /\ NumbersDiffer(heap, versions[v].files_[level])
    BY <1>1 DEF FileLists, Asks
  <2> QED BY <1>2, <2>1, NumbersKept
<1> QED BY <1>3, <1>4, <1>5

LEMMA StartAsks ==
  ASSUME Right(heap, versions, current_, builder), Asks(heap, versions, current_, builder, wanted),
         Builder
  PROVE  Asks(heap', versions', current_', builder', wanted')
<1>1. FilesKept
  BY StartKeeps
<1>2. /\ heap' = heap /\ current_' = current_
      /\ builder' = [NoBuilder EXCEPT !.phase = "open", !.base_ = current_]
      /\ wanted' = [level \in Level |-> FilesOf(versions[current_].files_[level])]
  BY Zenon DEF Builder
<1>3. /\ builder'.phase = "open" /\ builder'.added_files = PerLevel(<<>>)
      /\ builder'.deleted_files = PerLevel({})
  BY <1>2 DEF NoBuilder
<1>4. versions'[current_].files_ = versions[current_].files_
  BY <1>1, RightHas DEF FilesKept, SameLists
<1>5. ASSUME NEW level \in Level
      PROVE  Asked(heap', versions'[current_].files_[level], builder'.added_files[level],
                   builder'.deleted_files[level], wanted'[level])
  <2> DEFINE base == versions[current_].files_[level]
  <2>1. builder'.added_files[level] = <<>> /\ builder'.deleted_files[level] = {}
    BY <1>3 DEF PerLevel
  <2>2. wanted'[level] = {heap[o].file : o \in ToSet(base)}
    BY <1>2 DEF FilesOf, file
  <2> HIDE DEF base
  <2>3. AskedFiles(heap, base, <<>>, {}) = {heap[o].file : o \in ToSet(base)}
    <3>1. ToSet(<<>>) = {}
      BY DEF ToSet
    <3> QED BY <3>1 DEF AskedFiles
  <2>4. NumbersDiffer(heap, <<>>) /\ Apart(heap, base, <<>>) /\ Orderly(heap, <<>>)
    BY DEF NumbersDiffer, Apart, Orderly
  <2>5. Asked(heap, base, <<>>, {}, wanted'[level])
    BY <2>2, <2>3, <2>4 DEF Asked
  <2> QED BY <1>2, <1>4, <2>1, <2>5 DEF base
<1>6. SavedOf(heap', versions', builder', wanted')
  BY <1>3 DEF SavedOf
<1> QED BY <1>1, <1>2, <1>3, <1>5, <1>6, KeptAsks DEF Asks

LEMMA ReleaseAsks ==
  ASSUME Right(heap, versions, current_, builder), Asks(heap, versions, current_, builder, wanted),
         AppendVersion \/ deleteBuilder
  PROVE  Asks(heap', versions', current_', builder', wanted')
<1> DEFINE k == Len(heap)
<1>1. FilesKept /\ wanted' = wanted
  BY AppendKeeps, EndKeeps DEF AppendVersion, deleteBuilder
<1>2. IsBuilder(builder, k) /\ Phases(versions, current_, builder)
  BY DEF Right
<1>3. \/ builder'.phase \in {"none", "deleted"}
      \/ builder'.phase = "saved" /\ builder.phase = "saved" /\ builder'.v = builder.v
         /\ builder.v \in DOMAIN versions
  <2>1. NoBuilder.phase = "none"
    BY DEF NoBuilder
  <2>2. CASE AppendVersion
    <3>1. builder.v # 0
          /\ builder' = IF builder.phase = "deleted" THEN NoBuilder ELSE [builder EXCEPT !.installed = TRUE]
      BY <2>2, Zenon DEF AppendVersion
    <3>2. builder.phase = "deleted" \/ (builder.phase = "saved" /\ builder.v \in DOMAIN versions)
      BY <1>2, <3>1, RightHas DEF Phases
    <3>3. [builder EXCEPT !.installed = TRUE].phase = builder.phase
          /\ [builder EXCEPT !.installed = TRUE].v = builder.v
      BY <1>2 DEF IsBuilder
    <3> QED BY <2>1, <3>1, <3>2, <3>3
  <2>3. CASE deleteBuilder
    <3>1. builder' = IF builder.installed THEN NoBuilder ELSE [builder EXCEPT !.phase = "deleted"]
      BY <2>3, Zenon DEF deleteBuilder
    <3>2. [builder EXCEPT !.phase = "deleted"].phase = "deleted"
      BY <1>2 DEF IsBuilder
    <3> QED BY <2>1, <3>1, <3>2
  <2> QED BY <2>2, <2>3
<1>4. SavedOf(heap', versions', builder', wanted')
  <2>1. ASSUME builder'.phase = "saved", NEW level \in Level
        PROVE  AsEdited(heap', level, versions'[builder'.v].files_[level], wanted[level])
    <3> DEFINE s == versions[builder.v].files_[level]
    <3>1. /\ builder'.v = builder.v /\ builder.v \in DOMAIN versions /\ builder.phase = "saved"
      BY <1>3, <2>1
    <3>2. versions'[builder.v].files_ = versions[builder.v].files_
          /\ \A o \in 1 .. k : heap'[o].file = heap[o].file
      BY <1>1, <3>1 DEF FilesKept, SameLists, SameFiles
    <3>3. AsEdited(heap, level, s, wanted[level]) /\ s \in Seq(1 .. k)
      <4>1. versions[builder.v].files_ \in FileLists(k)
        BY <3>1, RightHas
      <4>2. s \in Seq(1 .. k)
        BY <4>1 DEF FileLists
      <4> QED BY <3>1, <4>2 DEF Asks, SavedOf
    <3> HIDE DEF s
    <3>4. AsEdited(heap', level, s, wanted[level])
      BY <3>2, <3>3, EditedKept
    <3> QED BY <3>1, <3>2, <3>4 DEF s
  <2>2. builder'.phase # "aborted"
    BY <1>3
  <2> QED BY <1>1, <2>1, <2>2 DEF SavedOf
<1>5. builder'.phase # "open"
  BY <1>3
<1> QED BY <1>1, <1>4, <1>5, KeptAsks DEF Asks

(* A new table's number is above those of all files.                       *)
LEMMA NextIsNew ==
  ASSUME Right(heap, versions, current_, builder), NumbersOk(heap)
  PROVE  NextNumber \in Nat /\ \A o \in DOMAIN heap : heap[o].file.number # NextNumber
<1> DEFINE k == Len(heap)
           M(i) == {0} \cup {heap[o].file.number : o \in 1 .. i}
           Most(m, i) == m \in M(i) /\ \A y \in M(i) : m >= y
           D == {i \in 0 .. k : \E m : Most(m, i)}
<1>1. k \in Nat /\ DOMAIN heap = 1 .. k /\ \A o \in 1 .. k : heap[o].file.number \in Nat
  BY RightHas DEF NumbersOk
<1> HIDE DEF k
<1>2. \A i \in 0 .. k : M(i) \subseteq Nat
  <2>1. \A i \in 0 .. k : \A o \in 1 .. i : o \in 1 .. k
    BY <1>1
  <2> QED BY <1>1, <2>1
<1>3. 0 \in D
  <2>1. 0 \in 0 .. k /\ M(0) = {0}
    BY <1>1
  <2>2. Most(0, 0)
    BY <2>1
  <2> HIDE DEF Most
  <2> QED BY <2>1, <2>2
<1>4. ASSUME NEW i \in 1 .. k, i - 1 \in D PROVE i \in D
  <2> DEFINE z == heap[i].file.number
  <2>1. i \in 0 .. k /\ i - 1 \in 0 .. k /\ z \in Nat
    BY <1>1
  <2>2. PICK m : Most(m, i - 1)
    BY <1>4
  <2>3. 1 .. i = 1 .. i - 1 \cup {i}
    BY <2>1
  <2>4. M(i) = M(i - 1) \cup {z}
    BY <2>3
  <2> HIDE DEF z
  <2>5. m \in Nat /\ \A y \in M(i - 1) : y \in Nat
    BY <1>2, <2>1, <2>2
  <2> HIDE DEF M
  <2>6. Most(m, i) \/ Most(z, i)
    <3>1. CASE z <= m
      BY <2>1, <2>2, <2>4, <2>5, <3>1
    <3>2. CASE z > m
      BY <2>1, <2>2, <2>4, <2>5, <3>2
    <3> QED BY <2>1, <2>5, <3>1, <3>2
  <2> HIDE DEF Most
  <2> QED BY <2>1, <2>6
<1>5. k \in D
  <2>1. k \in 0 .. k
    BY <1>1
  <2> HIDE DEF D
  <2> QED BY <1>1, <1>3, <1>4, <2>1, Reaches
<1>6. M(k) = {0} \cup {file(o).number : o \in DOMAIN heap}
  BY <1>1 DEF file
<1>7. \E m : Most(m, k)
  BY <1>5
<1>8. k \in 0 .. k
  BY <1>1
<1> DEFINE m == Max(M(k))
<1>9. m \in M(k) /\ \A y \in M(k) : m >= y
  <2> HIDE DEF M
  <2> QED BY <1>7 DEF Max
<1>10. NextNumber = 1 + m
  BY <1>6 DEF NextNumber
<1>11. \A o \in 1 .. k : heap[o].file.number \in M(k)
  OBVIOUS
<1>12. m \in Nat
  BY <1>2, <1>8, <1>9
<1> HIDE DEF m, M
<1> QED BY <1>1, <1>9, <1>10, <1>11, <1>12

LEMMA ApplyAsks ==
  ASSUME Right(heap, versions, current_, builder), Asks(heap, versions, current_, builder, wanted),
         NEW r \in KeyRanges, apply(r)
  PROVE  Asks(heap', versions', current_', builder', wanted')
<1> DEFINE m == NewFileEdit(0, r, {}).new_files_[1].file
           k == Len(heap)
           n == Len(versions)
           base == versions[current_].files_
           files == [base EXCEPT ![0] = Append(@, k + 1)]
<1>1. builder.phase = "none" /\ wanted' = wanted
  BY DEF apply
<1>2. /\ IsHeap(heap') /\ Len(heap') = k + 1
      /\ \A o \in 1 .. k : heap'[o].file = heap[o].file
      /\ heap'[k + 1].file = m /\ OneMoreVersion(versions, versions', files)
      /\ builder' = builder
  BY ApplyMakes
<1>3. /\ DOMAIN heap = 1 .. k /\ k \in Nat
      /\ DOMAIN versions = 1 .. n /\ n \in Nat
      /\ current_ \in DOMAIN versions
      /\ \A v \in DOMAIN versions : versions[v].files_ \in FileLists(k)
  BY RightHas
<1>4. m.number = NextNumber
  BY DEF NewFileEdit, Clear
<1>5. NumbersOk(heap) /\ \A v \in DOMAIN versions : \A level \in Level :
                            NumbersDiffer(heap, versions[v].files_[level])
  BY DEF Asks
<1>6. NextNumber \in Nat /\ \A o \in 1 .. k : heap[o].file.number # NextNumber
  BY <1>3, <1>5, NextIsNew
<1>7. \A l \in Level : files[l] = IF l = 0 THEN Append(base[0], k + 1) ELSE base[l]
  <2>1. DOMAIN base = Level
    BY <1>3 DEF FileLists
  <2> HIDE DEF base, k
  <2> QED BY <2>1
<1>8. \A l \in Level : base[l] \in Seq(1 .. k) /\ NumbersDiffer(heap, base[l])
  BY <1>3, <1>5 DEF FileLists
<1> HIDE DEF m, files, k, base, n
<1>9. DOMAIN heap' = 1 .. k + 1 /\ \A o \in 1 .. k + 1 : o \in 1 .. k \/ o = k + 1
  BY <1>2, <1>3, HeapIs
<1>10. NumbersOk(heap')
  BY <1>2, <1>3, <1>4, <1>5, <1>6, <1>9 DEF NumbersOk
<1>11. ASSUME NEW l \in Level PROVE NumbersDiffer(heap', files[l])
  <2>1. NumbersDiffer(heap', base[l])
    BY <1>2, <1>8, NumbersKept
  <2>2. CASE l = 0
    <3> DEFINE b == base[0]
               a == Append(b, k + 1)
               j == Len(b)
               S == 1 .. k
    <3>1. files[l] = a /\ b \in Seq(S) /\ NumbersDiffer(heap', b)
      BY <1>7, <1>8, <2>1, <2>2
    <3>2. \A o \in S : heap'[o].file.number # heap'[k + 1].file.number
      BY <1>2, <1>4, <1>6
    <3> HIDE DEF b, S
    <3>3. j \in Nat /\ DOMAIN b = 1 .. j
      BY <3>1
    <3>4. DOMAIN a = 1 .. j + 1 /\ a[j + 1] = k + 1 /\ \A i \in 1 .. j : a[i] = b[i]
      BY <3>1
    <3> HIDE DEF a, j
    <3>5. \A i \in 1 .. j + 1 : i \in 1 .. j \/ i = j + 1
      BY <3>3
    <3>6. \A i \in 1 .. j : heap'[b[i]].file.number # heap'[k + 1].file.number
      BY <3>1, <3>2, <3>3, ListedIn
    <3>7. NumbersDiffer(heap', a)
      BY <3>1, <3>3, <3>4, <3>5, <3>6 DEF NumbersDiffer
    <3> QED BY <3>1, <3>7
  <2>3. CASE l # 0
    BY <1>7, <2>1, <2>3
  <2> QED BY <2>2, <2>3
<1>12. ASSUME NEW v \in DOMAIN versions', NEW l \in Level
       PROVE  NumbersDiffer(heap', versions'[v].files_[l])
  <2>1. v \in 1 .. n \/ v = n + 1
    BY <1>2, <1>3 DEF OneMoreVersion, n
  <2>2. CASE v = n + 1
    BY <1>2, <1>11, <2>2 DEF OneMoreVersion, n
  <2>3. CASE v \in 1 .. n
    <3> DEFINE s == versions[v].files_[l]
    <3>1. s \in Seq(1 .. k) /\ NumbersDiffer(heap, s)
      BY <1>3, <1>5, <2>3 DEF FileLists
    <3> HIDE DEF s
    <3>2. NumbersDiffer(heap', s)
      BY <1>2, <3>1, NumbersKept
    <3> QED BY <1>2, <2>3, <3>2 DEF OneMoreVersion, n, s
  <2> QED BY <2>1, <2>2, <2>3
<1>13. builder'.phase = "none"
  BY <1>1, <1>2
<1>14. SavedOf(heap', versions', builder', wanted')
  BY <1>13 DEF SavedOf
<1> QED BY <1>10, <1>12, <1>13, <1>14 DEF Asks

(* An edit made in memory.                                                 *)
LEMMA KnownPairs ==
  /\ \A d \in Known : d = <<d[1], d[2]>>
  /\ \A l \in Level :
       \A o \in ToSet(versions[current_].files_[l]) \cup ToSet(builder.added_files[l]) :
         <<l, file(o).number>> \in Known
<1>1. \A d : d \in Known <=>
        \E l \in Level :
          \E o \in ToSet(versions[current_].files_[l]) \cup ToSet(builder.added_files[l]) :
            d = <<l, file(o).number>>
  BY DEF Known
<1> QED BY <1>1

LEMMA OneFileAsks ==
  ASSUME Right(heap, versions, current_, builder), Fit(heap, versions), builder.phase = "open",
         Asks(heap, versions, current_, builder, wanted),
         NEW D, \A d \in D : d = <<d[1], d[2]>>,
         NEW l, NEW x, x.number \in Nat, Ranged(x.smallest, x.largest),
         l \in Level =>
           \A o \in ToSet(versions[current_].files_[l]) \cup ToSet(builder.added_files[l]) :
             heap[o].file.number # x.number,
         NEW e, e = [Clear EXCEPT !.deleted_files_ = D,
                                  !.new_files_ = <<[level |-> l, file |-> x]>>],
         Apply(e)
  PROVE  Asks(heap', versions, current_, builder', After1(wanted, e))
<1> DEFINE y == [level |-> l, file |-> x]
           s == <<y>>
<1>1. y.level = l /\ y.file = x
  OBVIOUS
<1> HIDE DEF y
<1>2. /\ DOMAIN s = {1} /\ s[1] = y /\ Len(s) = 1 /\ 1 .. 1 = {1}
      /\ s = [i \in 1 .. 1 |-> s[i]]
  OBVIOUS
<1> HIDE DEF s
<1>3. e.new_files_ = s /\ e.deleted_files_ = D
  BY DEF Clear, s, y
<1>4. IsList(e.new_files_)
  BY <1>2, <1>3 DEF IsList
<1>5. RangedFiles(e.new_files_) /\ \A i \in DOMAIN e.new_files_ : e.new_files_[i].file = x
  BY <1>1, <1>2, <1>3 DEF RangedFiles
<1>6. \A m \in Level : AddedAt(e.new_files_, m) # {} => m = l
  BY <1>1, <1>2, <1>3 DEF AddedAt
<1>7. \A m \in Level : AddedAt(e.new_files_, m) # {} =>
        \A o \in ToSet(versions[current_].files_[m]) \cup ToSet(builder.added_files[m]) :
          heap[o].file.number # x.number
  BY <1>6
<1> QED BY <1>3, <1>4, <1>5, <1>7, EditAsks

LEMMA MemoryAsks ==
  ASSUME Right(heap, versions, current_, builder), Fit(heap, versions),
         Asks(heap, versions, current_, builder, wanted), applyEdit
  PROVE  Asks(heap', versions', current_', builder', wanted')
<1>1. builder.phase = "open" /\ versions' = versions /\ current_' = current_
  BY DEF applyEdit
<1>2. PICK e \in MemoryEdits : Apply(e) /\ wanted' = After1(wanted, e)
  BY DEF applyEdit
<1>3. /\ DOMAIN heap = 1 .. Len(heap) /\ current_ \in DOMAIN versions
      /\ versions[current_].files_ \in FileLists(Len(heap))
      /\ builder.added_files \in FileLists(Len(heap))
  BY RightHas
<1>4. NumbersOk(heap)
  BY DEF Asks
<1>5. \A l \in Level :
        \A o \in ToSet(versions[current_].files_[l]) \cup ToSet(builder.added_files[l]) :
          o \in DOMAIN heap
  <2> DEFINE S == 1 .. Len(heap)
  <2>1. \A l \in Level : versions[current_].files_[l] \in Seq(S) /\ builder.added_files[l] \in Seq(S)
    BY <1>3 DEF FileLists
  <2> HIDE DEF S
  <2>2. \A l \in Level : /\ ToSet(versions[current_].files_[l]) \subseteq S
                         /\ ToSet(builder.added_files[l]) \subseteq S
    BY <2>1, ListedIn
  <2> QED BY <1>3, <2>2 DEF S
<1>6. ASSUME NEW l, NEW r \in KeyRanges, NEW D \in SUBSET Known, e = NewFileEdit(l, r, D)
      PROVE  Asks(heap', versions, current_, builder', After1(wanted, e))
  <2> DEFINE x == [number |-> NextNumber, file_size |-> 1, smallest |-> r[1], largest |-> r[2]]
  <2>1. e = [Clear EXCEPT !.deleted_files_ = D, !.new_files_ = <<[level |-> l, file |-> x]>>]
    BY <1>6, Zenon DEF NewFileEdit
  <2>2. x.number = NextNumber /\ x.smallest = r[1] /\ x.largest = r[2]
    OBVIOUS
  <2> HIDE DEF x
  <2>3. x.number \in Nat /\ \A o \in DOMAIN heap : heap[o].file.number # x.number
    BY <1>4, <2>2, NextIsNew
  <2>4. Ranged(x.smallest, x.largest)
    BY <2>2, VersionBuilderAssumption
  <2>5. \A d \in D : d = <<d[1], d[2]>>
    BY KnownPairs
  <2>6. l \in Level =>
          \A o \in ToSet(versions[current_].files_[l]) \cup ToSet(builder.added_files[l]) :
            heap[o].file.number # x.number
    BY <1>5, <2>3
  <2> QED BY <1>1, <1>2, <2>1, <2>3, <2>4, <2>5, <2>6, OneFileAsks
<1>7. ASSUME NEW l, NEW o \in DOMAIN heap, <<l + 1, file(o).number>> \notin Known,
             e = MoveEdit(l, o)
      PROVE  Asks(heap', versions, current_, builder', After1(wanted, e))
  <2> DEFINE x == file(o)
             m == l + 1
             D == {<<l, file(o).number>>}
  <2>1. e = [Clear EXCEPT !.deleted_files_ = D, !.new_files_ = <<[level |-> m, file |-> x]>>]
    BY <1>7, Zenon DEF MoveEdit
  <2>2. x.number \in Nat /\ Ranged(x.smallest, x.largest)
    BY <1>4 DEF file, NumbersOk, Fit, RangedAll
  <2>3. \A d \in D : d = <<d[1], d[2]>>
    OBVIOUS
  <2>4. <<m, x.number>> \notin Known
    BY <1>7
  <2> HIDE DEF x, D, m
  <2>5. m \in Level =>
          \A q \in ToSet(versions[current_].files_[m]) \cup ToSet(builder.added_files[m]) :
            heap[q].file.number # x.number
    BY <2>4, KnownPairs DEF file
  <2> QED BY <1>1, <1>2, <2>1, <2>2, <2>3, <2>5, OneFileAsks
<1>8. \/ \E l : \E r \in KeyRanges, D \in SUBSET Known : e = NewFileEdit(l, r, D)
      \/ \E l : \E o \in DOMAIN heap :
           <<l + 1, file(o).number>> \notin Known /\ e = MoveEdit(l, o)
  <2> DEFINE Ks == {D \in SUBSET Known : Cardinality(D) <= 1}
             Ds == EditLevels \X KeyRanges \X Ks
             P(y) == /\ y[1] + 1 \in EditLevels /\ <<y[1] + 1, file(y[2]).number>> \notin Known
                     /\ y[2] \in ToSet(versions[current_].files_[y[1]])
             Ms == {y \in EditLevels \X DOMAIN heap : P(y)}
             A == {NewFileEdit(x[1], x[2], x[3]) : x \in Ds}
             B == {MoveEdit(x[1], x[2]) : x \in Ms}
  <2>1. e \in A \/ e \in B
    BY DEF MemoryEdits
  <2>2. ASSUME e \in A
        PROVE  \E l : \E r \in KeyRanges, D \in SUBSET Known : e = NewFileEdit(l, r, D)
    <3>1. PICK x \in Ds : e = NewFileEdit(x[1], x[2], x[3])
      BY <2>2
    <3>2. x[2] \in KeyRanges /\ x[3] \in Ks
      <4> HIDE DEF Ks
      <4> QED OBVIOUS
    <3>3. x[3] \in SUBSET Known
      BY <3>2
    <3> QED BY <3>1, <3>2, <3>3
  <2>3. ASSUME e \in B
        PROVE  \E l : \E o \in DOMAIN heap :
                 <<l + 1, file(o).number>> \notin Known /\ e = MoveEdit(l, o)
    <3>1. PICK x \in Ms : e = MoveEdit(x[1], x[2])
      BY <2>3
    <3>2. x[2] \in DOMAIN heap /\ P(x)
      <4> HIDE DEF P
      <4> QED OBVIOUS
    <3> QED BY <3>1, <3>2
  <2> QED BY <2>1, <2>2, <2>3
<1>9. Asks(heap', versions, current_, builder', After1(wanted, e))
  BY <1>6, <1>7, <1>8
<1> QED BY <1>1, <1>2, <1>9, Zenon

(* The edit that was read from a record: it has one file for all of its    *)
(* new files, and is what was written when there is at most one.           *)
LEMMA DecodedIs ==
  ASSUME IInv, msg = "done", cut = 0, edit \in Recorded
  PROVE  /\ DecodedEdit.deleted_files_ = edit.deleted_files_
         /\ edit.deleted_files_ \subseteq (0 .. kMaxLevel - 1) \X Number
         /\ \A i \in DOMAIN DecodedEdit.new_files_ :
              DecodedEdit.new_files_[i].file = f /\ f.number \in Nat
         /\ Len(edit.new_files_) <= 1 => DecodedEdit.new_files_ = edit.new_files_
<1>1. edit \in Edits /\ edit \in Edit
  BY VersionEditAssumption DEF IInv, Good
<1>2. /\ decoded = [edit EXCEPT !.new_files_ = Levels(edit), !.log_number_ = Unset]
      /\ edit.new_files_ # <<>> => f = edit.new_files_[Len(edit.new_files_)].file
  BY WholeEdit DEF WholeEditIsReadBack
<1> DEFINE d == edit.new_files_
           n == Len(d)
           s == DecodedEdit.new_files_
<1>3. d \in Seq(NewFile) /\ edit.deleted_files_ \subseteq (0 .. kMaxLevel - 1) \X Number
  BY <1>1 DEF Edit
<1>4. DOMAIN d = 1 .. n /\ n \in Nat /\ (\A i \in 1 .. n : d[i] \in NewFile)
      /\ d = [i \in 1 .. n |-> d[i]]
  <2> HIDE DEF d
  <2> QED BY <1>3
<1>5. /\ decoded.new_files_ = Levels(edit) /\ decoded.deleted_files_ = edit.deleted_files_
      /\ \A x : /\ [decoded EXCEPT !.new_files_ = x].new_files_ = x
                /\ [decoded EXCEPT !.new_files_ = x].deleted_files_ = edit.deleted_files_
  <2>1. edit = [log_number_ |-> edit.log_number_,
                prev_log_number_ |-> edit.prev_log_number_,
                next_file_number_ |-> edit.next_file_number_,
                last_sequence_ |-> edit.last_sequence_, deleted_files_ |-> edit.deleted_files_,
                new_files_ |-> edit.new_files_]
    BY <1>1 DEF Edit
  <2> DEFINE l == Levels(edit)
  <2> HIDE DEF l
  <2>2. decoded = [log_number_ |-> Unset,
                   prev_log_number_ |-> edit.prev_log_number_,
                   next_file_number_ |-> edit.next_file_number_,
                   last_sequence_ |-> edit.last_sequence_, deleted_files_ |-> edit.deleted_files_,
                   new_files_ |-> l]
    BY <1>2, <2>1 DEF l
  <2>3. /\ decoded.new_files_ = l /\ decoded.deleted_files_ = edit.deleted_files_
        /\ \A x : /\ [decoded EXCEPT !.new_files_ = x].new_files_ = x
                  /\ [decoded EXCEPT !.new_files_ = x].deleted_files_ = edit.deleted_files_
    BY <2>2
  <2> QED BY <2>3 DEF l
<1>6. DOMAIN decoded.new_files_ = 1 .. n /\ \A i \in 1 .. n : decoded.new_files_[i] = d[i].level
  BY <1>4, <1>5 DEF Levels
<1>7. /\ s = [i \in 1 .. n |-> [level |-> decoded.new_files_[i], file |-> f]]
      /\ DecodedEdit.deleted_files_ = edit.deleted_files_
  <2> DEFINE x == [i \in DOMAIN decoded.new_files_ |->
                     [level |-> decoded.new_files_[i], file |-> f]]
  <2>1. DecodedEdit = [decoded EXCEPT !.new_files_ = x]
    BY Zenon DEF DecodedEdit
  <2> HIDE DEF x
  <2>2. s = x /\ DecodedEdit.deleted_files_ = edit.deleted_files_
    BY <1>5, <2>1
  <2> QED BY <1>6, <2>2 DEF x
<1> HIDE DEF s
<1>8. \A i \in 1 .. n : i \in 1 .. n /\ n \in 1 .. n /\ d # <<>>
  BY <1>4
<1>9. \A i \in 1 .. n : f = d[n].file /\ d[n] \in NewFile
  BY <1>2, <1>4, <1>8
<1> HIDE DEF d, n
<1>10. \A i \in DOMAIN s : s[i].file = f /\ f.number \in Nat
  <2>1. \A y \in NewFile : y.file.number \in Nat
    BY DEF NewFile, FileMetaData, Number
  <2> QED BY <1>7, <1>9, <2>1
<1>11. ASSUME n <= 1
       PROVE  s = d
  <2>1. ASSUME NEW i \in 1 .. n
        PROVE  [level |-> decoded.new_files_[i], file |-> f] = d[i]
    <3>1. i = n
      BY <1>4, <1>11
    <3>2. d[i] = [level |-> d[i].level, file |-> d[i].file]
      BY <1>4 DEF NewFile
    <3> QED BY <1>6, <1>9, <3>1, <3>2
  <2>2. s = [i \in 1 .. n |-> d[i]]
    BY <1>7, <2>1
  <2> QED BY <1>4, <2>2
<1> QED BY <1>3, <1>7, <1>10, <1>11 DEF s, d, n

LEMMA RecordAsks ==
  ASSUME SInv, Asks(heap, versions, current_, builder, wanted), applyRecord
  PROVE  Asks(heap', versions', current_', builder', wanted')
<1>1. /\ builder.phase = "open" /\ heap = <<>> /\ versions' = versions /\ current_' = current_
      /\ Apply(DecodedEdit) /\ wanted' = After1(wanted, Meant)
  BY DEF applyRecord
<1>2. /\ Right(heap, versions, current_, builder) /\ Fit(heap, versions)
      /\ IInv /\ msg = "done" /\ cut = 0 /\ edit \in Recorded
  BY <1>1 DEF SInv, BInv
<1> DEFINE e == DecodedEdit
           s == e.new_files_
           x == IF s = <<>> THEN [number |-> 0] ELSE f
<1>3. /\ e.deleted_files_ = edit.deleted_files_
      /\ edit.deleted_files_ \subseteq (0 .. kMaxLevel - 1) \X Number
      /\ \A i \in DOMAIN s : s[i].file = f /\ f.number \in Nat
      /\ Len(edit.new_files_) <= 1 => s = edit.new_files_
  BY <1>2, DecodedIs
<1>4. IsList(s) /\ RangedFiles(s)
  BY <1>2, DecodedList, DecodedRanged
<1>5. \A p \in e.deleted_files_ : p = <<p[1], p[2]>>
  BY <1>3
<1> HIDE DEF e
<1>6. x.number \in Nat /\ \A i \in DOMAIN s : s[i].file = x
  <2>1. CASE s = <<>>
    BY <2>1
  <2>2. CASE s # <<>>
    <3>1. 1 \in DOMAIN s
      BY <1>4, <2>2 DEF IsList
    <3> QED BY <1>3, <2>2, <3>1
  <2> QED BY <2>1, <2>2
<1>7. \A l \in Level :
        ToSet(versions[current_].files_[l]) \cup ToSet(builder.added_files[l]) = {}
  <2>1. Len(heap) = 0 /\ current_ \in DOMAIN versions
    BY <1>1, <1>2, RightHas
  <2>2. versions[current_].files_ \in FileLists(0) /\ builder.added_files \in FileLists(0)
    BY <1>2, <2>1, RightHas
  <2>3. \A l \in Level : versions[current_].files_[l] \in Seq({}) /\ builder.added_files[l] \in Seq({})
    BY <2>2 DEF FileLists
  <2>4. \A y \in Seq({}) : ToSet(y) = {}
    BY ListedIn
  <2> QED BY <2>3, <2>4
<1> HIDE DEF x
<1>8. Asks(heap', versions, current_, builder', After1(wanted, e))
  <2>1. \A l \in Level : AddedAt(s, l) # {} =>
          \A o \in ToSet(versions[current_].files_[l]) \cup ToSet(builder.added_files[l]) :
            heap[o].file.number # x.number
    BY <1>7
  <2>2. Apply(e)
    BY <1>1 DEF e
  <2> QED BY <1>1, <1>2, <1>4, <1>5, <1>6, <2>1, <2>2, EditAsks
<1>9. After1(wanted, Meant) = After1(wanted, e)
  <2>1. CASE Len(edit.new_files_) <= 1
    <3>1. Meant = edit
      BY <2>1 DEF Meant
    <3>2. s = edit.new_files_ /\ e.deleted_files_ = edit.deleted_files_
      BY <1>3, <2>1
    <3> QED BY <3>1, <3>2, Zenon DEF After1
  <2>2. CASE ~ (Len(edit.new_files_) <= 1)
    BY <2>2 DEF Meant, e
  <2> QED BY <2>1, <2>2
<1> QED BY <1>1, <1>8, <1>9, Zenon

LEMMA SavedInit == BuilderInit => AInv
<1> SUFFICES ASSUME BuilderInit PROVE AInv
  OBVIOUS
<1> DEFINE x == [files_ |-> PerLevel(<<>>), ref_ |-> 1]
           vs == <<x>>
<1>1. heap = <<>> /\ versions = vs /\ builder = NoBuilder
  BY Zenon DEF BuilderInit
<1>2. x.files_ = PerLevel(<<>>) /\ builder.phase = "none"
  BY <1>1, NewBuilder
<1>3. NumbersOk(heap)
  BY <1>1 DEF NumbersOk
<1>4. \A level \in Level : NumbersDiffer(heap, x.files_[level])
  <2>1. \A level \in Level : x.files_[level] = <<>>
    BY <1>2 DEF PerLevel
  <2> HIDE DEF x
  <2>2. NumbersDiffer(heap, <<>>)
    BY DEF NumbersDiffer
  <2> QED BY <2>1, <2>2
<1> HIDE DEF x
<1>5. \A v \in DOMAIN vs : vs[v] = x
  OBVIOUS
<1> HIDE DEF vs
<1>6. \A v \in DOMAIN versions : \A level \in Level : NumbersDiffer(heap, versions[v].files_[level])
  BY <1>1, <1>4, <1>5
<1>7. SavedOf(heap, versions, builder, wanted)
  BY <1>2 DEF SavedOf
<1>8. Asks(heap, versions, current_, builder, wanted)
  BY <1>2, <1>3, <1>6, <1>7 DEF Asks
<1> QED BY <1>8, SearchInit DEF AInv

LEMMA SavedNext ==
  ASSUME AInv, [BuilderNext]_<<vars, builderVars>>
  PROVE  AInv'
<1>1. /\ SInv /\ SInv' /\ Asks(heap, versions, current_, builder, wanted)
      /\ Right(heap, versions, current_, builder) /\ Fit(heap, versions)
  BY SearchNext DEF AInv, SInv, BInv
<1>2. CASE edit_step \/ UNCHANGED <<vars, builderVars>>
  <2>1. /\ heap' = heap /\ versions' = versions /\ current_' = current_
        /\ builder' = builder /\ wanted' = wanted
    BY <1>2 DEF edit_step, builderVars
  <2>2. Asks(heap', versions', current_', builder', wanted')
    BY <1>1, <2>1, Zenon
  <2> QED BY <1>1, <2>2, Zenon DEF AInv
<1>3. CASE \/ Builder \/ applyRecord \/ applyEdit \/ SaveTo \/ AppendVersion \/ deleteBuilder
           \/ \E r \in KeyRanges : apply(r)
  <2>1. Asks(heap', versions', current_', builder', wanted')
    BY <1>1, <1>3, StartAsks, RecordAsks, MemoryAsks, SaveAsks, ReleaseAsks, ApplyAsks
  <2> QED BY <1>1, <2>1, Zenon DEF AInv
<1> QED BY <1>2, <1>3, Zenon DEF BuilderNext, version_step

(* The numbers of a version's files tell them apart, and an open Builder's *)
(* base, additions and deletions are what its edits ask for, in every      *)
(* reachable state.                                                        *)
THEOREM SavedInductive == BuilderSpec => []AInv
BY SavedInit, SavedNext, PTL DEF BuilderSpec

(* The Builder saves what its edits ask for, each file once, above level 0 *)
(* in the order of the keys, and aborts only when files above level 0      *)
(* overlap: for any records, any edits in memory and any number of         *)
(* Builders.                                                               *)
THEOREM SavedCorrect == BuilderSpec => []SavedAsEdited
<1>1. ASSUME AInv
      PROVE  SavedAsEdited
  <2>1. SavedOf(heap, versions, builder, wanted)
    BY <1>1 DEF AInv, Asks
  <2>2. ASSUME builder.phase = "saved", NEW level \in Level
        PROVE  LET s == versions[builder.v].files_[level]
               IN /\ FilesOf(s) = wanted[level]
                  /\ Len(s) = Cardinality(wanted[level])
                  /\ level > 0 => \A i \in 1 .. Len(s) - 1 :
                                    Less(file(s[i]).largest.key, file(s[i + 1]).smallest.key)
    <3> DEFINE s == versions[builder.v].files_[level]
    <3>1. AsEdited(heap, level, s, wanted[level])
      BY <2>1, <2>2 DEF SavedOf
    <3> HIDE DEF s
    <3>2. FilesOf(s) = {heap[o].file : o \in ToSet(s)}
      BY DEF FilesOf, file
    <3>3. /\ FilesOf(s) = wanted[level]
          /\ Len(s) = Cardinality(wanted[level])
          /\ level > 0 => \A i \in 1 .. Len(s) - 1 :
                            Less(file(s[i]).largest.key, file(s[i + 1]).smallest.key)
      BY <3>1, <3>2, Zenon DEF AsEdited, file
    <3> QED BY <3>3 DEF s
  <2>3. builder.phase = "aborted" => \E level \in Level \ {0} : ~ Disjoint(wanted[level])
    BY <2>1 DEF SavedOf
  <2> QED BY <2>2, <2>3, Zenon DEF SavedAsEdited
<1> QED BY <1>1, SavedInductive, PTL
=============================================================================
