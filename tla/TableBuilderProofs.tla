------------------------- MODULE TableBuilderProofs -------------------------
(***************************************************************************)
(* Proofs about TableBuilder, for keys of any length over bytes of any     *)
(* width and for every block size and restart interval: restart points     *)
(* bound the entries a seeking reader walks, and the keys of the index     *)
(* separate the blocks, whichever writes fail; a block that was cut is     *)
(* refused, a finished table is read back from its bytes alone, and the    *)
(* filter block built along with it answers for the blocks it was built of.*)
(***************************************************************************)
EXTENDS TableReader, FormatProofs

-----------------------------------------------------------------------------
(* What a Rep holds.                                                       *)
EntryType == [shared : Nat, delta : Bytes, value : Seq(Nat)]
BlockType == [entries : Seq(EntryType), buffer : Seq(Nat), restarts : Seq(Nat),
              counter : Nat, last_key : Bytes]
HandleType == [offset : Nat, size : Nat]
RepType == [offset : Nat, ok : BOOLEAN, closed : BOOLEAN, num_entries : Nat,
            data_block : BlockType, index_block : BlockType, last_key : Bytes,
            pending_index_entry : BOOLEAN, pending_handle : HandleType,
            file : Seq([handle : HandleType, block : BlockType]), footer : Seq(Nat)]

(* f is what the recursion of BlockKeys defines for b.                     *)
Spells(f, b) ==
  f = [i \in DOMAIN b.entries |->
         (IF i = 1 THEN <<>> ELSE SubSeq(f[i - 1], 1, b.entries[i].shared))
           \o b.entries[i].delta]

(* A block whose entries are all keys, with the last one in last_key and   *)
(* as many entries since the last restart point as the counter says.       *)
KeysKnown(b) ==
  /\ Spells(BlockKeys(b), b) /\ BlockKeys(b) \in Seq(Bytes)
  /\ IF b.entries = <<>> THEN b.last_key = <<>>
     ELSE b.last_key = BlockKeys(b)[Len(b.entries)]

RestartsKnown(b, interval) ==
  /\ b.restarts # <<>> /\ b.restarts[1] = 0
  /\ b.counter <= interval /\ (b.entries # <<>> => b.counter # 0)
  /\ b.restarts[Len(b.restarts)] + b.counter = Len(b.entries)
  /\ \A i \in 1 .. Len(b.restarts) - 1 :
       b.restarts[i] <= b.restarts[i + 1] /\ b.restarts[i + 1] <= b.restarts[i] + interval
  /\ \A i \in 1 .. Len(b.restarts) :
       IF b.entries = <<>> THEN b.restarts[i] = 0
       ELSE b.restarts[i] < Len(b.entries) /\ b.entries[b.restarts[i] + 1].shared = 0

(* The buffer is the bytes of the entries, and as long as the last key: no *)
(* entry shares more than that.                                            *)
Coded(b) == [i \in DOMAIN b.entries |-> EntryBytes(b.entries[i])]
BytesKnown(b) ==
  /\ b.buffer = FlattenSeq(Coded(b)) /\ Len(b.last_key) <= Len(b.buffer)
  /\ \A i \in DOMAIN b.entries : b.entries[i].shared <= Len(b.buffer)

Good(b, interval) ==
  b \in BlockType /\ KeysKnown(b) /\ RestartsKnown(b, interval) /\ BytesKnown(b)

GoodRep(r) ==
  /\ r \in RepType
  /\ Good(r.data_block, block_restart_interval) /\ Good(r.index_block, 1)
  /\ \A j \in DOMAIN r.file : Good(r.file[j].block, block_restart_interval)

(* Every key of a block, or of the first n entries of one, is below key,   *)
(* or at most key.                                                         *)
KeysBelow(b, key) == \A i \in DOMAIN b.entries : Less(BlockKeys(b)[i], key)
KeysUpTo(b, key) == \A i \in DOMAIN b.entries : LessEq(BlockKeys(b)[i], key)
KeysAbove(b, key) == \A i \in DOMAIN b.entries : Less(key, BlockKeys(b)[i])

(* Entry j of the index and the blocks written so far.                     *)
Separates(r, j) ==
  LET key == BlockKeys(r.index_block)[j]
  IN /\ r.index_block.entries[j].value = EncodeHandle(r.file[j].handle)
     /\ KeysUpTo(r.file[j].block, key)
     /\ \A i \in j + 1 .. Len(r.file) : KeysAbove(r.file[i].block, key)
     /\ KeysAbove(r.data_block, key)
     /\ \A i \in 1 .. j - 1 : Less(BlockKeys(r.index_block)[i], key)

Filled(r) == \A j \in 1 .. Len(r.file) : r.file[j].block.entries # <<>>

(* A table half written, with the keys of Y still to come.  While an index *)
(* entry is pending the last block has no entry, and every key of the      *)
(* index is below last_key, which every key to come is above.  No block is *)
(* written empty.                                                          *)
Written(r, Y) ==
  /\ Filled(r)
  /\ Len(r.file) = Len(r.index_block.entries) + (IF r.pending_index_entry THEN 1 ELSE 0)
  /\ \A j \in DOMAIN r.index_block.entries : Separates(r, j)
  /\ \A y \in Y : KeysBelow(r.data_block, y) /\ KeysBelow(r.index_block, y)
  /\ r.data_block.entries # <<>> => r.data_block.last_key = r.last_key
  /\ KeysUpTo(r.data_block, r.last_key)
  /\ r.pending_index_entry =>
       /\ r.data_block.entries = <<>>
       /\ r.pending_handle = r.file[Len(r.file)].handle
       /\ KeysUpTo(r.file[Len(r.file)].block, r.last_key)
       /\ KeysBelow(r.index_block, r.last_key)
       /\ \A y \in Y : Less(r.last_key, y)
-----------------------------------------------------------------------------
LEMMA EncodeHandleType ==
  ASSUME NEW h \in HandleType
  PROVE  EncodeHandle(h) \in Seq(Nat)
<1>1. h.offset \in Nat /\ h.size \in Nat
  BY DEF HandleType
<1> QED BY <1>1, PutVarintType, ConcatProperties DEF EncodeHandle

LEMMA EncodeFooterType ==
  ASSUME NEW h \in HandleType, NEW g \in HandleType
  PROVE  /\ EncodeFooter([metaindex_handle |-> h, index_handle |-> g]) \in Seq(Nat)
         /\ EncodeFooter([metaindex_handle |-> h, index_handle |-> g]) # <<>>
<1> DEFINE handles == EncodeHandle(h) \o EncodeHandle(g)
           n == 2 * kMaxEncodedLength - Len(handles)
           zeros == [i \in 1 .. n |-> 0]
<1>1. handles \in Seq(Nat) /\ Len(handles) \in Nat
  BY EncodeHandleType, ConcatProperties, LenProperties
<1>2. n \in Int
  BY <1>1 DEF kMaxEncodedLength
<1>3. zeros \in Seq(Nat)
  <2> HIDE DEF n
  <2>1. CASE n >= 0
    <3>1. n \in Nat
      BY <1>2, <2>1
    <3> QED BY <3>1
  <2>2. CASE n < 0
    <3>1. 1 .. n = 1 .. 0
      BY <1>2, <2>2
    <3>2. zeros = [i \in 1 .. 0 |-> 0]
      BY <3>1
    <3>3. [i \in 1 .. 0 |-> 0] \in Seq(Nat)
      OBVIOUS
    <3> QED BY <3>2, <3>3
  <2> QED BY <1>2, <2>1, <2>2
<1>4. kTableMagicNumber \in Seq(Nat)
  BY DEF kTableMagicNumber
<1>5. EncodeFooter([metaindex_handle |-> h, index_handle |-> g])
        = (handles \o zeros) \o kTableMagicNumber
  BY DEF EncodeFooter
<1> HIDE DEF handles, zeros, n
<1>6. handles \o zeros \in Seq(Nat)
  BY <1>1, <1>3, ConcatProperties
<1>7. /\ (handles \o zeros) \o kTableMagicNumber \in Seq(Nat)
      /\ (handles \o zeros) \o kTableMagicNumber # <<>>
  <2> DEFINE a == handles \o zeros
             b == kTableMagicNumber
  <2>1. b \in Seq(Nat) /\ Len(b) = 8
    BY <1>4 DEF kTableMagicNumber
  <2>2. a \in Seq(Nat)
    BY <1>6
  <2> HIDE DEF a, b
  <2>3. Joins(a, b, Nat)
    BY <2>1, <2>2, JoinIs
  <2>4. a \o b \in Seq(Nat) /\ Len(a \o b) # 0
    BY <2>1, <2>3 DEF Joins
  <2>5. a \o b # <<>>
    BY <2>4
  <2> QED BY <2>4, <2>5 DEF a, b
<1> QED BY <1>5, <1>7
-----------------------------------------------------------------------------
(* BlockKeys, whose keys are computed from the first entry on.             *)
LEMMA KeysAreChosen ==
  ASSUME NEW b
  PROVE  BlockKeys(b) = CHOOSE f : Spells(f, b)
  BY DEF BlockKeys, Spells

LEMMA SpellsUnique ==
  ASSUME NEW b, b.entries \in Seq(EntryType), NEW f, NEW g, Spells(f, b), Spells(g, b)
  PROVE  f = g
<1> DEFINE D == {i \in DOMAIN b.entries : f[i] # g[i]}
<1>1. DOMAIN b.entries \in SUBSET Nat
  BY SeqFacts
<1>2. D = {}
  <2> SUFFICES ASSUME D # {} PROVE FALSE
    OBVIOUS
  <2>1. PICK i \in D : \A j \in D : i <= j
    <3>1. D \in SUBSET Nat
      BY <1>1
    <3> HIDE DEF D
    <3> QED BY <3>1, SmallestExists
  <2>2. i \in DOMAIN b.entries /\ i \in Nat /\ f[i] # g[i]
    BY <1>1, Zenon
  <2>3. /\ f[i] = (IF i = 1 THEN <<>> ELSE SubSeq(f[i - 1], 1, b.entries[i].shared))
                    \o b.entries[i].delta
        /\ g[i] = (IF i = 1 THEN <<>> ELSE SubSeq(g[i - 1], 1, b.entries[i].shared))
                    \o b.entries[i].delta
    BY <2>2, Zenon DEF Spells
  <2>4. CASE i = 1
    BY <2>2, <2>3, <2>4
  <2>5. CASE i # 1
    <3>1. DOMAIN b.entries = 1 .. Len(b.entries) /\ Len(b.entries) \in Nat
      BY SeqFacts
    <3>2. i - 1 \in DOMAIN b.entries /\ ~ (i <= i - 1)
      BY <2>2, <2>5, <3>1
    <3>3. f[i - 1] = g[i - 1]
      BY <2>1, <3>2
    <3> QED BY <2>2, <2>3, <2>5, <3>3, Zenon
  <2> QED BY <2>4, <2>5
<1>3. f = [i \in DOMAIN b.entries |-> f[i]] /\ g = [i \in DOMAIN b.entries |-> g[i]]
  BY Zenon DEF Spells
<1>4. \A i \in DOMAIN b.entries : f[i] = g[i]
  BY <1>2
<1> QED BY <1>3, <1>4, Zenon

LEMMA KeysAre ==
  ASSUME NEW b, b.entries \in Seq(EntryType), NEW f, Spells(f, b)
  PROVE  BlockKeys(b) = f /\ Spells(BlockKeys(b), b)
<1>1. Spells(CHOOSE g : Spells(g, b), b)
  OBVIOUS
<1>2. Spells(BlockKeys(b), b)
  BY <1>1, KeysAreChosen
<1> QED BY <1>2, SpellsUnique

(* The same entries spell the same keys.                                   *)
LEMMA SameKeys ==
  ASSUME NEW b, NEW c, b.entries = c.entries
  PROVE  BlockKeys(b) = BlockKeys(c)
  BY DEF BlockKeys
-----------------------------------------------------------------------------
(* A key is what it shares with another and the rest of it.                *)
LEMMA Rejoined ==
  ASSUME NEW key \in Bytes, NEW last \in Bytes, NEW n \in Nat,
         n <= Len(key), n <= Len(last), \A i \in 1 .. n : last[i] = key[i]
  PROVE  /\ SubSeq(key, n + 1, Len(key)) \in Bytes
         /\ SubSeq(last, 1, n) \o SubSeq(key, n + 1, Len(key)) = key
<1> DEFINE l == SubSeq(last, 1, n)
           d == SubSeq(key, n + 1, Len(key))
<1>1. /\ Len(key) \in Nat /\ \A i \in 1 .. Len(key) : key[i] \in Byte
      /\ Len(last) \in Nat /\ \A i \in 1 .. Len(last) : last[i] \in Byte
      /\ key \in Seq(Byte)
  BY DEF Bytes
<1> HIDE DEF Bytes, Byte
<1>2. l \in Seq(Byte) /\ Len(l) = n /\ \A i \in 1 .. n : l[i] = last[i]
  <2>1. \A i \in 1 .. n : last[i] \in Byte
    BY <1>1
  <2> QED BY <2>1, SubSeqProperties
<1>3. /\ d \in Seq(Byte) /\ Len(d) = Len(key) - n
      /\ \A i \in 1 .. Len(key) - n : d[i] = key[n + i]
  <2>1. \A i \in n + 1 .. Len(key) : key[i] \in Byte
    BY <1>1
  <2>2. /\ d \in Seq(Byte)
        /\ Len(d) = IF n + 1 <= Len(key) THEN Len(key) - (n + 1) + 1 ELSE 0
        /\ \A i \in 1 .. Len(key) - (n + 1) + 1 : d[i] = key[n + 1 + i - 1]
    <3>1. n + 1 \in Int /\ Len(key) \in Int
      BY <1>1
    <3> QED BY <2>1, <3>1, SubSeqProperties
  <2> HIDE DEF d
  <2> QED BY <1>1, <2>2
<1> HIDE DEF l, d
<1>4. /\ l \o d \in Seq(Byte) /\ Len(l \o d) = Len(key)
      /\ \A i \in 1 .. Len(key) : (l \o d)[i] = IF i <= n THEN l[i] ELSE d[i - n]
  BY <1>1, <1>2, <1>3, ConcatProperties
<1>5. \A i \in 1 .. Len(key) : (l \o d)[i] = key[i]
  <2>1. ASSUME NEW i \in 1 .. Len(key) PROVE (l \o d)[i] = key[i]
    <3>1. CASE i <= n
      BY <1>1, <1>2, <1>4, <3>1
    <3>2. CASE ~ (i <= n)
      <4>1. i - n \in 1 .. Len(key) - n /\ n + (i - n) = i
        BY <1>1, <3>2
      <4> QED BY <1>3, <1>4, <3>2, <4>1
    <3> QED BY <3>1, <3>2
  <2> QED BY <2>1
<1>6. l \o d = key
  BY <1>1, <1>4, <1>5, SeqEqual
<1> QED BY <1>3, <1>6 DEF l, d, Bytes

(* The prefix BlockAdd does not store is one of the last key, for a key    *)
(* that is above it, for the first key, and at a restart point.            *)
LEMMA PrefixIsShared ==
  ASSUME NEW b, b.last_key \in Bytes, NEW key \in Bytes, NEW interval,
         atRestart(b, interval) \/ b.last_key = <<>> \/ Less(b.last_key, key)
  PROVE  LET n == prefix(b, key, interval)
         IN /\ n \in Nat /\ n <= Len(key) /\ n <= Len(b.last_key)
            /\ \A i \in 1 .. n : b.last_key[i] = key[i]
            /\ atRestart(b, interval) \/ b.last_key = <<>> => n = 0
<1> DEFINE n == prefix(b, key, interval)
<1>1. Len(key) \in Nat /\ Len(b.last_key) \in Nat
  BY DEF Bytes
<1>2. CASE atRestart(b, interval)
  BY <1>1, <1>2 DEF prefix
<1>3. CASE ~ atRestart(b, interval) /\ b.last_key = <<>>
  <2>1. n = diff_index(b.last_key, key)
    BY <1>3 DEF prefix
  <2>2. Shorter(b.last_key, key) = 0
    BY <1>1, <1>3 DEF Shorter
  <2>3. 0 \in 0 .. Shorter(b.last_key, key) /\ CommonPrefix(b.last_key, key, 0)
    BY <2>2 DEF CommonPrefix
  <2>4. diff_index(b.last_key, key) \in 0 .. Shorter(b.last_key, key)
    BY <2>3 DEF diff_index
  <2>5. n = 0
    BY <2>1, <2>2, <2>4
  <2> QED BY <1>1, <2>5
<1>4. CASE ~ atRestart(b, interval) /\ b.last_key # <<>>
  <2>1. n = diff_index(b.last_key, key) /\ Less(b.last_key, key)
    BY <1>4 DEF prefix
  <2>2. n \in 0 .. Shorter(b.last_key, key) /\ CommonPrefix(b.last_key, key, n)
    BY <2>1, DiffIndex
  <2> HIDE DEF n
  <2>3. n \in Nat /\ n <= Len(key) /\ n <= Len(b.last_key)
    BY <1>1, <2>2, ShorterType
  <2> QED BY <1>4, <2>2, <2>3 DEF CommonPrefix, n
<1> QED BY <1>2, <1>3, <1>4

(* The bytes of an entry: three numbers, a rest of the key and the value.  *)
LEMMA BytesAreNat ==
  ASSUME NEW key \in Bytes
  PROVE  key \in Seq(Nat) /\ Len(key) \in Nat
<1>1. Byte \subseteq Nat
  BY MaxByteAssumption DEF Byte
<1> QED BY <1>1, SeqMonotonic, LenProperties DEF Bytes

LEMMA EntryBytesType ==
  ASSUME NEW e \in EntryType
  PROVE  EntryBytes(e) \in Seq(Nat)
<1> DEFINE a == PutVarint(e.shared)
           b == PutVarint(Len(e.delta))
           c == PutVarint(Len(e.value))
           d == e.delta
           v == e.value
<1>1. e.shared \in Nat /\ d \in Seq(Nat) /\ v \in Seq(Nat) /\ Len(d) \in Nat /\ Len(v) \in Nat
  BY BytesAreNat, LenProperties DEF EntryType
<1>2. a \in Seq(Nat) /\ b \in Seq(Nat) /\ c \in Seq(Nat)
  BY <1>1, PutVarintType
<1>3. EntryBytes(e) = (((a \o b) \o c) \o d) \o v
  BY DEF EntryBytes
<1> HIDE DEF a, b, c, d, v
<1>4. (((a \o b) \o c) \o d) \o v \in Seq(Nat)
  BY <1>1, <1>2, ConcatProperties
<1> QED BY <1>3, <1>4

LEMMA EntryBytesLong ==
  ASSUME NEW e \in EntryType
  PROVE  /\ Len(EntryBytes(e)) \in Nat /\ Len(e.delta) \in Nat /\ Len(e.value) \in Nat
         /\ Len(EntryBytes(e)) >= Len(e.delta) + Len(e.value) + 3
<1> DEFINE a == PutVarint(e.shared)
           b == PutVarint(Len(e.delta))
           c == PutVarint(Len(e.value))
           d == e.delta
           v == e.value
<1>1. e.shared \in Nat /\ d \in Seq(Nat) /\ v \in Seq(Nat) /\ Len(d) \in Nat /\ Len(v) \in Nat
  BY BytesAreNat, LenProperties DEF EntryType
<1>2. ASSUME NEW n \in Nat
      PROVE  PutVarint(n) \in Seq(Nat) /\ Len(PutVarint(n)) \in 1 .. 5
  <2>1. PutVarint(n) \in Seq(Nat) /\ branch(n) \in 1 .. 5
    BY PutVarintType
  <2>2. DOMAIN PutVarint(n) = 1 .. branch(n)
    BY DEF PutVarint
  <2>3. Len(PutVarint(n)) \in Nat /\ DOMAIN PutVarint(n) = 1 .. Len(PutVarint(n))
    BY <2>1, LenProperties
  <2>4. Len(PutVarint(n)) = branch(n)
    BY <2>1, <2>2, <2>3, UpToUnique
  <2> QED BY <2>1, <2>4
<1>3. /\ a \in Seq(Nat) /\ b \in Seq(Nat) /\ c \in Seq(Nat)
      /\ Len(a) \in 1 .. 5 /\ Len(b) \in 1 .. 5 /\ Len(c) \in 1 .. 5
  BY <1>1, <1>2
<1>4. EntryBytes(e) = (((a \o b) \o c) \o d) \o v
  BY DEF EntryBytes
<1> HIDE DEF a, b, c, d, v
<1>5. a \o b \in Seq(Nat) /\ Len(a \o b) = Len(a) + Len(b)
  BY <1>3, ConcatIs
<1>6. (a \o b) \o c \in Seq(Nat) /\ Len((a \o b) \o c) = Len(a \o b) + Len(c)
  BY <1>3, <1>5, ConcatIs
<1>7. /\ ((a \o b) \o c) \o d \in Seq(Nat)
      /\ Len(((a \o b) \o c) \o d) = Len((a \o b) \o c) + Len(d)
  BY <1>1, <1>6, ConcatIs
<1>8. Len((((a \o b) \o c) \o d) \o v) = Len(((a \o b) \o c) \o d) + Len(v)
  BY <1>1, <1>7, ConcatIs
<1> DEFINE la == Len(a)
           lb == Len(b)
           lc == Len(c)
           ld == Len(d)
           lv == Len(v)
           l == Len(EntryBytes(e))
<1>9. /\ la \in 1 .. 5 /\ lb \in 1 .. 5 /\ lc \in 1 .. 5 /\ ld \in Nat /\ lv \in Nat
      /\ l = la + lb + lc + ld + lv
  BY <1>1, <1>3, <1>4, <1>5, <1>6, <1>7, <1>8
<1> HIDE DEF la, lb, lc, ld, lv, l
<1>10. l \in Nat /\ l >= ld + lv + 3
  BY <1>9
<1> QED BY <1>9, <1>10 DEF l, ld, lv, d, v

(* What BlockAdd makes of a good block and a key above the last one: one   *)
(* entry more, of which the key can be put together again.                 *)
Stored(b, c, e, key, value, interval) ==
  /\ c \in BlockType
  /\ e.shared = prefix(b, key, interval) /\ e.value = value
  /\ e.shared <= Len(b.last_key) /\ c.buffer = b.buffer \o EntryBytes(e)
  /\ SubSeq(b.last_key, 1, e.shared) \o e.delta = key
  /\ c.entries = Append(b.entries, e) /\ c.last_key = key
  /\ c.restarts = IF atRestart(b, interval) THEN Append(b.restarts, Len(b.entries))
                  ELSE b.restarts
  /\ c.counter = IF atRestart(b, interval) THEN 1 ELSE b.counter + 1

LEMMA BlockAddIs ==
  ASSUME NEW b \in BlockType, NEW key \in Bytes, NEW value \in Seq(Nat), NEW interval,
         atRestart(b, interval) \/ b.last_key = <<>> \/ Less(b.last_key, key)
  PROVE  \E e \in EntryType : Stored(b, BlockAdd(b, key, value, interval), e, key, value, interval)
<1> DEFINE n == prefix(b, key, interval)
           d == SubSeq(key, n + 1, Len(key))
           e == [shared |-> n, delta |-> d, value |-> value]
           c == BlockAdd(b, key, value, interval)
           restarts == IF atRestart(b, interval) THEN Append(b.restarts, Len(b.entries))
                       ELSE b.restarts
           counter == IF atRestart(b, interval) THEN 1 ELSE b.counter + 1
           buffer == b.buffer \o EntryBytes(e)
<1>1. /\ b.entries \in Seq(EntryType) /\ b.buffer \in Seq(Nat) /\ b.restarts \in Seq(Nat)
      /\ b.counter \in Nat /\ b.last_key \in Bytes
  BY DEF BlockType
<1>2. /\ n \in Nat /\ n <= Len(key) /\ n <= Len(b.last_key)
      /\ \A i \in 1 .. n : b.last_key[i] = key[i]
  BY <1>1, PrefixIsShared
<1>3. c = [entries |-> Append(b.entries, e), buffer |-> buffer, restarts |-> restarts,
           counter |-> counter, last_key |-> SubSeq(b.last_key, 1, n) \o d]
  BY DEF BlockAdd
<1> HIDE DEF n
<1>4. d \in Bytes /\ SubSeq(b.last_key, 1, n) \o d = key
  BY <1>1, <1>2, Rejoined
<1> HIDE DEF d
<1>5. e \in EntryType /\ e.shared = n /\ e.delta = d /\ e.value = value
  BY <1>2, <1>4 DEF EntryType
<1>6. buffer \in Seq(Nat)
  <2>1. EntryBytes(e) \in Seq(Nat)
    BY <1>5, EntryBytesType
  <2> QED BY <1>1, <2>1, ConcatProperties
<1>7. restarts \in Seq(Nat) /\ counter \in Nat
  <2>1. Len(b.entries) \in Nat
    BY <1>1
  <2> QED BY <1>1, <2>1
<1> HIDE DEF e, restarts, counter, buffer, c
<1>8. Append(b.entries, e) \in Seq(EntryType)
  BY <1>1, <1>5, AppendFacts
<1>9. c \in BlockType
  BY <1>3, <1>4, <1>6, <1>7, <1>8 DEF BlockType
<1>10. /\ c.entries = Append(b.entries, e) /\ c.last_key = key
       /\ c.restarts = restarts /\ c.counter = counter /\ c.buffer = buffer
  BY <1>3, <1>4
<1>11. Stored(b, c, e, key, value, interval)
  BY <1>2, <1>4, <1>5, <1>9, <1>10 DEF Stored, restarts, counter, buffer, n
<1> QED BY <1>5, <1>11 DEF c

LEMMA KeysAdded ==
  ASSUME NEW b \in BlockType, KeysKnown(b), NEW key \in Bytes, NEW c \in BlockType,
         NEW e \in EntryType, SubSeq(b.last_key, 1, e.shared) \o e.delta = key,
         b.last_key = <<>> => e.shared = 0,
         c.entries = Append(b.entries, e), c.last_key = key
  PROVE  /\ KeysKnown(c) /\ BlockKeys(c) = Append(BlockKeys(b), key)
         /\ Len(BlockKeys(b)) = Len(b.entries) /\ BlockKeys(b) \in Seq(Bytes)
<1> DEFINE n == Len(b.entries)
           old == BlockKeys(b)
           g == Append(old, key)
<1>1. /\ b.entries \in Seq(EntryType) /\ c.entries \in Seq(EntryType) /\ b.last_key \in Bytes
      /\ n \in Nat /\ DOMAIN b.entries = 1 .. n
  BY SeqFacts DEF BlockType
<1>2. /\ DOMAIN c.entries = 1 .. n + 1 /\ Len(c.entries) = n + 1 /\ c.entries # <<>>
      /\ \A i \in 1 .. n : c.entries[i] = b.entries[i]
      /\ c.entries[n + 1] = e
  BY <1>1, AppendFacts
<1>3. Spells(old, b) /\ old \in Seq(Bytes)
  BY DEF KeysKnown
<1>4. Len(old) = n /\ DOMAIN old = 1 .. n
  <2>1. DOMAIN old = 1 .. n
    BY <1>1, <1>3, Zenon DEF Spells
  <2>2. Len(old) \in Nat /\ DOMAIN old = 1 .. Len(old)
    BY <1>3, SeqFacts
  <2> QED BY <1>1, <2>1, <2>2, UpToUnique, Zenon
<1>5. \A i \in 1 .. n : old[i] = (IF i = 1 THEN <<>> ELSE SubSeq(old[i - 1], 1, b.entries[i].shared))
                                   \o b.entries[i].delta
  BY <1>1, <1>3, Zenon DEF Spells
<1>6. n # 0 => b.last_key = old[n]
  BY <1>1, SeqFacts DEF KeysKnown
<1>7. n = 0 => b.last_key = <<>>
  BY <1>1, SeqFacts DEF KeysKnown
<1> HIDE DEF old
<1>8. /\ g \in Seq(Bytes) /\ Len(g) = n + 1 /\ DOMAIN g = 1 .. n + 1
      /\ \A i \in 1 .. n : g[i] = old[i]
      /\ g[n + 1] = key
  <2>1. /\ g \in Seq(Bytes) /\ Len(g) = Len(old) + 1 /\ DOMAIN g = 1 .. Len(old) + 1
        /\ \A i \in 1 .. Len(old) : g[i] = old[i]
        /\ g[Len(old) + 1] = key
    BY <1>3, AppendFacts
  <2> HIDE DEF g, n
  <2> QED BY <1>4, <2>1, Zenon
<1> HIDE DEF g, n
<1>9. ASSUME NEW i \in 1 .. n + 1
      PROVE  g[i] = (IF i = 1 THEN <<>> ELSE SubSeq(g[i - 1], 1, c.entries[i].shared))
                      \o c.entries[i].delta
  <2>1. CASE i \in 1 .. n
    <3>1. i # 1 => i - 1 \in 1 .. n
      BY <1>1, <2>1
    <3>2. i # 1 => g[i - 1] = old[i - 1]
      BY <1>8, <3>1
    <3> QED BY <1>2, <1>5, <1>8, <2>1, <3>2, Zenon
  <2>2. CASE i = n + 1
    <3>1. g[i] = SubSeq(b.last_key, 1, e.shared) \o e.delta /\ c.entries[i] = e
      BY <1>2, <1>8, <2>2
    <3>2. CASE i = 1
      <4>1. b.last_key = <<>> /\ e.shared = 0
        BY <1>1, <1>7, <2>2, <3>2
      <4>2. SubSeq(b.last_key, 1, e.shared) = <<>>
        BY <4>1, SubSeqEmpty
      <4> QED BY <3>1, <3>2, <4>2
    <3>3. CASE i # 1
      <4>1. n # 0 /\ i - 1 = n /\ i - 1 \in 1 .. n
        BY <1>1, <2>2, <3>3
      <4>2. g[i - 1] = b.last_key
        BY <1>6, <1>8, <4>1
      <4> QED BY <3>1, <3>3, <4>2, Zenon
    <3> QED BY <3>2, <3>3, Zenon
  <2>3. i \in 1 .. n \/ i = n + 1
    BY <1>1, OneMore, Zenon
  <2> QED BY <2>1, <2>2, <2>3, Zenon
<1>10. Spells(g, c)
  <2>1. g = [i \in DOMAIN c.entries |-> g[i]]
    BY <1>2, <1>8, SeqIsFunction, Zenon
  <2> QED BY <1>2, <1>9, <2>1, ZenonT(60) DEF Spells
<1>11. BlockKeys(c) = g /\ Spells(BlockKeys(c), c)
  BY <1>1, <1>10, KeysAre
<1>12. KeysKnown(c)
  BY <1>2, <1>8, <1>11 DEF KeysKnown
<1> QED BY <1>3, <1>4, <1>11, <1>12 DEF g, old, n

LEMMA RestartsAdded ==
  ASSUME NEW interval \in Nat \ {0}, NEW b \in BlockType, RestartsKnown(b, interval),
         NEW c \in BlockType, NEW e \in EntryType,
         c.entries = Append(b.entries, e), atRestart(b, interval) => e.shared = 0,
         b.entries = <<>> => e.shared = 0,
         c.restarts = IF atRestart(b, interval) THEN Append(b.restarts, Len(b.entries))
                      ELSE b.restarts,
         c.counter = IF atRestart(b, interval) THEN 1 ELSE b.counter + 1
  PROVE  RestartsKnown(c, interval)
<1> DEFINE n == Len(b.entries)
           m == Len(b.restarts)
<1>1. /\ b.entries \in Seq(EntryType) /\ b.restarts \in Seq(Nat) /\ b.counter \in Nat
      /\ b.restarts # <<>>
  BY DEF BlockType, RestartsKnown
<1>2. /\ n \in Nat /\ m \in Nat /\ m # 0 /\ b.counter \in Nat
      /\ \A i \in 1 .. m : b.restarts[i] \in Nat
      /\ b.entries = <<>> <=> n = 0
  BY <1>1, SeqFacts
<1>3. /\ Len(c.entries) = n + 1 /\ c.entries # <<>>
      /\ \A i \in 1 .. n : c.entries[i] = b.entries[i]
      /\ c.entries[n + 1] = e
  BY <1>1, AppendFacts
<1> HIDE DEF n, m
<1>4. /\ b.restarts[1] = 0 /\ b.counter <= interval /\ b.restarts[m] + b.counter = n
      /\ \A i \in 1 .. m - 1 :
           b.restarts[i] <= b.restarts[i + 1] /\ b.restarts[i + 1] <= b.restarts[i] + interval
      /\ \A i \in 1 .. m :
           IF n = 0 THEN b.restarts[i] = 0
           ELSE b.restarts[i] < n /\ b.entries[b.restarts[i] + 1].shared = 0
      /\ n # 0 => b.counter # 0
  BY <1>2 DEF RestartsKnown, n, m
<1>5. ASSUME NEW i \in 1 .. m, n = 0 => e.shared = 0
      PROVE  b.restarts[i] < n + 1 /\ c.entries[b.restarts[i] + 1].shared = 0
  <2> DEFINE r == b.restarts[i]
  <2>1. r \in Nat
    BY <1>2
  <2>2. IF n = 0 THEN r = 0 ELSE r < n /\ b.entries[r + 1].shared = 0
    BY <1>4
  <2> HIDE DEF r
  <2>3. CASE n = 0
    BY <1>3, <1>5, <2>2, <2>3 DEF r
  <2>4. CASE n # 0
    <3>1. r < n + 1 /\ r + 1 \in 1 .. n
      BY <1>2, <2>1, <2>2, <2>4
    <3> QED BY <1>3, <2>2, <2>4, <3>1 DEF r
  <2> QED BY <2>3, <2>4
<1>6. n = 0 => e.shared = 0
  BY <1>2
<1>7. CASE atRestart(b, interval)
  <2>1. /\ c.restarts \in Seq(Nat) /\ Len(c.restarts) = m + 1 /\ c.restarts # <<>>
        /\ \A i \in 1 .. m : c.restarts[i] = b.restarts[i]
        /\ c.restarts[m + 1] = n
    <3>1. c.restarts = Append(b.restarts, n)
      BY <1>7 DEF n
    <3>2. /\ Append(b.restarts, n) \in Seq(Nat) /\ Append(b.restarts, n) # <<>>
          /\ Len(Append(b.restarts, n)) = m + 1
          /\ \A i \in 1 .. m : Append(b.restarts, n)[i] = b.restarts[i]
          /\ Append(b.restarts, n)[m + 1] = n
      <4> DEFINE s == b.restarts
      <4>1. s \in Seq(Nat) /\ n \in Nat
        BY <1>1, <1>2
      <4> HIDE DEF s
      <4>2. /\ Append(s, n) \in Seq(Nat) /\ Append(s, n) # <<>>
            /\ Len(Append(s, n)) = Len(s) + 1
            /\ \A i \in 1 .. Len(s) : Append(s, n)[i] = s[i]
            /\ Append(s, n)[Len(s) + 1] = n
        BY <4>1, AppendFacts
      <4> QED BY <4>2 DEF s, m
    <3> QED BY <3>1, <3>2
  <2>2. b.counter = interval /\ c.counter = 1 /\ e.shared = 0
    BY <1>2, <1>4, <1>7 DEF atRestart
  <2>3. ASSUME NEW i \in 1 .. m
        PROVE  c.restarts[i] <= c.restarts[i + 1] /\ c.restarts[i + 1] <= c.restarts[i] + interval
    <3>1. CASE i = m
      <4>1. c.restarts[i] = b.restarts[m] /\ c.restarts[i + 1] = n /\ b.restarts[m] \in Nat
        BY <1>2, <2>1, <3>1
      <4>2. b.restarts[m] + interval = n
        BY <1>4, <2>2
      <4> DEFINE r == b.restarts[m]
      <4> HIDE DEF r
      <4>3. r \in Nat /\ r + interval = n
        BY <4>1, <4>2 DEF r
      <4>4. r <= n /\ n <= r + interval
        BY <4>3
      <4> QED BY <4>1, <4>4 DEF r
    <3>2. CASE i # m
      <4>1. i \in 1 .. m - 1 /\ i + 1 \in 1 .. m
        BY <1>2, <3>2
      <4> QED BY <1>4, <2>1, <4>1
    <3> QED BY <3>1, <3>2
  <2>4. ASSUME NEW i \in 1 .. m + 1
        PROVE  c.restarts[i] < n + 1 /\ c.entries[c.restarts[i] + 1].shared = 0
    <3>1. CASE i = m + 1
      <4>1. c.restarts[i] = n /\ n < n + 1
        BY <1>2, <2>1, <3>1
      <4> QED BY <1>3, <2>2, <4>1
    <3>2. CASE i # m + 1
      <4>1. i \in 1 .. m
        BY <1>2, <3>2
      <4> QED BY <1>5, <1>6, <2>1, <4>1
    <3> QED BY <3>1, <3>2
  <2>5. c.restarts[1] = 0
    <3>1. 1 \in 1 .. m
      BY <1>2
    <3> QED BY <1>4, <2>1, <3>1
  <2>6. c.restarts[Len(c.restarts)] + c.counter = Len(c.entries) /\ c.counter <= interval
        /\ c.counter # 0
    BY <1>3, <2>1, <2>2
  <2>7. Len(c.restarts) - 1 = m
    <3> DEFINE k == Len(c.restarts)
    <3>1. k = m + 1 /\ m \in Nat
      BY <1>2, <2>1
    <3> HIDE DEF k
    <3>2. k - 1 = m
      BY <3>1
    <3> QED BY <3>2 DEF k
  <2> QED BY <1>3, <2>1, <2>3, <2>4, <2>5, <2>6, <2>7 DEF RestartsKnown
<1>8. CASE ~ atRestart(b, interval)
  <2>1. c.restarts = b.restarts /\ c.counter = b.counter + 1 /\ Len(c.restarts) = m
    BY <1>8 DEF m
  <2>2. b.counter + 1 <= interval /\ b.counter + 1 # 0
    BY <1>2, <1>8 DEF atRestart
  <2>3. b.restarts[m] + (b.counter + 1) = n + 1
    <3>1. b.restarts[m] \in Nat
      BY <1>2
    <3> QED BY <1>2, <1>4, <3>1
  <2> QED BY <1>1, <1>3, <1>4, <1>5, <1>6, <2>1, <2>2, <2>3 DEF RestartsKnown
<1> QED BY <1>7, <1>8
-----------------------------------------------------------------------------
(* What a good block gives its users.                                      *)
LEMMA CodedType ==
  ASSUME NEW b \in BlockType
  PROVE  /\ Coded(b) \in Seq(Seq(Nat)) /\ Len(Coded(b)) = Len(b.entries)
         /\ Len(b.entries) \in Nat /\ DOMAIN b.entries = 1 .. Len(b.entries)
         /\ \A i \in 1 .. Len(b.entries) : /\ b.entries[i] \in EntryType
                                          /\ Coded(b)[i] = EntryBytes(b.entries[i])
<1> DEFINE T == Seq(Nat)
           n == Len(b.entries)
           f == Coded(b)
<1>1. b.entries \in Seq(EntryType)
  BY DEF BlockType
<1>2. /\ n \in Nat /\ DOMAIN b.entries = 1 .. n
      /\ \A i \in 1 .. n : b.entries[i] \in EntryType
  BY <1>1, SeqFacts
<1>3. f = [i \in 1 .. n |-> EntryBytes(b.entries[i])]
  BY <1>2 DEF Coded
<1>4. \A i \in 1 .. n : EntryBytes(b.entries[i]) \in T
  BY <1>2, EntryBytesType
<1> HIDE DEF T, f, n
<1>5. f \in Seq(T) /\ Len(f) = n
  BY <1>2, <1>3, <1>4
<1>6. \A i \in 1 .. n : f[i] = EntryBytes(b.entries[i])
  BY <1>3
<1> QED BY <1>2, <1>5, <1>6 DEF T, f, n

LEMMA BytesAdded ==
  ASSUME NEW b \in BlockType, BytesKnown(b), NEW c \in BlockType, NEW e \in EntryType,
         c.entries = Append(b.entries, e), c.buffer = b.buffer \o EntryBytes(e),
         e.shared <= Len(b.last_key), c.last_key = SubSeq(b.last_key, 1, e.shared) \o e.delta
  PROVE  BytesKnown(c)
<1> DEFINE n == Len(b.entries)
           x == EntryBytes(e)
           f == Coded(b)
           g == Coded(c)
<1>1. b.entries \in Seq(EntryType) /\ b.buffer \in Seq(Nat) /\ b.last_key \in Bytes
  BY DEF BlockType
<1>2. /\ n \in Nat /\ Len(f) = n /\ f \in Seq(Seq(Nat))
      /\ \A i \in 1 .. n : f[i] = EntryBytes(b.entries[i])
  BY CodedType
<1>3. /\ Len(c.entries) = n + 1 /\ DOMAIN c.entries = 1 .. n + 1
      /\ (\A i \in 1 .. n : c.entries[i] = b.entries[i]) /\ c.entries[n + 1] = e
  <2> DEFINE s == b.entries
  <2>1. s \in Seq(EntryType) /\ c.entries = Append(s, e)
    BY <1>1
  <2> HIDE DEF s
  <2>2. /\ Len(Append(s, e)) = Len(s) + 1
        /\ DOMAIN Append(s, e) = 1 .. Len(s) + 1
        /\ \A i \in 1 .. Len(s) : Append(s, e)[i] = s[i]
        /\ Append(s, e)[Len(s) + 1] = e
    BY <2>1, AppendFacts
  <2> QED BY <2>1, <2>2 DEF s
<1>4. x \in Seq(Nat) /\ Len(x) \in Nat /\ Len(e.delta) \in Nat /\ Len(x) >= Len(e.delta)
  <2>1. /\ Len(x) \in Nat /\ Len(e.delta) \in Nat /\ Len(e.value) \in Nat
        /\ Len(x) >= Len(e.delta) + Len(e.value) + 3
    BY EntryBytesLong
  <2> DEFINE p == Len(x)
             q == Len(e.delta)
             r == Len(e.value)
  <2>2. p \in Nat /\ q \in Nat /\ r \in Nat /\ p >= q + r + 3
    BY <2>1
  <2> HIDE DEF p, q, r
  <2>3. p >= q
    BY <2>2
  <2> QED BY <2>1, <2>3, EntryBytesType DEF p, q
<1>5. g = Append(f, x)
  <2> DEFINE T == Seq(Nat)
  <2>1. f \in Seq(T) /\ x \in T /\ g \in Seq(T)
    BY <1>2, <1>4, CodedType
  <2>2. Len(g) = n + 1 /\ \A i \in 1 .. n + 1 : g[i] = EntryBytes(c.entries[i])
    BY <1>3, CodedType
  <2> HIDE DEF T, f, g
  <2>3. /\ Append(f, x) \in Seq(T) /\ Len(Append(f, x)) = n + 1
        /\ \A i \in 1 .. n : Append(f, x)[i] = f[i]
        /\ Append(f, x)[n + 1] = x
    BY <1>2, <2>1, AppendFacts
  <2>4. \A i \in 1 .. n + 1 : g[i] = Append(f, x)[i]
    <3>1. ASSUME NEW i \in 1 .. n + 1 PROVE g[i] = Append(f, x)[i]
      <4>1. i \in 1 .. n \/ i = n + 1
        BY <1>2, OneMore
      <4>2. CASE i \in 1 .. n
        BY <1>2, <1>3, <2>2, <2>3, <4>2
      <4>3. CASE i = n + 1
        BY <1>3, <2>2, <2>3, <4>3
      <4> QED BY <4>1, <4>2, <4>3
    <3> QED BY <3>1
  <2> QED BY <1>2, <2>1, <2>2, <2>3, <2>4, SeqEqual
<1>6. c.buffer = FlattenSeq(g)
  <2>1. b.buffer = FlattenSeq(f)
    BY DEF BytesKnown
  <2> HIDE DEF f, g, x
  <2>2. FlattenSeq(Append(f, x)) = FlattenSeq(f) \o x
    BY <1>2, <1>4, FlattenAppend
  <2> QED BY <1>5, <2>1, <2>2 DEF x
<1> DEFINE k == Len(b.buffer)
           l == Len(x)
           m == Len(b.last_key)
           d == Len(e.delta)
<1>7. Len(c.buffer) = k + l /\ k \in Nat /\ l \in Nat
  BY <1>1, <1>4, ConcatIs, LenProperties
<1>8. m <= k /\ m \in Nat /\ d \in Nat /\ d <= l /\ e.shared <= m /\ e.shared \in Nat
  <2>1. m <= k /\ e.shared \in Nat /\ m \in Nat
    BY <1>1, BytesAreNat DEF BytesKnown, EntryType
  <2> QED BY <1>4, <2>1
<1>9. Len(c.last_key) = e.shared + d
  <2> DEFINE p == SubSeq(b.last_key, 1, e.shared)
  <2>1. b.last_key \in Seq(Nat) /\ e.delta \in Seq(Nat)
    BY <1>1, BytesAreNat DEF EntryType
  <2>2. e.shared \in 0 .. Len(b.last_key)
    BY <1>8
  <2>3. p \in Seq(Nat) /\ Len(p) = e.shared
    BY <2>1, <2>2, Parts
  <2> HIDE DEF p
  <2>4. c.last_key = p \o e.delta
    BY DEF p
  <2> QED BY <2>1, <2>3, <2>4, ConcatIs
<1>10. \A i \in 1 .. n : b.entries[i].shared <= k /\ b.entries[i].shared \in Nat
  BY <1>2, CodedType DEF BytesKnown, EntryType
<1> HIDE DEF k, l, m, d, g, f, x
<1>11. Len(c.last_key) <= Len(c.buffer)
  BY <1>7, <1>8, <1>9
<1>12. ASSUME NEW i \in 1 .. n + 1
       PROVE  c.entries[i].shared <= Len(c.buffer)
  <2>1. i \in 1 .. n \/ i = n + 1
    BY <1>2, OneMore
  <2>2. CASE i \in 1 .. n
    <3> DEFINE y == b.entries[i].shared
    <3>1. y <= k /\ y \in Nat /\ c.entries[i].shared = y
      BY <1>3, <1>10, <2>2
    <3> HIDE DEF y
    <3> QED BY <1>7, <3>1
  <2>3. CASE i = n + 1
    <3>1. c.entries[i].shared = e.shared
      BY <1>3, <2>3
    <3> QED BY <1>7, <1>8, <3>1
  <2> QED BY <2>1, <2>2, <2>3
<1>13. \A i \in DOMAIN c.entries : c.entries[i].shared <= Len(c.buffer)
  BY <1>3, <1>12
<1> QED BY <1>6, <1>11, <1>13 DEF BytesKnown, g

LEMMA GoodFacts ==
  ASSUME NEW b, NEW interval, Good(b, interval)
  PROVE  /\ b \in BlockType /\ b.entries \in Seq(EntryType) /\ b.last_key \in Bytes
         /\ Len(b.entries) \in Nat /\ DOMAIN b.entries = 1 .. Len(b.entries)
         /\ \A i \in 1 .. Len(b.entries) : BlockKeys(b)[i] \in Bytes
         /\ b.entries = <<>> <=> Len(b.entries) = 0
         /\ b.entries = <<>> <=> DOMAIN b.entries = {}
         /\ b.entries # <<>> => b.last_key = BlockKeys(b)[Len(b.entries)]
<1>1. b \in BlockType /\ b.entries \in Seq(EntryType) /\ b.last_key \in Bytes
  BY DEF Good, BlockType
<1>2. /\ Len(b.entries) \in Nat /\ DOMAIN b.entries = 1 .. Len(b.entries)
      /\ b.entries = <<>> <=> Len(b.entries) = 0
      /\ b.entries = <<>> <=> DOMAIN b.entries = {}
  BY <1>1, SeqFacts
<1>3. /\ Spells(BlockKeys(b), b) /\ BlockKeys(b) \in Seq(Bytes)
      /\ b.entries # <<>> => b.last_key = BlockKeys(b)[Len(b.entries)]
  BY DEF Good, KeysKnown
<1>4. DOMAIN BlockKeys(b) = DOMAIN b.entries
  BY <1>3 DEF Spells
<1>5. /\ \A i \in 1 .. Len(BlockKeys(b)) : BlockKeys(b)[i] \in Bytes
      /\ DOMAIN BlockKeys(b) = 1 .. Len(BlockKeys(b))
  BY <1>3, SeqFacts
<1> QED BY <1>1, <1>2, <1>3, <1>4, <1>5

LEMMA GoodEmpty ==
  ASSUME NEW interval \in Nat
  PROVE  Good(EmptyBlock, interval) /\ EmptyBlock.entries = <<>>
<1>1. /\ EmptyBlock.entries = <<>> /\ EmptyBlock.buffer = <<>> /\ EmptyBlock.restarts = <<0>>
      /\ EmptyBlock.counter = 0 /\ EmptyBlock.last_key = <<>>
  BY DEF EmptyBlock
<1>2. EmptyBlock \in BlockType
  <2>1. <<>> \in Seq(EntryType) /\ <<>> \in Seq(Nat) /\ <<0>> \in Seq(Nat) /\ <<>> \in Bytes
    BY DEF Bytes
  <2> QED BY <2>1 DEF BlockType, EmptyBlock
<1>3. KeysKnown(EmptyBlock)
  <2> DEFINE g == [i \in {} |-> <<>>]
  <2>1. DOMAIN EmptyBlock.entries = {}
    BY <1>1
  <2>2. Spells(g, EmptyBlock)
    BY <2>1 DEF Spells
  <2>3. BlockKeys(EmptyBlock) = g /\ Spells(BlockKeys(EmptyBlock), EmptyBlock)
    <3>1. EmptyBlock.entries \in Seq(EntryType)
      BY <1>2 DEF BlockType
    <3> QED BY <2>2, <3>1, KeysAre
  <2>4. g \in Seq(Bytes)
    <3>1. g = [i \in 1 .. 0 |-> <<>>]
      <4>1. 1 .. 0 = {}
        OBVIOUS
      <4> QED BY <4>1
    <3>2. [i \in 1 .. 0 |-> <<>>] \in Seq(Bytes)
      OBVIOUS
    <3> QED BY <3>1, <3>2
  <2> QED BY <1>1, <2>3, <2>4 DEF KeysKnown
<1>4. RestartsKnown(EmptyBlock, interval)
  <2>1. Len(<<0>>) = 1 /\ <<0>>[1] = 0 /\ <<0>> # <<>> /\ Len(<<>>) = 0
    OBVIOUS
  <2> QED BY <1>1, <2>1 DEF RestartsKnown
<1>5. BytesKnown(EmptyBlock)
  <2>1. DOMAIN EmptyBlock.entries = {} /\ Len(<<>>) = 0
    BY <1>1
  <2>2. Coded(EmptyBlock) = <<>>
    <3>1. Coded(EmptyBlock) = [i \in {} |-> EntryBytes(EmptyBlock.entries[i])]
      BY <2>1 DEF Coded
    <3>2. Coded(EmptyBlock) \in Seq(Seq(Nat)) /\ Len(Coded(EmptyBlock)) = 0
      BY <1>1, <1>2, <2>1, CodedType
    <3> QED BY <3>2, EmptySeq
  <2>3. FlattenSeq(<<>>) = <<>>
    BY FlattenEmpty
  <2> QED BY <1>1, <2>1, <2>2, <2>3 DEF BytesKnown
<1> QED BY <1>1, <1>2, <1>3, <1>4, <1>5 DEF Good

(* BlockAdd as its users see it: c is the block b with one key more.       *)
KeyAdded(b, c, key, value, interval) ==
  LET n == Len(b.entries)
  IN /\ Good(c, interval) /\ c.entries # <<>> /\ Len(c.entries) = n + 1
     /\ DOMAIN c.entries = 1 .. n + 1
     /\ \A i \in 1 .. n : /\ BlockKeys(c)[i] = BlockKeys(b)[i]
                          /\ c.entries[i] = b.entries[i]
     /\ BlockKeys(c)[n + 1] = key /\ c.entries[n + 1].value = value
     /\ c.last_key = key
     /\ BlockKeys(c) = Append(BlockKeys(b), key)

LEMMA GoodBlockAdd ==
  ASSUME NEW interval \in Nat \ {0}, NEW b, Good(b, interval),
         NEW key \in Bytes, NEW value \in Seq(Nat),
         atRestart(b, interval) \/ b.entries = <<>> \/ Less(b.last_key, key)
  PROVE  KeyAdded(b, BlockAdd(b, key, value, interval), key, value, interval)
<1> DEFINE c == BlockAdd(b, key, value, interval)
           n == Len(b.entries)
<1>1. /\ b \in BlockType /\ b.entries \in Seq(EntryType) /\ b.last_key \in Bytes
      /\ KeysKnown(b) /\ RestartsKnown(b, interval) /\ BytesKnown(b)
  BY DEF Good, BlockType
<1>2. b.entries = <<>> => b.last_key = <<>>
  BY <1>1 DEF KeysKnown
<1>3. PICK e \in EntryType : Stored(b, c, e, key, value, interval)
  <2>1. b \in BlockType /\ (atRestart(b, interval) \/ b.last_key = <<>> \/ Less(b.last_key, key))
    BY <1>1, <1>2
  <2> QED BY <2>1, BlockAddIs
<1>4. atRestart(b, interval) \/ b.last_key = <<>> => e.shared = 0
  BY <1>1, <1>2, <1>3, PrefixIsShared DEF Stored
<1> HIDE DEF c
<1>5. /\ KeysKnown(c) /\ BlockKeys(c) = Append(BlockKeys(b), key)
      /\ Len(BlockKeys(b)) = n /\ BlockKeys(b) \in Seq(Bytes)
  BY <1>1, <1>3, <1>4, KeysAdded DEF Stored
<1>6. RestartsKnown(c, interval)
  BY <1>1, <1>2, <1>3, <1>4, RestartsAdded DEF Stored
<1>7. /\ Len(c.entries) = n + 1 /\ c.entries # <<>> /\ DOMAIN c.entries = 1 .. n + 1
      /\ \A i \in 1 .. n : c.entries[i] = b.entries[i]
      /\ c.entries[n + 1] = e
  <2> DEFINE s == b.entries
  <2>1. s \in Seq(EntryType) /\ c.entries = Append(s, e)
    BY <1>1, <1>3 DEF Stored
  <2> HIDE DEF s
  <2>2. /\ Len(Append(s, e)) = Len(s) + 1 /\ Append(s, e) # <<>>
        /\ DOMAIN Append(s, e) = 1 .. Len(s) + 1
        /\ \A i \in 1 .. Len(s) : Append(s, e)[i] = s[i]
        /\ Append(s, e)[Len(s) + 1] = e
    BY <2>1, AppendFacts
  <2> QED BY <2>1, <2>2 DEF s
<1>8. /\ \A i \in 1 .. n : BlockKeys(c)[i] = BlockKeys(b)[i]
      /\ BlockKeys(c)[n + 1] = key
  BY <1>5, AppendFacts
<1>9. BytesKnown(c)
  BY <1>1, <1>3, BytesAdded DEF Stored
<1>10. KeyAdded(b, c, key, value, interval)
  BY <1>3, <1>5, <1>6, <1>7, <1>8, <1>9 DEF Good, Stored, KeyAdded
<1> QED BY <1>10 DEF c
-----------------------------------------------------------------------------
(* The fields of a Rep.                                                    *)
FileType == Seq([handle : HandleType, block : BlockType])

LEMMA RepFacts ==
  ASSUME NEW r \in RepType
  PROVE  /\ r.offset \in Nat /\ r.ok \in BOOLEAN /\ r.closed \in BOOLEAN /\ r.num_entries \in Nat
         /\ r.data_block \in BlockType /\ r.index_block \in BlockType /\ r.last_key \in Bytes
         /\ r.pending_index_entry \in BOOLEAN /\ r.pending_handle \in HandleType
         /\ r.file \in FileType /\ r.footer \in Seq(Nat)
         /\ Len(r.file) \in Nat /\ DOMAIN r.file = 1 .. Len(r.file)
  <1>1. r.file \in FileType
    BY DEF RepType, FileType
  <1>2. Len(r.file) \in Nat /\ DOMAIN r.file = 1 .. Len(r.file)
    BY <1>1, SeqFacts DEF FileType
  <1> QED BY <1>1, <1>2 DEF RepType

LEMMA HandleIs ==
  ASSUME NEW r \in RepType, NEW b \in BlockType
  PROVE  /\ CurrentSizeEstimate(b) \in Nat
         /\ Handle(r, b) \in HandleType
         /\ r.offset + CurrentSizeEstimate(b) + kBlockTrailerSize \in Nat
<1>1. b.buffer \in Seq(Nat) /\ b.restarts \in Seq(Nat) /\ r.offset \in Nat
  BY RepFacts DEF BlockType
<1>2. Len(b.buffer) \in Nat /\ Len(b.restarts) \in Nat
  BY <1>1, LenProperties
<1>3. CurrentSizeEstimate(b) \in Nat
  <2> DEFINE x == Len(b.buffer)
             y == Len(b.restarts)
  <2>1. x \in Nat /\ y \in Nat
    BY <1>2
  <2> HIDE DEF x, y
  <2>2. x + 4 * y + 4 \in Nat
    BY <2>1
  <2> QED BY <2>2 DEF CurrentSizeEstimate, x, y
<1> QED BY <1>1, <1>3 DEF Handle, HandleType, kBlockTrailerSize

(* A block is appended, or nothing is and the table is not ok any more.    *)
LEMMA WriteBlockIs ==
  ASSUME NEW r \in RepType, NEW b \in BlockType, NEW w \in BOOLEAN
  PROVE  LET s == WriteBlock(r, b, w)
             x == [handle |-> Handle(r, b), block |-> b]
         IN /\ s \in RepType
            /\ s.file = IF w THEN Append(r.file, x) ELSE r.file
            /\ s.ok = (r.ok /\ w)
            /\ s.closed = r.closed /\ s.num_entries = r.num_entries
            /\ s.data_block = r.data_block /\ s.index_block = r.index_block
            /\ s.last_key = r.last_key /\ s.footer = r.footer
            /\ s.pending_index_entry = r.pending_index_entry
            /\ s.pending_handle = r.pending_handle
<1> DEFINE x == [handle |-> Handle(r, b), block |-> b]
           offset == r.offset + CurrentSizeEstimate(b) + kBlockTrailerSize
           file == Append(r.file, x)
           s == [r EXCEPT !.file = file, !.offset = offset]
           t == [r EXCEPT !.ok = FALSE]
<1>1. offset \in Nat /\ x \in [handle : HandleType, block : BlockType]
  BY HandleIs
<1>2. file \in FileType
  <2>1. r.file \in FileType
    BY RepFacts
  <2> HIDE DEF x
  <2> QED BY <1>1, <2>1, AppendFacts DEF FileType
<1>3. WriteBlock(r, b, w) = IF w THEN s ELSE t
  BY DEF WriteBlock
<1> HIDE DEF offset, file
<1>4. /\ s \in RepType /\ s.file = file /\ s.ok = r.ok
      /\ s.closed = r.closed /\ s.num_entries = r.num_entries
      /\ s.data_block = r.data_block /\ s.index_block = r.index_block
      /\ s.last_key = r.last_key /\ s.footer = r.footer
      /\ s.pending_index_entry = r.pending_index_entry
      /\ s.pending_handle = r.pending_handle
  BY <1>1, <1>2 DEF RepType, FileType
<1>5. /\ t \in RepType /\ t.file = r.file /\ t.ok = FALSE
      /\ t.closed = r.closed /\ t.num_entries = r.num_entries
      /\ t.data_block = r.data_block /\ t.index_block = r.index_block
      /\ t.last_key = r.last_key /\ t.footer = r.footer
      /\ t.pending_index_entry = r.pending_index_entry
      /\ t.pending_handle = r.pending_handle
  BY DEF RepType
<1> HIDE DEF s, t
<1>6. CASE w
  BY <1>3, <1>4, <1>6, RepFacts DEF file
<1>7. CASE ~ w
  BY <1>3, <1>5, <1>7
<1> QED BY <1>6, <1>7

(* The blocks of the file with one more.                                   *)
LEMMA FileAppended ==
  ASSUME NEW f \in FileType, NEW h \in HandleType, NEW b \in BlockType
  PROVE  LET g == Append(f, [handle |-> h, block |-> b])
         IN /\ g \in FileType /\ Len(g) = Len(f) + 1 /\ DOMAIN g = 1 .. Len(f) + 1
            /\ \A j \in 1 .. Len(f) : g[j] = f[j]
            /\ g[Len(f) + 1].handle = h /\ g[Len(f) + 1].block = b
<1> DEFINE x == [handle |-> h, block |-> b]
           g == Append(f, x)
<1>1. x \in [handle : HandleType, block : BlockType] /\ x.handle = h /\ x.block = b
  OBVIOUS
<1> HIDE DEF x
<1>2. /\ g \in FileType /\ Len(g) = Len(f) + 1 /\ DOMAIN g = 1 .. Len(f) + 1
      /\ \A j \in 1 .. Len(f) : g[j] = f[j]
      /\ g[Len(f) + 1] = x
  BY <1>1, AppendFacts DEF FileType
<1> QED BY <1>1, <1>2 DEF x

LEMMA WriteBlockGood ==
  ASSUME NEW r, GoodRep(r), NEW b, Good(b, block_restart_interval), NEW w \in BOOLEAN
  PROVE  GoodRep(WriteBlock(r, b, w))
<1> DEFINE s == WriteBlock(r, b, w)
           h == Handle(r, b)
<1>1. r \in RepType /\ b \in BlockType
  BY DEF GoodRep, Good
<1>2. /\ s \in RepType
      /\ s.file = IF w THEN Append(r.file, [handle |-> h, block |-> b]) ELSE r.file
      /\ s.data_block = r.data_block /\ s.index_block = r.index_block
  BY <1>1, WriteBlockIs
<1>3. r.file \in FileType /\ h \in HandleType /\ DOMAIN r.file = 1 .. Len(r.file)
      /\ Len(r.file) \in Nat
  BY <1>1, RepFacts, HandleIs
<1> HIDE DEF s, h
<1>4. \A j \in DOMAIN s.file : Good(s.file[j].block, block_restart_interval)
  <2>1. CASE w
    <3> DEFINE f == r.file
               g == Append(f, [handle |-> h, block |-> b])
    <3>1. f \in FileType
      BY <1>3
    <3>2. \A j \in 1 .. Len(f) : Good(f[j].block, block_restart_interval)
      BY <1>3 DEF GoodRep
    <3>3. s.file = g /\ Len(f) \in Nat
      BY <1>2, <1>3, <2>1
    <3> HIDE DEF f
    <3>4. /\ DOMAIN g = 1 .. Len(f) + 1 /\ g[Len(f) + 1].block = b
          /\ \A j \in 1 .. Len(f) : g[j] = f[j]
      BY <1>1, <1>3, <3>1, FileAppended
    <3> HIDE DEF g
    <3>5. ASSUME NEW j \in 1 .. Len(f) + 1 PROVE Good(g[j].block, block_restart_interval)
      <4>1. j \in 1 .. Len(f) \/ j = Len(f) + 1
        BY <3>3
      <4> QED BY <3>2, <3>4, <4>1
    <3> QED BY <3>3, <3>4, <3>5
  <2>2. CASE ~ w
    BY <1>2, <2>2 DEF GoodRep
  <2> QED BY <2>1, <2>2
<1> QED BY <1>2, <1>4 DEF GoodRep, s
-----------------------------------------------------------------------------
(* Flush of a block that has entries.                                      *)
Flushed(r, s, w) ==
  LET x == [handle |-> Handle(r, r.data_block), block |-> r.data_block]
  IN /\ s \in RepType
     /\ s.file = IF w THEN Append(r.file, x) ELSE r.file
     /\ s.closed = r.closed /\ s.num_entries = r.num_entries
     /\ s.data_block = EmptyBlock /\ s.index_block = r.index_block
     /\ s.last_key = r.last_key /\ s.footer = r.footer
     /\ s.pending_index_entry = w
     /\ s.pending_handle = Handle(r, r.data_block)
     /\ s.ok => w

LEMMA FlushIs ==
  ASSUME NEW r \in RepType, r.ok, r.data_block.entries # <<>>,
         NEW w \in BOOLEAN, NEW f \in BOOLEAN
  PROVE  Flushed(r, Flush(r, w, f), w)
<1> DEFINE t == WriteBlock(r, r.data_block, w)
           h == Handle(r, r.data_block)
           s == [t EXCEPT !.data_block = EmptyBlock, !.pending_handle = h,
                          !.pending_index_entry = w, !.ok = w /\ f]
           x == [handle |-> h, block |-> r.data_block]
<1>1. Flush(r, w, f) = s
  BY DEF Flush, Reset
<1>2. /\ t \in RepType
      /\ t.file = IF w THEN Append(r.file, x) ELSE r.file
      /\ t.closed = r.closed /\ t.num_entries = r.num_entries
      /\ t.index_block = r.index_block
      /\ t.last_key = r.last_key /\ t.footer = r.footer
  <2>1. r.data_block \in BlockType
    BY RepFacts
  <2> QED BY <2>1, WriteBlockIs
<1>3. h \in HandleType /\ EmptyBlock \in BlockType
  BY RepFacts, HandleIs, GoodEmpty, TableBuilderAssumption DEF Good
<1>4. (w /\ f) \in BOOLEAN
  OBVIOUS
<1> HIDE DEF t, h
<1>5. /\ s \in RepType /\ s.file = t.file /\ s.closed = t.closed
      /\ s.num_entries = t.num_entries /\ s.data_block = EmptyBlock
      /\ s.index_block = t.index_block /\ s.last_key = t.last_key
      /\ s.footer = t.footer /\ s.pending_index_entry = w /\ s.pending_handle = h
      /\ s.ok = (w /\ f)
  BY <1>2, <1>3, <1>4 DEF RepType
<1>6. Flushed(r, s, w)
  BY <1>2, <1>5 DEF Flushed, h
<1> HIDE DEF s
<1> QED BY <1>1, <1>6

LEMMA FlushKeeps ==
  ASSUME NEW r \in RepType, NEW w \in BOOLEAN, NEW f \in BOOLEAN
  PROVE  LET s == Flush(r, w, f)
         IN /\ s.num_entries = r.num_entries /\ s.footer = r.footer /\ s.closed = r.closed
            /\ s.last_key = r.last_key
<1>1. CASE ~ r.ok \/ r.data_block.entries = <<>>
  BY <1>1 DEF Flush
<1>2. CASE r.ok /\ r.data_block.entries # <<>>
  <2>1. Flushed(r, Flush(r, w, f), w)
    BY <1>2, FlushIs
  <2> QED BY <2>1 DEF Flushed
<1> QED BY <1>1, <1>2

LEMMA FlushGood ==
  ASSUME NEW r, GoodRep(r), NEW w \in BOOLEAN, NEW f \in BOOLEAN
  PROVE  GoodRep(Flush(r, w, f))
<1> DEFINE s == Flush(r, w, f)
           t == WriteBlock(r, r.data_block, w)
<1>1. CASE ~ r.ok \/ r.data_block.entries = <<>>
  BY <1>1 DEF Flush
<1>2. CASE r.ok /\ r.data_block.entries # <<>>
  <2>1. r \in RepType /\ r.data_block \in BlockType
    BY RepFacts DEF GoodRep
  <2>2. /\ s \in RepType /\ s.data_block = EmptyBlock /\ s.index_block = r.index_block
        /\ s.file = t.file
    <3>1. t.file = IF w THEN Append(r.file, [handle |-> Handle(r, r.data_block),
                                            block |-> r.data_block])
                   ELSE r.file
      BY <2>1, WriteBlockIs
    <3>2. Flushed(r, s, w)
      BY <1>2, <2>1, FlushIs
    <3> HIDE DEF s, t
    <3> QED BY <3>1, <3>2 DEF Flushed
  <2>3. GoodRep(t)
    BY WriteBlockGood DEF GoodRep
  <2>4. Good(EmptyBlock, block_restart_interval)
    BY GoodEmpty, TableBuilderAssumption
  <2> HIDE DEF s, t
  <2>5. GoodRep(s)
    BY <2>2, <2>3, <2>4 DEF GoodRep
  <2> QED BY <2>5 DEF s
<1> QED BY <1>1, <1>2

(* The keys of a Rep, written or in the block that waits.                  *)
FileKeys(f) == [j \in DOMAIN f |-> BlockKeys(f[j].block)]
KeysOf(r) == FlattenSeq(FileKeys(r.file)) \o BlockKeys(r.data_block)

LEMMA NoEntriesNoKeys ==
  ASSUME NEW b, NEW interval, Good(b, interval), b.entries = <<>>
  PROVE  BlockKeys(b) = <<>>
<1>1. Spells(BlockKeys(b), b) /\ BlockKeys(b) \in Seq(Bytes) /\ DOMAIN b.entries = {}
  BY GoodFacts DEF Good, KeysKnown
<1>2. DOMAIN BlockKeys(b) = {}
  BY <1>1 DEF Spells
<1> QED BY <1>1, <1>2, SeqFacts

LEMMA FileKeysAre ==
  ASSUME NEW f \in FileType,
         \A j \in 1 .. Len(f) : Good(f[j].block, block_restart_interval)
  PROVE  /\ FileKeys(f) \in Seq(Seq(Bytes)) /\ Len(FileKeys(f)) = Len(f) /\ Len(f) \in Nat
         /\ \A j \in 1 .. Len(f) : FileKeys(f)[j] = BlockKeys(f[j].block)
<1> DEFINE n == Len(f)
           k == FileKeys(f)
           T == Seq(Bytes)
<1>1. n \in Nat /\ DOMAIN f = 1 .. n
  BY LenProperties DEF FileType
<1>2. k = [j \in 1 .. n |-> BlockKeys(f[j].block)]
  BY <1>1 DEF FileKeys
<1>3. \A j \in 1 .. n : BlockKeys(f[j].block) \in T
  BY DEF Good, KeysKnown
<1> HIDE DEF n, k, T
<1>4. k \in Seq(T) /\ Len(k) = n /\ \A j \in 1 .. n : k[j] = BlockKeys(f[j].block)
  BY <1>1, <1>2, <1>3
<1> QED BY <1>1, <1>4 DEF n, k, T

LEMMA FileKeysAppended ==
  ASSUME NEW f \in FileType, NEW h \in HandleType, NEW b,
         \A j \in 1 .. Len(f) : Good(f[j].block, block_restart_interval),
         Good(b, block_restart_interval)
  PROVE  FlattenSeq(FileKeys(Append(f, [handle |-> h, block |-> b])))
           = FlattenSeq(FileKeys(f)) \o BlockKeys(b)
<1> DEFINE g == Append(f, [handle |-> h, block |-> b])
           n == Len(f)
           k == FileKeys(f)
           l == FileKeys(g)
           x == BlockKeys(b)
           T == Seq(Bytes)
<1>1. /\ g \in FileType /\ Len(g) = n + 1
      /\ \A j \in 1 .. n : g[j] = f[j]
      /\ g[n + 1].block = b
  BY FileAppended DEF Good
<1>2. k \in Seq(T) /\ Len(k) = n /\ n \in Nat /\ \A j \in 1 .. n : k[j] = BlockKeys(f[j].block)
  BY FileKeysAre
<1>3. x \in T
  BY DEF Good, KeysKnown
<1> HIDE DEF g, n, x
<1>4. \A j \in 1 .. Len(g) : Good(g[j].block, block_restart_interval)
  <2>1. ASSUME NEW j \in 1 .. n + 1 PROVE Good(g[j].block, block_restart_interval)
    <3>1. j \in 1 .. n \/ j = n + 1
      BY <1>2, OneMore
    <3>2. CASE j \in 1 .. n
      BY <1>1, <3>2 DEF n
    <3>3. CASE j = n + 1
      BY <1>1, <3>3
    <3> QED BY <3>1, <3>2, <3>3
  <2> QED BY <1>1, <2>1
<1>5. l \in Seq(T) /\ Len(l) = n + 1 /\ \A j \in 1 .. n + 1 : l[j] = BlockKeys(g[j].block)
  BY <1>1, <1>4, FileKeysAre
<1> HIDE DEF k, l
<1>6. l = Append(k, x)
  <2> HIDE DEF T
  <2> DEFINE y == Append(k, x)
  <2>1. /\ y \in Seq(T) /\ Len(y) = n + 1 /\ (\A j \in 1 .. n : y[j] = k[j]) /\ y[n + 1] = x
    BY <1>2, <1>3, AppendFacts
  <2> HIDE DEF y
  <2>2. ASSUME NEW j \in 1 .. n + 1 PROVE l[j] = y[j]
    <3>1. j \in 1 .. n \/ j = n + 1
      BY <1>2, OneMore
    <3>2. CASE j \in 1 .. n
      BY <1>1, <1>2, <1>5, <2>1, <3>2
    <3>3. CASE j = n + 1
      BY <1>1, <1>5, <2>1, <3>3 DEF x
    <3> QED BY <3>1, <3>2, <3>3
  <2>3. l = y
    BY <1>2, <1>5, <2>1, <2>2, SeqEqual
  <2> QED BY <2>3 DEF y
<1>7. FlattenSeq(Append(k, x)) = FlattenSeq(k) \o x
  <2>1. k \in Seq(Seq(Bytes)) /\ x \in Seq(Bytes)
    BY <1>2, <1>3
  <2> HIDE DEF T
  <2> QED BY <2>1, FlattenAppend
<1> QED BY <1>6, <1>7 DEF k, l, x, g

LEMMA KeysOfType ==
  ASSUME NEW r, GoodRep(r)
  PROVE  /\ FlattenSeq(FileKeys(r.file)) \in Seq(Bytes) /\ BlockKeys(r.data_block) \in Seq(Bytes)
         /\ KeysOf(r) \in Seq(Bytes)
<1>1. FileKeys(r.file) \in Seq(Seq(Bytes))
  <2>1. r.file \in FileType /\ \A j \in 1 .. Len(r.file) : Good(r.file[j].block, block_restart_interval)
    BY RepFacts DEF GoodRep
  <2> QED BY <2>1, FileKeysAre
<1>2. FlattenSeq(FileKeys(r.file)) \in Seq(Bytes)
  BY <1>1, FlattenType
<1>3. BlockKeys(r.data_block) \in Seq(Bytes)
  BY DEF GoodRep, Good, KeysKnown
<1> QED BY <1>2, <1>3, ConcatProperties DEF KeysOf

(* A Flush that went well loses none, and leaves no block behind.          *)
KeysKept(r, s) == s.ok => r.ok /\ KeysOf(s) = KeysOf(r) /\ s.data_block.entries = <<>>

LEMMA FlushKeys ==
  ASSUME NEW r, GoodRep(r), NEW w \in BOOLEAN, NEW f \in BOOLEAN
  PROVE  KeysKept(r, Flush(r, w, f))
<1> DEFINE s == Flush(r, w, f)
           b == r.data_block
           h == Handle(r, b)
<1>1. CASE ~ r.ok \/ b.entries = <<>>
  BY <1>1 DEF Flush, KeysKept
<1>2. CASE r.ok /\ b.entries # <<>>
  <2>1. /\ r \in RepType /\ b \in BlockType /\ r.file \in FileType /\ h \in HandleType
        /\ \A j \in 1 .. Len(r.file) : Good(r.file[j].block, block_restart_interval)
        /\ Good(b, block_restart_interval)
    BY RepFacts, HandleIs DEF GoodRep
  <2>2. Flushed(r, s, w)
    BY <1>2, <2>1, FlushIs
  <2> HIDE DEF s, h
  <2>3. /\ s.ok => s.file = Append(r.file, [handle |-> h, block |-> b])
        /\ s.data_block = EmptyBlock
    BY <2>2 DEF Flushed, h
  <2>4. BlockKeys(EmptyBlock) = <<>> /\ EmptyBlock.entries = <<>>
    <3>1. Good(EmptyBlock, block_restart_interval) /\ EmptyBlock.entries = <<>>
      BY GoodEmpty, TableBuilderAssumption
    <3> QED BY <3>1, NoEntriesNoKeys
  <2>5. ASSUME s.ok PROVE KeysOf(s) = KeysOf(r)
    <3> DEFINE t == FlattenSeq(FileKeys(s.file))
    <3>1. t = FlattenSeq(FileKeys(r.file)) \o BlockKeys(b)
      BY <2>1, <2>3, <2>5, FileKeysAppended
    <3>2. t = KeysOf(r) /\ t \in Seq(Bytes)
      BY <3>1, KeysOfType DEF KeysOf
    <3>3. KeysOf(s) = t \o <<>>
      BY <2>3, <2>4 DEF KeysOf
    <3> HIDE DEF t
    <3> QED BY <3>2, <3>3, ConcatEmptySeq
  <2>6. KeysKept(r, s)
    BY <1>2, <2>3, <2>4, <2>5 DEF KeysKept
  <2> QED BY <2>6 DEF s
<1> QED BY <1>1, <1>2

(* The blocks of a good Rep, as the proofs below use them.                 *)
LEMMA GoodRepFacts ==
  ASSUME NEW r, GoodRep(r)
  PROVE  /\ r \in RepType
         /\ Good(r.data_block, block_restart_interval) /\ Good(r.index_block, 1)
         /\ \A j \in 1 .. Len(r.file) : Good(r.file[j].block, block_restart_interval)
         /\ Len(r.file) \in Nat /\ r.file \in FileType /\ r.last_key \in Bytes
         /\ Len(r.index_block.entries) \in Nat
         /\ DOMAIN r.index_block.entries = 1 .. Len(r.index_block.entries)
         /\ \A j \in 1 .. Len(r.index_block.entries) : BlockKeys(r.index_block)[j] \in Bytes
<1>1. /\ r \in RepType
      /\ Good(r.data_block, block_restart_interval) /\ Good(r.index_block, 1)
      /\ \A j \in DOMAIN r.file : Good(r.file[j].block, block_restart_interval)
  BY DEF GoodRep
<1>2. /\ Len(r.file) \in Nat /\ r.file \in FileType /\ r.last_key \in Bytes
      /\ DOMAIN r.file = 1 .. Len(r.file)
  BY <1>1, RepFacts
<1>3. /\ Len(r.index_block.entries) \in Nat
      /\ DOMAIN r.index_block.entries = 1 .. Len(r.index_block.entries)
      /\ \A j \in 1 .. Len(r.index_block.entries) : BlockKeys(r.index_block)[j] \in Bytes
  BY <1>1, GoodFacts
<1> QED BY <1>1, <1>2, <1>3

(* A block with entries has its last key below a key that all its keys are *)
(* below, and above one that all are above.                                *)
LEMMA LastKeyBetween ==
  ASSUME NEW b, NEW interval, Good(b, interval), b.entries # <<>>, NEW key
  PROVE  /\ KeysBelow(b, key) => Less(b.last_key, key)
         /\ KeysAbove(b, key) => Less(key, b.last_key)
<1>1. Len(b.entries) \in DOMAIN b.entries /\ b.last_key = BlockKeys(b)[Len(b.entries)]
  BY GoodFacts
<1> QED BY <1>1 DEF KeysBelow, KeysAbove

LEMMA NoKeys ==
  ASSUME NEW b, b.entries = <<>>, NEW key
  PROVE  KeysBelow(b, key) /\ KeysAbove(b, key) /\ KeysUpTo(b, key)
<1>1. DOMAIN b.entries = {}
  OBVIOUS
<1> QED BY <1>1 DEF KeysBelow, KeysAbove, KeysUpTo

(* Fewer keys to come.                                                     *)
LEMMA WrittenFewer ==
  ASSUME NEW r, NEW Y, NEW Z \in SUBSET Y, Written(r, Y)
  PROVE  Written(r, Z)
  BY DEF Written

LEMMA FlushWritten ==
  ASSUME NEW r, GoodRep(r), NEW Y, Written(r, Y), NEW w \in BOOLEAN, NEW f \in BOOLEAN
  PROVE  Written(Flush(r, w, f), Y)
<1> DEFINE s == Flush(r, w, f)
           d == r.data_block
           x == r.index_block
           n == Len(r.file)
           h == Handle(r, d)
<1>1. CASE ~ r.ok \/ d.entries = <<>>
  BY <1>1 DEF Flush
<1>2. CASE r.ok /\ d.entries # <<>>
  <2>1. /\ s.file = IF w THEN Append(r.file, [handle |-> h, block |-> d]) ELSE r.file
        /\ s.data_block = EmptyBlock /\ s.index_block = x /\ s.last_key = r.last_key
        /\ s.pending_index_entry = w /\ s.pending_handle = h
    <3>1. Flushed(r, s, w)
      BY <1>2, FlushIs DEF GoodRep
    <3> HIDE DEF s
    <3> QED BY <3>1 DEF Flushed
  <2>2. ~ r.pending_index_entry /\ Len(r.file) = Len(x.entries)
    <3>1. ~ r.pending_index_entry
      BY <1>2 DEF Written
    <3>2. n = Len(x.entries) + 0
      BY <3>1 DEF Written
    <3>3. Len(x.entries) \in Nat
      BY GoodRepFacts
    <3> HIDE DEF n, x
    <3>4. n = Len(x.entries)
      BY <3>2, <3>3
    <3> QED BY <3>1, <3>4 DEF n, x
  <2>3. /\ n \in Nat /\ DOMAIN x.entries = 1 .. n /\ r.file \in FileType
        /\ h \in HandleType /\ d \in BlockType /\ Good(d, block_restart_interval)
    BY <2>2, GoodRepFacts, HandleIs DEF Good
  <2>4. d.last_key = r.last_key
    BY <1>2 DEF Written
  <2>5. \A j \in 1 .. n : Separates(r, j)
    BY <2>3 DEF Written
  <2>6. s.data_block.entries = <<>>
    BY <2>1, GoodEmpty, TableBuilderAssumption
  <2>7. \A key : /\ KeysUpTo(s.data_block, key) /\ KeysBelow(s.data_block, key)
                 /\ KeysAbove(s.data_block, key)
    BY <2>6, NoKeys
  <2> HIDE DEF s, n, d, x, h
  <2>8. /\ Len(s.file) = n + (IF w THEN 1 ELSE 0)
        /\ \A j \in 1 .. n : s.file[j] = r.file[j]
        /\ w => s.file[n + 1].handle = h /\ s.file[n + 1].block = d
    <3>1. CASE w
      <4> DEFINE g == Append(r.file, [handle |-> h, block |-> d])
      <4>1. /\ Len(g) = n + 1 /\ g[n + 1].handle = h /\ g[n + 1].block = d
            /\ \A j \in 1 .. n : g[j] = r.file[j]
        BY <2>3, FileAppended DEF n
      <4>2. s.file = g
        BY <2>1, <3>1
      <4> HIDE DEF g
      <4> QED BY <3>1, <4>1, <4>2
    <3>2. CASE ~ w
      BY <2>1, <2>3, <3>2 DEF n
    <3> QED BY <3>1, <3>2
  <2>9. ASSUME NEW j \in 1 .. n PROVE Separates(s, j)
    <3> DEFINE key == BlockKeys(x)[j]
    <3>1. /\ x.entries[j].value = EncodeHandle(r.file[j].handle)
          /\ KeysUpTo(r.file[j].block, key)
          /\ \A i \in j + 1 .. n : KeysAbove(r.file[i].block, key)
          /\ KeysAbove(d, key)
          /\ \A i \in 1 .. j - 1 : Less(BlockKeys(x)[i], key)
      BY <2>5 DEF Separates, x, n, d
    <3> HIDE DEF key
    <3>2. ASSUME NEW i \in j + 1 .. Len(s.file) PROVE KeysAbove(s.file[i].block, key)
      <4>1. CASE i \in j + 1 .. n
        <5>1. i \in 1 .. n
          BY <2>3, <4>1
        <5> QED BY <2>8, <3>1, <4>1, <5>1
      <4>2. CASE i \notin j + 1 .. n
        <5>1. w /\ i = n + 1
          BY <2>3, <2>8, <4>2
        <5> QED BY <2>8, <3>1, <5>1
      <4> QED BY <4>1, <4>2
    <3> QED BY <2>1, <2>7, <2>8, <3>1, <3>2 DEF Separates, key
  <2>10. KeysBelow(x, r.last_key)
    <3>1. ASSUME NEW j \in 1 .. n PROVE Less(BlockKeys(x)[j], r.last_key)
      <4>1. KeysAbove(d, BlockKeys(x)[j])
        BY <2>5 DEF Separates, d, x
      <4> QED BY <1>2, <2>3, <2>4, <4>1, LastKeyBetween
    <3> QED BY <2>3, <3>1 DEF KeysBelow
  <2>11. \A y \in Y : KeysBelow(x, y) /\ KeysBelow(d, y)
    BY DEF Written, x, d
  <2>12. \A y \in Y : Less(r.last_key, y)
    BY <1>2, <2>3, <2>4, <2>11, LastKeyBetween
  <2>13. KeysUpTo(d, r.last_key)
    BY DEF Written, d
  <2>14. Len(x.entries) = n
    BY <2>2 DEF n
  <2>15. w => Len(s.file) = n + 1
    BY <2>8
  <2>17. Filled(s)
    <3>1. Filled(r) /\ d.entries # <<>>
      BY <1>2 DEF Written
    <3>2. ASSUME NEW j \in 1 .. Len(s.file) PROVE s.file[j].block.entries # <<>>
      <4>1. j \in 1 .. n \/ (w /\ j = n + 1)
        BY <2>3, <2>8
      <4>2. CASE j \in 1 .. n
        BY <2>8, <3>1, <4>2 DEF Filled, n
      <4>3. CASE w /\ j = n + 1
        BY <2>8, <3>1, <4>3
      <4> QED BY <4>1, <4>2, <4>3
    <3> QED BY <3>2 DEF Filled
  <2>16. Written(s, Y)
    BY <2>1, <2>3, <2>6, <2>7, <2>8, <2>9, <2>10, <2>11, <2>12, <2>13, <2>14, <2>15, <2>17
    DEF Written
  <2> QED BY <2>16 DEF s
<1> QED BY <1>1, <1>2
-----------------------------------------------------------------------------
(* The blocks of the file lie one behind the other, up to n.               *)
LaidOut(f, n) ==
  \A j \in 1 .. Len(f) :
    /\ f[j].handle.size = CurrentSizeEstimate(f[j].block)
    /\ f[j].handle.offset = IF j = 1 THEN 0
                            ELSE f[j - 1].handle.offset + f[j - 1].handle.size + kBlockTrailerSize
    /\ j = Len(f) => n = f[j].handle.offset + f[j].handle.size + kBlockTrailerSize
LaidUpTo(f, n) == (f = <<>> => n = 0) /\ LaidOut(f, n)

(* The footer, once there is one, is behind all of them.                   *)
Laid(r) ==
  IF r.footer = <<>> THEN LaidUpTo(r.file, r.offset)
  ELSE /\ r.offset - kEncodedLength \in Nat
       /\ LaidUpTo(r.file, r.offset - kEncodedLength)

LEMMA BlockAppended ==
  ASSUME NEW f \in FileType, NEW n \in Nat, LaidUpTo(f, n), NEW b \in BlockType,
         CurrentSizeEstimate(b) \in Nat
  PROVE  LaidUpTo(Append(f, [handle |-> [offset |-> n, size |-> CurrentSizeEstimate(b)],
                             block |-> b]),
                  n + CurrentSizeEstimate(b) + kBlockTrailerSize)
<1> DEFINE c == CurrentSizeEstimate(b)
           h == [offset |-> n, size |-> c]
           g == Append(f, [handle |-> h, block |-> b])
           k == Len(f)
           o == n + c + kBlockTrailerSize
<1>1. h \in HandleType /\ h.offset = n /\ h.size = c
  BY DEF HandleType
<1>2. k \in Nat /\ (k = 0 <=> f = <<>>)
  BY LenProperties, EmptySeq DEF FileType
<1> HIDE DEF h
<1>3. /\ Len(g) = k + 1
      /\ \A j \in 1 .. k : g[j] = f[j]
      /\ g[k + 1].handle = h /\ g[k + 1].block = b
  BY <1>1, FileAppended
<1> HIDE DEF g, k, c
<1>4. g # <<>>
  BY <1>2, <1>3
<1>5. ASSUME NEW j \in 1 .. k + 1
      PROVE  /\ g[j].handle.size = CurrentSizeEstimate(g[j].block)
             /\ g[j].handle.offset = IF j = 1 THEN 0
                  ELSE g[j - 1].handle.offset + g[j - 1].handle.size + kBlockTrailerSize
             /\ j = k + 1 => o = g[j].handle.offset + g[j].handle.size + kBlockTrailerSize
  <2>1. CASE j = k + 1
    <3>1. g[j].handle.offset = n /\ g[j].handle.size = CurrentSizeEstimate(g[j].block)
          /\ g[j].handle.size = c
      BY <1>1, <1>3, <2>1 DEF c
    <3>2. CASE k = 0
      <4>1. n = 0 /\ j = 1
        BY <1>2, <2>1, <3>2 DEF LaidUpTo
      <4> QED BY <2>1, <3>1, <4>1
    <3>3. CASE k # 0
      <4>1. k \in 1 .. k /\ j # 1 /\ j - 1 = k
        BY <1>2, <2>1, <3>3
      <4>2. n = f[k].handle.offset + f[k].handle.size + kBlockTrailerSize
        BY <4>1 DEF LaidUpTo, LaidOut, k
      <4>3. g[j - 1] = f[k]
        BY <1>3, <4>1
      <4> QED BY <2>1, <3>1, <4>1, <4>2, <4>3
    <3> QED BY <3>2, <3>3
  <2>2. CASE j # k + 1
    <3>1. j \in 1 .. k
      BY <1>2, <2>2
    <3>2. /\ f[j].handle.size = CurrentSizeEstimate(f[j].block)
          /\ f[j].handle.offset = IF j = 1 THEN 0
               ELSE f[j - 1].handle.offset + f[j - 1].handle.size + kBlockTrailerSize
      BY <3>1 DEF LaidUpTo, LaidOut, k
    <3>3. g[j] = f[j] /\ (j # 1 => g[j - 1] = f[j - 1])
      <4>1. j # 1 => j - 1 \in 1 .. k
        BY <1>2, <3>1
      <4> QED BY <1>3, <3>1, <4>1
    <3> QED BY <2>2, <3>2, <3>3
  <2> QED BY <2>1, <2>2
<1>6. LaidUpTo(g, o)
  BY <1>3, <1>4, <1>5 DEF LaidUpTo, LaidOut
<1> QED BY <1>6 DEF g, h, c

(* WriteBlock and Flush keep that.                                         *)
LEMMA WriteBlockLaid ==
  ASSUME NEW r \in RepType, NEW b \in BlockType, NEW w \in BOOLEAN, LaidUpTo(r.file, r.offset)
  PROVE  LaidUpTo(WriteBlock(r, b, w).file, WriteBlock(r, b, w).offset)
<1> DEFINE x == [handle |-> Handle(r, b), block |-> b]
           file == Append(r.file, x)
           offset == r.offset + CurrentSizeEstimate(b) + kBlockTrailerSize
           s == [r EXCEPT !.file = file, !.offset = offset]
           t == [r EXCEPT !.ok = FALSE]
<1>1. WriteBlock(r, b, w) = IF w THEN s ELSE t
  BY DEF WriteBlock
<1>2. LaidUpTo(file, offset)
  <2>1. r.file \in FileType /\ r.offset \in Nat /\ CurrentSizeEstimate(b) \in Nat
    BY RepFacts, HandleIs
  <2> QED BY <2>1, BlockAppended DEF Handle
<1> HIDE DEF file, offset
<1>3. s.file = file /\ s.offset = offset
  BY DEF RepType
<1>4. t.file = r.file /\ t.offset = r.offset
  BY DEF RepType
<1> HIDE DEF s, t
<1>5. CASE w
  BY <1>1, <1>2, <1>3, <1>5
<1>6. CASE ~ w
  BY <1>1, <1>4, <1>6
<1> QED BY <1>5, <1>6

LEMMA FlushLaid ==
  ASSUME NEW r \in RepType, NEW w \in BOOLEAN, NEW f \in BOOLEAN, LaidUpTo(r.file, r.offset)
  PROVE  LaidUpTo(Flush(r, w, f).file, Flush(r, w, f).offset)
<1> DEFINE s == Flush(r, w, f)
           t == WriteBlock(r, r.data_block, w)
           h == Handle(r, r.data_block)
           u == [t EXCEPT !.data_block = EmptyBlock, !.pending_handle = h,
                          !.pending_index_entry = w, !.ok = w /\ f]
<1>1. CASE ~ r.ok \/ r.data_block.entries = <<>>
  BY <1>1 DEF Flush
<1>2. CASE r.ok /\ r.data_block.entries # <<>>
  <2>1. s = u
    BY <1>2 DEF Flush, Reset
  <2>2. t \in RepType /\ LaidUpTo(t.file, t.offset)
    BY RepFacts, WriteBlockIs, WriteBlockLaid
  <2> HIDE DEF s, t, h
  <2>3. u.file = t.file /\ u.offset = t.offset
    BY <2>2 DEF RepType
  <2> HIDE DEF u
  <2>4. LaidUpTo(s.file, s.offset)
    BY <2>1, <2>2, <2>3
  <2> QED BY <2>4 DEF s
<1> QED BY <1>1, <1>2
-----------------------------------------------------------------------------
(* In the index every entry is a restart point.                            *)
LEMMA IndexAtRestart ==
  ASSUME NEW b, Good(b, 1), b.entries # <<>>
  PROVE  atRestart(b, 1)
<1>1. b.counter \in Nat /\ b.counter # 0
  BY DEF Good, BlockType, RestartsKnown
<1> QED BY <1>1 DEF atRestart

LEMMA AddIndexEntryIs ==
  ASSUME NEW r, GoodRep(r), NEW key \in Bytes
  PROVE  LET s == AddIndexEntry(r, key)
         IN /\ GoodRep(s)
            /\ s.index_block = BlockAdd(r.index_block, key, EncodeHandle(r.pending_handle), 1)
            /\ s.file = r.file /\ s.data_block = r.data_block /\ s.last_key = key
            /\ s.pending_index_entry = FALSE /\ s.ok = r.ok
            /\ s.closed = r.closed /\ s.num_entries = r.num_entries /\ s.footer = r.footer
            /\ s.offset = r.offset
<1> DEFINE x == BlockAdd(r.index_block, key, EncodeHandle(r.pending_handle), 1)
           s == [r EXCEPT !.last_key = key, !.index_block = x, !.pending_index_entry = FALSE]
<1>1. AddIndexEntry(r, key) = s
  BY DEF AddIndexEntry
<1>2. r \in RepType /\ Good(r.index_block, 1)
  BY DEF GoodRep
<1>3. EncodeHandle(r.pending_handle) \in Seq(Nat)
  BY <1>2, RepFacts, EncodeHandleType
<1>4. Good(x, 1)
  <2>1. 1 \in Nat \ {0}
    OBVIOUS
  <2>2. r.index_block.entries # <<>> => atRestart(r.index_block, 1)
    BY <1>2, IndexAtRestart
  <2> QED BY <1>2, <1>3, <2>1, <2>2, GoodBlockAdd DEF KeyAdded
<1>5. x \in BlockType
  BY <1>4 DEF Good
<1> HIDE DEF x
<1>6. /\ s \in RepType /\ s.index_block = x
      /\ s.file = r.file /\ s.data_block = r.data_block /\ s.last_key = key
      /\ s.pending_index_entry = FALSE /\ s.ok = r.ok
      /\ s.closed = r.closed /\ s.num_entries = r.num_entries /\ s.footer = r.footer
      /\ s.offset = r.offset
  BY <1>2, <1>5 DEF RepType
<1> HIDE DEF s
<1>7. GoodRep(s)
  BY <1>4, <1>6 DEF GoodRep
<1> QED BY <1>1, <1>6, <1>7 DEF x

LEMMA UpToLarger ==
  ASSUME NEW b, NEW interval, Good(b, interval), NEW k \in Bytes, NEW l \in Bytes
  PROVE  /\ KeysUpTo(b, k) /\ LessEq(k, l) => KeysUpTo(b, l)
         /\ KeysBelow(b, k) /\ LessEq(k, l) => KeysBelow(b, l)
         /\ KeysUpTo(b, k) /\ Less(k, l) => KeysBelow(b, l)
<1>1. \A i \in DOMAIN b.entries : BlockKeys(b)[i] \in Bytes
  BY GoodFacts
<1> QED BY <1>1, LessEqTransitive DEF KeysUpTo, KeysBelow

(* A key for the index that the last block's keys do not exceed and that   *)
(* is below every key to come.                                             *)
LEMMA AddIndexEntryWritten ==
  ASSUME NEW r, GoodRep(r), NEW Y \in SUBSET Bytes, Written(r, Y), r.pending_index_entry,
         NEW key \in Bytes, LessEq(r.last_key, key), \A y \in Y : Less(key, y)
  PROVE  LET s == AddIndexEntry(r, key)
         IN /\ GoodRep(s) /\ Written(s, Y) /\ ~ s.pending_index_entry
            /\ s.data_block.entries = <<>> /\ s.last_key = key
            /\ s.file = r.file /\ s.ok = r.ok /\ s.closed = r.closed
            /\ s.num_entries = r.num_entries /\ s.footer = r.footer
<1> DEFINE s == AddIndexEntry(r, key)
           x == r.index_block
           z == s.index_block
           m == Len(x.entries)
           value == EncodeHandle(r.pending_handle)
<1>1. /\ r \in RepType /\ Good(x, 1) /\ m \in Nat /\ DOMAIN x.entries = 1 .. m
      /\ \A j \in 1 .. m : BlockKeys(x)[j] \in Bytes
      /\ r.last_key \in Bytes
  BY GoodRepFacts
<1>2. x.entries # <<>> => atRestart(x, 1)
  BY <1>1, IndexAtRestart
<1>3. /\ GoodRep(s) /\ z = BlockAdd(x, key, value, 1)
      /\ s.file = r.file /\ s.data_block = r.data_block /\ s.last_key = key
      /\ s.pending_index_entry = FALSE /\ s.ok = r.ok
      /\ s.closed = r.closed /\ s.num_entries = r.num_entries /\ s.footer = r.footer
  BY AddIndexEntryIs
<1>4. /\ Len(z.entries) = m + 1 /\ DOMAIN z.entries = 1 .. m + 1
      /\ \A i \in 1 .. m : BlockKeys(z)[i] = BlockKeys(x)[i] /\ z.entries[i] = x.entries[i]
      /\ BlockKeys(z)[m + 1] = key /\ z.entries[m + 1].value = value
  <2>1. value \in Seq(Nat)
    BY <1>1, RepFacts, EncodeHandleType
  <2>2. 1 \in Nat \ {0}
    OBVIOUS
  <2>3. z = BlockAdd(x, key, value, 1)
    BY <1>3
  <2> HIDE DEF s, z, value
  <2>4. KeyAdded(x, z, key, value, 1)
    BY <1>1, <1>2, <2>1, <2>2, <2>3, GoodBlockAdd
  <2> QED BY <2>4 DEF KeyAdded
<1>5. /\ r.data_block.entries = <<>> /\ Len(r.file) = m + 1
      /\ r.pending_handle = r.file[m + 1].handle
      /\ KeysUpTo(r.file[m + 1].block, r.last_key)
      /\ KeysBelow(x, r.last_key)
      /\ \A j \in 1 .. m : Separates(r, j)
      /\ \A y \in Y : KeysBelow(x, y)
  BY <1>1 DEF Written
<1> HIDE DEF s, x, z, m
<1>6. m + 1 \in 1 .. Len(r.file) /\ Good(r.file[m + 1].block, block_restart_interval)
  BY <1>1, <1>5, GoodRepFacts
<1>7. \A k : KeysUpTo(s.data_block, k) /\ KeysBelow(s.data_block, k) /\ KeysAbove(s.data_block, k)
  BY <1>3, <1>5, NoKeys
<1>8. ASSUME NEW j \in 1 .. m PROVE Separates(s, j)
  <2> DEFINE k == BlockKeys(x)[j]
  <2>1. /\ x.entries[j].value = EncodeHandle(r.file[j].handle)
        /\ KeysUpTo(r.file[j].block, k)
        /\ \A i \in j + 1 .. Len(r.file) : KeysAbove(r.file[i].block, k)
        /\ \A i \in 1 .. j - 1 : Less(BlockKeys(x)[i], k)
    BY <1>5 DEF Separates, x
  <2>2. BlockKeys(z)[j] = k /\ z.entries[j] = x.entries[j]
    BY <1>4
  <2>3. \A i \in 1 .. j - 1 : BlockKeys(z)[i] = BlockKeys(x)[i]
    <3>1. \A i \in 1 .. j - 1 : i \in 1 .. m
      BY <1>1
    <3> QED BY <1>4, <3>1
  <2> HIDE DEF k
  <2> QED BY <1>3, <1>7, <2>1, <2>2, <2>3 DEF Separates, z
<1>9. Separates(s, m + 1)
  <2>1. KeysUpTo(r.file[m + 1].block, key)
    <3> DEFINE b == r.file[m + 1].block
    <3>1. Good(b, block_restart_interval) /\ KeysUpTo(b, r.last_key)
      BY <1>5, <1>6
    <3> HIDE DEF b
    <3>2. KeysUpTo(b, key)
      BY <1>1, <3>1, UpToLarger
    <3> QED BY <3>2 DEF b
  <2>2. ASSUME NEW i \in 1 .. m PROVE Less(BlockKeys(z)[i], key)
    <3>1. Less(BlockKeys(x)[i], r.last_key) /\ BlockKeys(x)[i] \in Bytes
      BY <1>1, <1>5 DEF KeysBelow
    <3> QED BY <1>1, <1>4, <3>1, LessEqTransitive
  <2>3. \A i \in m + 1 + 1 .. Len(s.file) : FALSE
    BY <1>1, <1>3, <1>5
  <2> DEFINE n == m + 1
  <2>4. n - 1 = m
    BY <1>1
  <2>5. \A i \in n + 1 .. Len(s.file) : KeysAbove(s.file[i].block, BlockKeys(z)[n])
    BY <2>3
  <2>6. KeysUpTo(s.file[n].block, BlockKeys(z)[n]) /\ KeysAbove(s.data_block, BlockKeys(z)[n])
    BY <1>3, <1>4, <1>7, <2>1
  <2>7. z.entries[n].value = EncodeHandle(s.file[n].handle)
    BY <1>3, <1>4, <1>5
  <2>8. \A i \in 1 .. m : Less(BlockKeys(z)[i], BlockKeys(z)[n])
    BY <1>4, <2>2
  <2> HIDE DEF n
  <2>9. Separates(s, n)
    BY <2>4, <2>5, <2>6, <2>7, <2>8 DEF Separates, z
  <2> QED BY <2>9 DEF n
<1>10. ASSUME NEW j \in DOMAIN z.entries PROVE Separates(s, j)
  <2>1. j \in 1 .. m \/ j = m + 1
    BY <1>1, <1>4
  <2> QED BY <1>8, <1>9, <2>1
<1>11. ASSUME NEW y \in Y PROVE KeysBelow(z, y)
  <2>1. ASSUME NEW i \in 1 .. m + 1 PROVE Less(BlockKeys(z)[i], y)
    <3>1. CASE i \in 1 .. m
      BY <1>1, <1>4, <1>5, <3>1 DEF KeysBelow
    <3>2. CASE i = m + 1
      BY <1>4, <3>2
    <3> QED BY <1>1, <3>1, <3>2
  <2> QED BY <1>4, <2>1 DEF KeysBelow
<1>12. Len(s.file) = Len(z.entries) + 0
  BY <1>1, <1>3, <1>4, <1>5
<1>14. Filled(s)
  BY <1>3 DEF Written, Filled
<1>13. Written(s, Y)
  BY <1>3, <1>5, <1>7, <1>10, <1>11, <1>12, <1>14 DEF Written, z
<1> QED BY <1>3, <1>5, <1>13 DEF s
-----------------------------------------------------------------------------
(* The entry of the data block: a key of Y that is below the others.       *)
AddData(r, key, value) ==
  [r EXCEPT !.last_key = key,
            !.num_entries = @ + 1,
            !.data_block = BlockAdd(@, key, value, block_restart_interval)]

LEMMA AppendBehind ==
  ASSUME NEW a \in Seq(Bytes), NEW b \in Seq(Bytes), NEW x \in Bytes
  PROVE  a \o Append(b, x) = Append(a \o b, x)
  OBVIOUS

DataAdded(r, s, key, Y) ==
  /\ GoodRep(s) /\ Written(s, Y)
  /\ s.ok = r.ok /\ KeysOf(s) = Append(KeysOf(r), key)
  /\ s.closed = r.closed /\ s.footer = r.footer
  /\ s.num_entries = r.num_entries + 1
  /\ s.file = r.file /\ s.offset = r.offset

LEMMA AddDataWritten ==
  ASSUME NEW r, GoodRep(r), NEW Y \in SUBSET Bytes, Written(r, Y), ~ r.pending_index_entry,
         NEW key \in Y, \A y \in Y \ {key} : Less(key, y), NEW value \in Seq(Nat)
  PROVE  DataAdded(r, AddData(r, key, value), key, Y \ {key})
<1> DEFINE d == r.data_block
           e == BlockAdd(d, key, value, block_restart_interval)
           num == r.num_entries + 1
           s == [r EXCEPT !.last_key = key, !.num_entries = num, !.data_block = e]
           n == Len(d.entries)
<1>1. AddData(r, key, value) = s
  BY DEF AddData
<1>2. /\ r \in RepType /\ Good(d, block_restart_interval) /\ key \in Bytes
      /\ r.num_entries \in Nat /\ block_restart_interval \in Nat \ {0}
      /\ n \in Nat /\ DOMAIN d.entries = 1 .. n /\ d.last_key \in Bytes
      /\ \A i \in 1 .. n : BlockKeys(d)[i] \in Bytes
  BY GoodRepFacts, GoodFacts, RepFacts, TableBuilderAssumption
<1>3. KeysBelow(d, key) /\ KeysBelow(r.index_block, key)
  BY DEF Written
<1>4. d.entries = <<>> \/ Less(d.last_key, key)
  BY <1>2, <1>3, LastKeyBetween
<1> HIDE DEF d
<1>5. /\ Good(e, block_restart_interval) /\ e.entries # <<>> /\ Len(e.entries) = n + 1
      /\ DOMAIN e.entries = 1 .. n + 1
      /\ \A i \in 1 .. n : BlockKeys(e)[i] = BlockKeys(d)[i]
      /\ BlockKeys(e)[n + 1] = key
      /\ e.last_key = key /\ BlockKeys(e) = Append(BlockKeys(d), key)
  <2>1. KeyAdded(d, e, key, value, block_restart_interval)
    BY <1>2, <1>4, GoodBlockAdd
  <2> HIDE DEF e
  <2> QED BY <2>1 DEF KeyAdded
<1>6. e \in BlockType
  BY <1>5 DEF Good
<1> HIDE DEF e, n
<1>7. /\ s \in RepType /\ s.last_key = key /\ s.num_entries = num
      /\ s.data_block = e /\ s.index_block = r.index_block
      /\ s.file = r.file /\ s.pending_index_entry = r.pending_index_entry
      /\ s.pending_handle = r.pending_handle /\ s.ok = r.ok
      /\ s.closed = r.closed /\ s.footer = r.footer /\ s.offset = r.offset
  <2>1. num \in Nat
    BY <1>2
  <2> HIDE DEF num
  <2> QED BY <1>2, <1>6, <2>1 DEF RepType
<1> HIDE DEF s
<1>8. GoodRep(s)
  BY <1>5, <1>7 DEF GoodRep
<1>9. ASSUME NEW y \in Y \ {key} PROVE KeysBelow(e, y)
  <2>1. ASSUME NEW i \in 1 .. n + 1 PROVE Less(BlockKeys(e)[i], y)
    <3>1. CASE i \in 1 .. n
      <4>1. KeysBelow(d, y)
        BY DEF Written, d
      <4> QED BY <1>2, <1>5, <3>1, <4>1 DEF KeysBelow
    <3>2. CASE i = n + 1
      BY <1>5, <3>2
    <3> QED BY <1>2, <3>1, <3>2
  <2> QED BY <1>5, <2>1 DEF KeysBelow
<1>10. KeysUpTo(e, key)
  <2>1. ASSUME NEW i \in 1 .. n + 1 PROVE LessEq(BlockKeys(e)[i], key)
    <3>1. CASE i \in 1 .. n
      BY <1>2, <1>3, <1>5, <3>1 DEF KeysBelow, LessEq
    <3>2. CASE i = n + 1
      BY <1>5, <3>2 DEF LessEq
    <3> QED BY <1>2, <3>1, <3>2
  <2> QED BY <1>5, <2>1 DEF KeysUpTo
<1>11. ASSUME NEW j \in DOMAIN r.index_block.entries PROVE Separates(s, j)
  <2> DEFINE k == BlockKeys(r.index_block)[j]
  <2>1. /\ r.index_block.entries[j].value = EncodeHandle(r.file[j].handle)
        /\ KeysUpTo(r.file[j].block, k)
        /\ \A i \in j + 1 .. Len(r.file) : KeysAbove(r.file[i].block, k)
        /\ KeysAbove(d, k)
        /\ \A i \in 1 .. j - 1 : Less(BlockKeys(r.index_block)[i], k)
    BY DEF Written, Separates, d
  <2>2. Less(k, key)
    BY <1>3 DEF KeysBelow
  <2> HIDE DEF k
  <2>3. KeysAbove(e, k)
    <3>1. ASSUME NEW i \in 1 .. n + 1 PROVE Less(k, BlockKeys(e)[i])
      <4>1. CASE i \in 1 .. n
        BY <1>2, <1>5, <2>1, <4>1 DEF KeysAbove
      <4>2. CASE i = n + 1
        BY <1>5, <2>2, <4>2
      <4> QED BY <1>2, <4>1, <4>2
    <3> QED BY <1>5, <3>1 DEF KeysAbove
  <2> QED BY <1>7, <2>1, <2>3 DEF Separates, k
<1>12. \A y \in Y \ {key} : KeysBelow(r.index_block, y)
  BY DEF Written
<1>13. Len(s.file) = Len(s.index_block.entries) + 0
  BY <1>7 DEF Written
<1>17. Filled(s)
  BY <1>7 DEF Written, Filled
<1>14. Written(s, Y \ {key})
  BY <1>5, <1>7, <1>9, <1>10, <1>11, <1>12, <1>13, <1>17 DEF Written
<1>16. KeysOf(s) = Append(KeysOf(r), key)
  <2> DEFINE F == FlattenSeq(FileKeys(r.file))
             K == BlockKeys(d)
  <2>1. F \in Seq(Bytes) /\ K \in Seq(Bytes)
    BY KeysOfType DEF d
  <2>2. KeysOf(s) = F \o Append(K, key)
    BY <1>5, <1>7 DEF KeysOf
  <2>3. KeysOf(r) = F \o K
    BY DEF KeysOf, d
  <2> HIDE DEF F, K
  <2>4. F \o Append(K, key) = Append(F \o K, key)
    BY <1>2, <2>1, AppendBehind
  <2> QED BY <2>2, <2>3, <2>4
<1>15. DataAdded(r, s, key, Y \ {key})
  BY <1>7, <1>8, <1>14, <1>16 DEF DataAdded
<1> QED BY <1>1, <1>15
-----------------------------------------------------------------------------
(* Finish.                                                                 *)
LEMMA GoodWider ==
  ASSUME NEW b, Good(b, 1)
  PROVE  Good(b, block_restart_interval)
<1>1. /\ b \in BlockType /\ KeysKnown(b) /\ RestartsKnown(b, 1) /\ BytesKnown(b)
      /\ b.counter \in Nat /\ b.restarts \in Seq(Nat)
  BY DEF Good, BlockType
<1>2. block_restart_interval \in Nat /\ 1 <= block_restart_interval
  BY TableBuilderAssumption
<1>3. b.counter <= block_restart_interval
  <2>1. b.counter <= 1
    BY <1>1 DEF RestartsKnown
  <2> QED BY <1>1, <1>2, <2>1
<1>4. ASSUME NEW i \in 1 .. Len(b.restarts) - 1
      PROVE  b.restarts[i + 1] <= b.restarts[i] + block_restart_interval
  <2>1. b.restarts[i + 1] <= b.restarts[i] + 1
    BY <1>1 DEF RestartsKnown
  <2>2. b.restarts[i] \in Nat /\ b.restarts[i + 1] \in Nat
    <3>1. Len(b.restarts) \in Nat /\ \A j \in 1 .. Len(b.restarts) : b.restarts[j] \in Nat
      BY <1>1, SeqFacts
    <3>2. i \in 1 .. Len(b.restarts) /\ i + 1 \in 1 .. Len(b.restarts)
      BY <3>1
    <3> QED BY <3>1, <3>2
  <2> DEFINE u == b.restarts[i]
             v == b.restarts[i + 1]
  <2>3. v <= u + 1 /\ u \in Nat /\ v \in Nat
    BY <2>1, <2>2
  <2> HIDE DEF u, v
  <2>4. v <= u + block_restart_interval
    BY <1>2, <2>3
  <2> QED BY <2>4 DEF u, v
<1>5. RestartsKnown(b, block_restart_interval)
  BY <1>1, <1>3, <1>4 DEF RestartsKnown
<1> QED BY <1>1, <1>5 DEF Good

LEMMA CloseIs ==
  ASSUME NEW r, GoodRep(r)
  PROVE  LET s == [r EXCEPT !.closed = TRUE]
         IN /\ GoodRep(s) /\ s.closed = TRUE
            /\ s.file = r.file /\ s.ok = r.ok /\ s.num_entries = r.num_entries
            /\ s.data_block = r.data_block /\ s.index_block = r.index_block
            /\ s.last_key = r.last_key /\ s.footer = r.footer
            /\ s.pending_index_entry = r.pending_index_entry
            /\ s.pending_handle = r.pending_handle /\ s.offset = r.offset
<1> DEFINE s == [r EXCEPT !.closed = TRUE]
<1>1. /\ s \in RepType /\ s.closed = TRUE
      /\ s.file = r.file /\ s.ok = r.ok /\ s.num_entries = r.num_entries
      /\ s.data_block = r.data_block /\ s.index_block = r.index_block
      /\ s.last_key = r.last_key /\ s.footer = r.footer
      /\ s.pending_index_entry = r.pending_index_entry
      /\ s.pending_handle = r.pending_handle /\ s.offset = r.offset
  BY DEF GoodRep, RepType
<1> HIDE DEF s
<1>2. GoodRep(s)
  BY <1>1 DEF GoodRep
<1> QED BY <1>1, <1>2 DEF s

(* What Written says of one table it says of another with the same blocks. *)
LEMMA WrittenSame ==
  ASSUME NEW r, NEW s, NEW Y, Written(r, Y),
         s.file = r.file, s.data_block = r.data_block, s.index_block = r.index_block,
         s.last_key = r.last_key, s.pending_index_entry = r.pending_index_entry,
         s.pending_handle = r.pending_handle
  PROVE  Written(s, Y)
<1>1. ASSUME NEW j, Separates(r, j) PROVE Separates(s, j)
  BY <1>1 DEF Separates
<1>2. Filled(s)
  BY DEF Written, Filled
<1> QED BY <1>1, <1>2 DEF Written

(* s ends with the index of g, behind the blocks of g and one block more.  *)
EndsWith(s, g) ==
  /\ GoodRep(g) /\ Written(g, {})
  /\ s.index_block = g.index_block /\ s.data_block = g.data_block
  /\ Len(s.file) = Len(g.file) + 2
  /\ \A j \in 1 .. Len(g.file) : s.file[j] = g.file[j]
  /\ s.file[Len(g.file) + 2].block = g.index_block /\ ~ g.pending_index_entry

FooterOf(h, g) == EncodeFooter([metaindex_handle |-> h, index_handle |-> g])

(* And it lost none of keys: they are in the blocks of g.                  *)
WholeOf(s, g, keys) ==
  /\ EndsWith(s, g) /\ s.ok /\ s.footer # <<>>
  /\ s.footer = FooterOf(s.file[Len(g.file) + 1].handle, s.file[Len(g.file) + 2].handle)
  /\ FlattenSeq(FileKeys(g.file)) = keys

(* The footer is written, with the handles h and g.                        *)
Footed(r, s, h, g) ==
  /\ GoodRep(s) /\ s.file = r.file /\ s.closed = r.closed
  /\ s.num_entries = r.num_entries
  /\ s.data_block = r.data_block /\ s.index_block = r.index_block
  /\ s.pending_index_entry = r.pending_index_entry
  /\ s.offset = r.offset + kEncodedLength
  /\ s.footer = EncodeFooter([metaindex_handle |-> h, index_handle |-> g])
  /\ s.footer # <<>> /\ s.ok = r.ok

LEMMA FooterIs ==
  ASSUME NEW r, GoodRep(r), NEW h \in HandleType, NEW g \in HandleType
  PROVE  Footed(r, [r EXCEPT !.footer = EncodeFooter([metaindex_handle |-> h, index_handle |-> g]),
                             !.offset = @ + kEncodedLength], h, g)
<1> DEFINE footer == EncodeFooter([metaindex_handle |-> h, index_handle |-> g])
           offset == r.offset + kEncodedLength
           s == [r EXCEPT !.footer = footer, !.offset = offset]
<1>1. footer \in Seq(Nat) /\ footer # <<>>
  BY EncodeFooterType
<1>2. offset \in Nat
  BY RepFacts DEF GoodRep, kEncodedLength, kMaxEncodedLength
<1> HIDE DEF footer, offset
<1>3. /\ s \in RepType /\ s.file = r.file /\ s.closed = r.closed
      /\ s.num_entries = r.num_entries
      /\ s.data_block = r.data_block /\ s.index_block = r.index_block
      /\ s.pending_index_entry = r.pending_index_entry
      /\ s.offset = offset /\ s.footer = footer /\ s.ok = r.ok
  BY <1>1, <1>2 DEF GoodRep, RepType
<1> HIDE DEF s
<1>4. GoodRep(s)
  BY <1>3 DEF GoodRep
<1>5. Footed(r, s, h, g)
  BY <1>1, <1>3, <1>4 DEF Footed, footer, offset
<1> QED BY <1>5 DEF s, footer, offset

Finished(r, s) ==
  /\ GoodRep(s) /\ s.closed = TRUE /\ s.num_entries = r.num_entries
  /\ s.pending_index_entry => s.data_block.entries = <<>>
  /\ s.footer = <<>> \/ \E g : EndsWith(s, g)
  /\ Laid(s) /\ s.ok \in BOOLEAN
  /\ s.ok => r.ok /\ \E g : WholeOf(s, g, KeysOf(r))

LEMMA FinishIs ==
  ASSUME NEW r, GoodRep(r), Written(r, {}), r.footer = <<>>, LaidUpTo(r.file, r.offset),
         NEW okWrite \in BOOLEAN, NEW okFlush \in BOOLEAN, NEW okMeta \in BOOLEAN,
         NEW okIndex \in BOOLEAN, NEW okFooter \in BOOLEAN
  PROVE  Finished(r, Finish(r, okWrite, okFlush, okMeta, okIndex, okFooter))
<1> DEFINE F == Flush(r, okWrite, okFlush)
           f == [F EXCEPT !.closed = TRUE]
           m == IF f.ok THEN WriteBlock(f, EmptyBlock, okMeta) ELSE f
           i == IF m.ok THEN addLastEntry(m) ELSE m
           x == IF i.ok THEN WriteBlock(i, i.index_block, okIndex) ELSE i
           mh == Handle(f, EmptyBlock)
           ih == Handle(i, i.index_block)
           z == [x EXCEPT !.footer = EncodeFooter([metaindex_handle |-> mh, index_handle |-> ih]),
                          !.offset = @ + kEncodedLength]
           s == Finish(r, okWrite, okFlush, okMeta, okIndex, okFooter)
           key == FindShortSuccessor(f.last_key)
<1>1. s = IF ~ x.ok THEN x ELSE IF ~ okFooter THEN [x EXCEPT !.ok = FALSE] ELSE z
  BY DEF Finish
<1>2. GoodRep(F) /\ Written(F, {}) /\ LaidUpTo(F.file, F.offset)
  <2>1. r \in RepType
    BY DEF GoodRep
  <2> QED BY <2>1, FlushGood, FlushWritten, FlushLaid
<1>3. F.num_entries = r.num_entries /\ F.footer = <<>> /\ KeysKept(r, F)
  BY FlushKeeps, FlushKeys DEF GoodRep
<1> HIDE DEF F, s
<1>4. /\ GoodRep(f) /\ f.closed = TRUE /\ f.num_entries = r.num_entries /\ f.footer = <<>>
      /\ Written(f, {}) /\ LaidUpTo(f.file, f.offset)
      /\ f.ok = F.ok /\ f.file = F.file /\ f.data_block = F.data_block
  <2>1. /\ GoodRep(f) /\ f.closed = TRUE /\ f.offset = F.offset
        /\ f.file = F.file /\ f.ok = F.ok /\ f.num_entries = F.num_entries
        /\ f.data_block = F.data_block /\ f.index_block = F.index_block
        /\ f.last_key = F.last_key /\ f.footer = F.footer
        /\ f.pending_index_entry = F.pending_index_entry
        /\ f.pending_handle = F.pending_handle
    BY <1>2, CloseIs
  <2> HIDE DEF f
  <2> QED BY <1>2, <1>3, <2>1, WrittenSame
<1> HIDE DEF f
<1>5. f.pending_index_entry => f.data_block.entries = <<>>
  BY <1>4 DEF Written
<1>6. /\ EmptyBlock \in BlockType /\ Good(EmptyBlock, block_restart_interval)
  BY GoodEmpty, TableBuilderAssumption DEF Good
<1>7. /\ GoodRep(m) /\ m.closed = TRUE /\ m.num_entries = f.num_entries
      /\ m.footer = <<>> /\ m.data_block = f.data_block /\ m.index_block = f.index_block
      /\ m.last_key = f.last_key /\ m.pending_index_entry = f.pending_index_entry
      /\ m.pending_handle = f.pending_handle
      /\ m.ok => m.file = Append(f.file, [handle |-> mh, block |-> EmptyBlock])
      /\ LaidUpTo(m.file, m.offset)
  <2>1. CASE f.ok
    <3> DEFINE t == WriteBlock(f, EmptyBlock, okMeta)
    <3>1. m = t
      BY <2>1
    <3>2. GoodRep(t) /\ LaidUpTo(t.file, t.offset)
      <4>1. f \in RepType
        BY <1>4 DEF GoodRep
      <4> QED BY <1>4, <1>6, <4>1, WriteBlockGood, WriteBlockLaid
    <3>3. /\ t.closed = f.closed /\ t.num_entries = f.num_entries
          /\ t.footer = f.footer /\ t.data_block = f.data_block
          /\ t.index_block = f.index_block /\ t.ok = (f.ok /\ okMeta)
          /\ t.last_key = f.last_key /\ t.pending_index_entry = f.pending_index_entry
          /\ t.pending_handle = f.pending_handle
          /\ t.file = IF okMeta THEN Append(f.file, [handle |-> mh, block |-> EmptyBlock])
                      ELSE f.file
      <4>1. f \in RepType
        BY <1>4 DEF GoodRep
      <4> QED BY <1>6, <4>1, WriteBlockIs
    <3> HIDE DEF m, t, mh
    <3> QED BY <1>4, <3>1, <3>2, <3>3
  <2>2. CASE ~ f.ok
    BY <1>4, <2>2
  <2> QED BY <2>1, <2>2
<1>8. m.ok => f.ok
  BY DEF m
<1> HIDE DEF m
<1>9. key \in Bytes /\ LessEq(f.last_key, key)
  BY <1>4, GoodRepFacts, SuccessorIsLater
<1> DEFINE g == IF f.pending_index_entry THEN AddIndexEntry(f, key) ELSE f
<1>10. /\ GoodRep(g) /\ Written(g, {}) /\ g.file = f.file /\ g.data_block = f.data_block
       /\ ~ g.pending_index_entry
  <2>1. CASE f.pending_index_entry
    <3> DEFINE t == AddIndexEntry(f, key)
    <3>1. {} \in SUBSET Bytes
      OBVIOUS
    <3>2. /\ GoodRep(t) /\ Written(t, {}) /\ t.file = f.file /\ ~ t.pending_index_entry
      BY <1>4, <1>9, <2>1, <3>1, AddIndexEntryWritten
    <3>3. t.data_block = f.data_block
      BY <1>4, <1>9, AddIndexEntryIs
    <3>4. g = t
      BY <2>1
    <3> HIDE DEF g, t
    <3> QED BY <3>2, <3>3, <3>4
  <2>2. CASE ~ f.pending_index_entry
    BY <1>4, <2>2
  <2> QED BY <2>1, <2>2
<1>11. /\ GoodRep(i) /\ i.closed = TRUE /\ i.num_entries = f.num_entries
       /\ i.footer = <<>> /\ i.data_block = f.data_block
       /\ i.pending_index_entry => f.pending_index_entry
       /\ i.file = m.file /\ i.ok = m.ok /\ i.offset = m.offset
       /\ m.ok => i.index_block = g.index_block
  <2>1. CASE m.ok /\ m.pending_index_entry
    <3> DEFINE t == AddIndexEntry(m, key)
    <3>1. i = t /\ g = AddIndexEntry(f, key)
      BY <1>7, <2>1 DEF addLastEntry
    <3>2. /\ GoodRep(t)
          /\ t.index_block = BlockAdd(m.index_block, key, EncodeHandle(m.pending_handle), 1)
          /\ t.file = m.file /\ t.data_block = m.data_block
          /\ t.pending_index_entry = FALSE /\ t.ok = m.ok
          /\ t.closed = m.closed /\ t.num_entries = m.num_entries /\ t.footer = m.footer
          /\ t.offset = m.offset
      BY <1>7, <1>9, AddIndexEntryIs, ZenonT(60)
    <3>3. AddIndexEntry(f, key).index_block
            = BlockAdd(f.index_block, key, EncodeHandle(f.pending_handle), 1)
      BY <1>4, <1>9, AddIndexEntryIs
    <3> HIDE DEF i, g, t, key
    <3> QED BY <1>7, <3>1, <3>2, <3>3
  <2>2. CASE ~ (m.ok /\ m.pending_index_entry)
    <3>1. i = m
      BY <2>2 DEF addLastEntry
    <3>2. m.ok => g = f
      BY <1>7, <2>2
    <3> HIDE DEF i, g
    <3> QED BY <1>7, <3>1, <3>2
  <2> QED BY <2>1, <2>2
<1> HIDE DEF i, g
<1>12. /\ GoodRep(x) /\ x.closed = TRUE /\ x.num_entries = f.num_entries
       /\ x.footer = <<>> /\ x.data_block = f.data_block
       /\ x.pending_index_entry => f.pending_index_entry
       /\ x.ok => /\ m.ok /\ x.index_block = g.index_block
                  /\ x.file = Append(m.file, [handle |-> ih, block |-> i.index_block])
       /\ LaidUpTo(x.file, x.offset)
  <2>1. CASE i.ok
    <3> DEFINE t == WriteBlock(i, i.index_block, okIndex)
    <3>1. x = t
      BY <2>1
    <3>2. i \in RepType /\ i.index_block \in BlockType /\ Good(i.index_block, 1)
      BY <1>11 DEF GoodRep, Good
    <3>3. GoodRep(t) /\ LaidUpTo(t.file, t.offset)
      <4>1. LaidUpTo(i.file, i.offset)
        BY <1>7, <1>11
      <4> QED BY <1>11, <3>2, <4>1, GoodWider, WriteBlockGood, WriteBlockLaid
    <3>4. /\ t.closed = i.closed /\ t.num_entries = i.num_entries
          /\ t.footer = i.footer /\ t.data_block = i.data_block
          /\ t.index_block = i.index_block /\ t.ok = (i.ok /\ okIndex)
          /\ t.pending_index_entry = i.pending_index_entry
          /\ t.file = IF okIndex THEN Append(i.file, [handle |-> ih, block |-> i.index_block])
                      ELSE i.file
      BY <3>2, WriteBlockIs
    <3> HIDE DEF x, t, ih
    <3> QED BY <1>11, <3>1, <3>3, <3>4
  <2>2. CASE ~ i.ok
    BY <1>7, <1>11, <2>2
  <2> QED BY <2>1, <2>2
<1>13. mh \in HandleType /\ ih \in HandleType
  <2>1. f \in RepType /\ i \in RepType /\ i.index_block \in BlockType
    BY <1>4, <1>11 DEF GoodRep, Good
  <2> QED BY <1>6, <2>1, HandleIs
<1>14. ASSUME x.ok
       PROVE  /\ Len(x.file) = Len(g.file) + 2
              /\ \A j \in 1 .. Len(g.file) : x.file[j] = g.file[j]
              /\ x.file[Len(g.file) + 1].handle = mh /\ x.file[Len(g.file) + 2].handle = ih
              /\ x.file[Len(g.file) + 2].block = g.index_block
  <2>1. /\ m.file = Append(f.file, [handle |-> mh, block |-> EmptyBlock])
        /\ x.file = Append(m.file, [handle |-> ih, block |-> i.index_block])
        /\ i.index_block = g.index_block
    BY <1>7, <1>11, <1>12, <1>14
  <2>2. f.file \in FileType /\ m.file \in FileType /\ Len(f.file) \in Nat
    BY <1>4, <1>7, GoodRepFacts
  <2>3. i.index_block \in BlockType
    BY <1>11 DEF GoodRep, Good
  <2> DEFINE a == f.file
             b == m.file
             c == x.file
  <2>4. /\ Len(b) = Len(a) + 1 /\ \A j \in 1 .. Len(a) : b[j] = a[j]
        /\ b[Len(a) + 1].handle = mh
    <3>1. a \in FileType /\ b = Append(a, [handle |-> mh, block |-> EmptyBlock])
      BY <2>1, <2>2
    <3> HIDE DEF a, b, mh
    <3> QED BY <1>6, <1>13, <3>1, FileAppended
  <2>5. /\ Len(c) = Len(b) + 1 /\ \A j \in 1 .. Len(b) : c[j] = b[j]
        /\ c[Len(b) + 1].handle = ih /\ c[Len(b) + 1].block = i.index_block
    <3>1. b \in FileType /\ c = Append(b, [handle |-> ih, block |-> i.index_block])
      BY <2>1, <2>2
    <3> HIDE DEF b, c, ih
    <3> QED BY <1>13, <2>3, <3>1, FileAppended
  <2>6. g.file = a /\ Len(a) \in Nat
    BY <1>10, <2>2
  <2> HIDE DEF a, b, c, x
  <2> HIDE DEF mh, ih
  <2>7. Len(c) = Len(a) + 2 /\ \A j \in 1 .. Len(a) : c[j] = a[j]
    BY <2>4, <2>5, <2>6
  <2>8. c[Len(a) + 1].handle = mh /\ c[Len(a) + 2].handle = ih
        /\ c[Len(a) + 2].block = i.index_block
    <3>1. Len(a) + 1 \in 1 .. Len(b) /\ Len(b) + 1 = Len(a) + 2 /\ Len(a) + 1 = Len(b)
      BY <2>4, <2>6
    <3>2. c[Len(a) + 1] = b[Len(a) + 1]
      BY <2>5, <3>1
    <3> QED BY <2>4, <2>5, <3>1, <3>2
  <2> QED BY <2>1, <2>6, <2>7, <2>8 DEF c
<1>15. x.ok => EndsWith(x, g)
  BY <1>10, <1>12, <1>14 DEF EndsWith
<1> HIDE DEF x, mh, ih
<1>16. CASE ~ x.ok
  <2>1. s = x
    BY <1>1, <1>16
  <2> HIDE DEF z
  <2>2. /\ GoodRep(s) /\ s.closed = TRUE /\ s.num_entries = r.num_entries
        /\ s.pending_index_entry => s.data_block.entries = <<>>
        /\ s.footer = <<>> /\ LaidUpTo(s.file, s.offset)
    BY <1>4, <1>5, <1>12, <2>1
  <2>4. ~ s.ok /\ s.ok \in BOOLEAN
    BY <1>12, <1>16, <2>1, RepFacts DEF GoodRep
  <2>3. Finished(r, s)
    BY <2>2, <2>4 DEF Finished, Laid
  <2> QED BY <2>3 DEF s
<1>19. x.ok => /\ x.file[Len(g.file) + 1].handle = mh /\ x.file[Len(g.file) + 2].handle = ih
               /\ FlattenSeq(FileKeys(g.file)) = KeysOf(r) /\ r.ok
  <2>1. ASSUME x.ok PROVE r.ok /\ FlattenSeq(FileKeys(g.file)) = KeysOf(r)
    <3>1. F.ok
      BY <1>4, <1>8, <1>12, <2>1
    <3>2. r.ok /\ KeysOf(F) = KeysOf(r) /\ F.data_block.entries = <<>> /\ g.file = F.file
      BY <1>3, <1>4, <1>10, <3>1 DEF KeysKept
    <3> DEFINE t == FlattenSeq(FileKeys(F.file))
    <3>3. t \in Seq(Bytes) /\ KeysOf(F) = t \o BlockKeys(F.data_block)
      BY <1>2, KeysOfType DEF KeysOf
    <3>4. BlockKeys(F.data_block) = <<>>
      BY <1>2, <3>2, NoEntriesNoKeys DEF GoodRep
    <3> HIDE DEF t
    <3>5. KeysOf(F) = t
      BY <3>3, <3>4, ConcatEmptySeq
    <3> QED BY <3>2, <3>5 DEF t
  <2> QED BY <1>14, <2>1
<1>17. CASE x.ok /\ ~ okFooter
  <2> DEFINE t == [x EXCEPT !.ok = FALSE]
  <2>1. s = t
    BY <1>1, <1>17
  <2>2. /\ t \in RepType /\ t.closed = x.closed /\ t.num_entries = x.num_entries
        /\ t.footer = x.footer /\ t.data_block = x.data_block
        /\ t.index_block = x.index_block /\ t.file = x.file
        /\ t.pending_index_entry = x.pending_index_entry /\ t.offset = x.offset
        /\ t.ok = FALSE
    BY <1>12 DEF GoodRep, RepType
  <2> HIDE DEF t, z
  <2>3. GoodRep(t)
    BY <1>12, <2>2 DEF GoodRep
  <2>4. /\ GoodRep(s) /\ s.closed = TRUE /\ s.num_entries = r.num_entries
        /\ s.pending_index_entry => s.data_block.entries = <<>>
        /\ s.footer = <<>> /\ LaidUpTo(s.file, s.offset) /\ s.ok = FALSE
    BY <1>4, <1>5, <1>12, <2>1, <2>2, <2>3
  <2>5. Finished(r, s)
    BY <2>4 DEF Finished, Laid
  <2> QED BY <2>5 DEF s
<1>18. CASE x.ok /\ okFooter
  <2>1. s = z
    BY <1>1, <1>18
  <2>2. /\ GoodRep(z) /\ z.file = x.file /\ z.closed = x.closed
        /\ z.num_entries = x.num_entries
        /\ z.data_block = x.data_block /\ z.index_block = x.index_block
        /\ z.pending_index_entry = x.pending_index_entry
        /\ z.offset = x.offset + kEncodedLength /\ z.footer # <<>>
        /\ z.footer = FooterOf(mh, ih) /\ z.ok = x.ok
    <3>1. Footed(x, z, mh, ih)
      BY <1>12, <1>13, FooterIs
    <3> HIDE DEF z
    <3> QED BY <3>1 DEF Footed, FooterOf
  <2> HIDE DEF z
  <2>3. EndsWith(s, g)
    BY <1>15, <1>18, <2>1, <2>2 DEF EndsWith
  <2>4. /\ GoodRep(s) /\ s.closed = TRUE /\ s.num_entries = r.num_entries
        /\ s.pending_index_entry => s.data_block.entries = <<>>
    BY <1>4, <1>5, <1>12, <2>1, <2>2
  <2>6. Laid(s)
    <3>1. x.offset \in Nat /\ kEncodedLength \in Nat
      BY <1>12, RepFacts DEF GoodRep, kEncodedLength, kMaxEncodedLength
    <3>2. s.offset = x.offset + kEncodedLength /\ s.file = x.file
      BY <2>1, <2>2
    <3> DEFINE a == x.offset
               b == s.offset
               k == kEncodedLength
    <3> HIDE DEF a, b, k
    <3>3. b - k = a
      BY <3>1, <3>2 DEF a, b, k
    <3>4. LaidUpTo(s.file, b - k) /\ b - k \in Nat
      BY <1>12, <3>1, <3>2, <3>3 DEF a
    <3>5. s.footer # <<>>
      BY <2>1, <2>2
    <3> QED BY <3>4, <3>5 DEF Laid, b, k
  <2>7. WholeOf(s, g, KeysOf(r)) /\ r.ok /\ s.ok
    <3>1. /\ s.footer # <<>> /\ s.footer = FooterOf(mh, ih) /\ s.ok = x.ok /\ s.file = x.file
      BY <2>1, <2>2
    <3> QED BY <1>18, <1>19, <2>3, <3>1 DEF WholeOf
  <2>8. s.ok => r.ok /\ \E y : WholeOf(s, y, KeysOf(r))
    BY <2>7
  <2>9. s.ok \in BOOLEAN
    BY <2>4, RepFacts DEF GoodRep
  <2>5. Finished(r, s)
    BY <2>3, <2>4, <2>6, <2>8, <2>9 DEF Finished
  <2> QED BY <2>5 DEF s
<1> QED BY <1>16, <1>17, <1>18
-----------------------------------------------------------------------------
(* IndexSeparates, as it is stated, of a table s and of entry j.           *)
SeparatesIn(s, blocks, j) ==
  LET key == BlockKeys(s.index_block)[j]
  IN /\ s.index_block.entries[j].value = EncodeHandle(s.file[j].handle)
     /\ \A k \in ToSet(BlockKeys(s.file[j].block)) : LessEq(k, key)
     /\ \A i \in j + 1 .. Len(blocks) :
          \A k \in ToSet(BlockKeys(blocks[i].block)) : Less(key, k)
     /\ \A k \in ToSet(BlockKeys(s.data_block)) : Less(key, k)
     /\ \A i \in 1 .. j - 1 : Less(BlockKeys(s.index_block)[i], key)

LEMMA KeysAsSets ==
  ASSUME NEW b, NEW interval, Good(b, interval), NEW key
  PROVE  /\ KeysUpTo(b, key) <=> \A k \in ToSet(BlockKeys(b)) : LessEq(k, key)
         /\ KeysAbove(b, key) <=> \A k \in ToSet(BlockKeys(b)) : Less(key, k)
<1>1. DOMAIN BlockKeys(b) = DOMAIN b.entries
  BY DEF Good, KeysKnown, Spells
<1> QED BY <1>1 DEF ToSet, KeysUpTo, KeysAbove

LEMMA Separated ==
  ASSUME NEW g, GoodRep(g), NEW Y, Written(g, Y),
         NEW s, s.index_block = g.index_block, s.data_block = g.data_block,
         NEW blocks, DOMAIN blocks = 1 .. Len(g.file), Len(blocks) = Len(g.file),
         \A j \in 1 .. Len(g.file) : s.file[j] = g.file[j] /\ blocks[j] = g.file[j],
         NEW j \in DOMAIN s.index_block.entries \cap DOMAIN blocks
  PROVE  SeparatesIn(s, blocks, j)
<1> DEFINE key == BlockKeys(g.index_block)[j]
           n == Len(g.file)
<1>1. /\ g.index_block.entries[j].value = EncodeHandle(g.file[j].handle)
      /\ KeysUpTo(g.file[j].block, key)
      /\ \A i \in j + 1 .. n : KeysAbove(g.file[i].block, key)
      /\ KeysAbove(g.data_block, key)
      /\ \A i \in 1 .. j - 1 : Less(BlockKeys(g.index_block)[i], key)
  BY DEF Written, Separates
<1>2. /\ j \in 1 .. n /\ n \in Nat
      /\ Good(g.data_block, block_restart_interval)
      /\ \A i \in 1 .. n : Good(g.file[i].block, block_restart_interval)
  BY GoodRepFacts
<1> HIDE DEF key, n
<1>3. \A k \in ToSet(BlockKeys(g.file[j].block)) : LessEq(k, key)
  BY <1>1, <1>2, KeysAsSets
<1>4. ASSUME NEW i \in j + 1 .. n
      PROVE  \A k \in ToSet(BlockKeys(g.file[i].block)) : Less(key, k)
  <2>1. i \in 1 .. n
    BY <1>2
  <2> QED BY <1>1, <1>2, <2>1, KeysAsSets
<1>5. \A k \in ToSet(BlockKeys(g.data_block)) : Less(key, k)
  BY <1>1, <1>2, KeysAsSets
<1>6. s.file[j] = g.file[j]
  BY <1>2 DEF n
<1>7. ASSUME NEW i \in j + 1 .. n PROVE blocks[i] = g.file[i]
  <2>1. i \in 1 .. n
    BY <1>2
  <2> QED BY <2>1 DEF n
<1>8. s.index_block = g.index_block /\ s.data_block = g.data_block /\ Len(blocks) = n
  BY DEF n
<1> QED BY <1>1, <1>3, <1>4, <1>5, <1>6, <1>7, <1>8 DEF key, SeparatesIn
-----------------------------------------------------------------------------
LEMMA NewTableGood ==
  ASSUME NEW Y
  PROVE  GoodRep(NewTable) /\ Written(NewTable, Y)
<1> DEFINE r == NewTable
<1>1. /\ r.file = <<>> /\ r.data_block = EmptyBlock /\ r.index_block = EmptyBlock
      /\ r.last_key = <<>> /\ r.pending_index_entry = FALSE
  BY DEF NewTable
<1>2. Good(EmptyBlock, block_restart_interval) /\ Good(EmptyBlock, 1)
  <2>1. block_restart_interval \in Nat /\ 1 \in Nat
    BY TableBuilderAssumption
  <2> QED BY <2>1, GoodEmpty
<1>3. NewTable \in RepType
  <2>1. /\ <<>> \in Seq([handle : HandleType, block : BlockType]) /\ <<>> \in Seq(Nat)
        /\ <<>> \in Bytes
    BY DEF Bytes
  <2>2. NoHandle \in HandleType
    BY DEF NoHandle, HandleType
  <2>3. EmptyBlock \in BlockType
    BY <1>2 DEF Good
  <2> QED BY <2>1, <2>2, <2>3 DEF NewTable, RepType
<1>4. EmptyBlock.entries = <<>>
  BY DEF EmptyBlock
<1> HIDE DEF r
<1>5. GoodRep(r)
  <2>1. DOMAIN r.file = {}
    BY <1>1
  <2> QED BY <1>1, <1>2, <1>3, <2>1 DEF GoodRep, r
<1>6. \A key : KeysBelow(EmptyBlock, key) /\ KeysUpTo(EmptyBlock, key)
  BY <1>4, NoKeys
<1>7. Written(r, Y)
  <2>1. DOMAIN EmptyBlock.entries = {} /\ Len(<<>>) = 0
    BY <1>4
  <2>2. Filled(r)
    BY <1>1, <2>1 DEF Filled
  <2> QED BY <1>1, <1>4, <1>6, <2>1, <2>2 DEF Written
<1> QED BY <1>5, <1>7 DEF r

(* While the table is written, and when it is done.                        *)
LEMMA IndexWhileAdding ==
  ASSUME GoodRep(rep_), Written(rep_, iter), pc = "add"
  PROVE  IndexSeparates
<1>1. DataBlocks = rep_.file
  BY DEF DataBlocks
<1>2. DOMAIN rep_.file = 1 .. Len(rep_.file)
  BY RepFacts DEF GoodRep
<1>3. ASSUME NEW j \in DOMAIN rep_.index_block.entries \cap DOMAIN DataBlocks
      PROVE  SeparatesIn(rep_, DataBlocks, j)
  BY <1>1, <1>2, Separated
<1> QED BY <1>3 DEF IndexSeparates, SeparatesIn

LEMMA IndexWhenDone ==
  ASSUME pc = "done", GoodRep(rep_), rep_.footer = <<>> \/ \E g : EndsWith(rep_, g)
  PROVE  IndexSeparates
<1>1. CASE rep_.footer = <<>>
  <2>1. DOMAIN DataBlocks = {}
    BY <1>1 DEF DataBlocks
  <2> QED BY <2>1 DEF IndexSeparates
<1>2. CASE rep_.footer # <<>>
  <2>1. PICK g : EndsWith(rep_, g)
    BY <1>2
  <2> DEFINE n == Len(g.file)
             blocks == SubSeq(rep_.file, 1, n)
  <2>2. n \in Nat /\ Len(rep_.file) = n + 2 /\ rep_.file \in FileType
    BY <2>1, GoodRepFacts DEF EndsWith
  <2>3. DataBlocks = blocks
    <3>1. Len(rep_.file) - 2 = n
      <4> HIDE DEF n
      <4> QED BY <2>2
    <3> QED BY <1>2, <3>1 DEF DataBlocks
  <2>4. /\ DOMAIN blocks = 1 .. n /\ Len(blocks) = n
        /\ \A j \in 1 .. n : blocks[j] = rep_.file[j]
    <3> HIDE DEF n
    <3> QED BY <2>2 DEF FileType
  <2>5. \A j \in 1 .. n : rep_.file[j] = g.file[j]
    BY <2>1 DEF EndsWith
  <2> HIDE DEF blocks
  <2>6. /\ GoodRep(g) /\ Written(g, {})
        /\ rep_.index_block = g.index_block /\ rep_.data_block = g.data_block
    BY <2>1 DEF EndsWith
  <2>7. DOMAIN DataBlocks = 1 .. Len(g.file) /\ Len(DataBlocks) = Len(g.file)
        /\ \A j \in 1 .. Len(g.file) : rep_.file[j] = g.file[j] /\ DataBlocks[j] = g.file[j]
    BY <2>3, <2>4, <2>5
  <2>8. ASSUME NEW j \in DOMAIN rep_.index_block.entries \cap DOMAIN DataBlocks
        PROVE  SeparatesIn(rep_, DataBlocks, j)
    BY <2>6, <2>7, Separated
  <2> QED BY <2>8 DEF IndexSeparates, SeparatesIn
<1> QED BY <1>1, <1>2
-----------------------------------------------------------------------------
(* The inductive invariant: what is written so far separates the keys that *)
(* were added from those to come; a finished table ends with its index.    *)
IInv ==
  /\ iter \in SUBSET Bytes /\ added \in Seq(Bytes)
  /\ file_size \in Nat /\ pc \in {"add", "done"}
  /\ GoodRep(rep_)
  /\ rep_.closed = (pc = "done") /\ rep_.num_entries <= Len(added)
  /\ rep_.pending_index_entry => rep_.data_block.entries = <<>>
  /\ pc = "add" => Written(rep_, iter) /\ rep_.footer = <<>>
  /\ pc = "done" => rep_.footer = <<>> \/ \E g : EndsWith(rep_, g)
  /\ Laid(rep_)
  /\ pc = "add" => /\ file_size = 0 /\ (iter # {} \/ added # <<>>)
                   /\ rep_.ok => KeysOf(rep_) = added
  /\ pc = "done" /\ file_size # 0 => /\ file_size = rep_.offset /\ added # <<>>
                                    /\ \E g : WholeOf(rep_, g, added)

(* s is the table r with key added, and those of Y to come.                *)
Added(r, s, key, Y) ==
  /\ GoodRep(s) /\ Written(s, Y) /\ s.closed = r.closed
  /\ s.footer = r.footer /\ s.num_entries <= r.num_entries + 1
  /\ LaidUpTo(s.file, s.offset)
  /\ s.ok => r.ok /\ KeysOf(s) = Append(KeysOf(r), key)

LEMMA AddIs ==
  ASSUME NEW r, GoodRep(r), NEW Y \in SUBSET Bytes, Written(r, Y), NEW key \in Y,
         \A k \in Y : LessEq(key, k), NEW value \in Seq(Nat),
         NEW w \in BOOLEAN, NEW f \in BOOLEAN, LaidUpTo(r.file, r.offset)
  PROVE  Added(r, Add(r, key, value, w, f), key, Y \ {key})
<1> DEFINE s == Add(r, key, value, w, f)
           sep == FindShortestSeparator(r.last_key, key)
           i == IF ~ r.pending_index_entry THEN r ELSE AddIndexEntry(r, sep)
           d == AddData(i, key, value)
<1>1. /\ r \in RepType /\ r.num_entries \in Nat /\ r.last_key \in Bytes /\ key \in Bytes
      /\ \A y \in Y \ {key} : Less(key, y)
  BY RepFacts DEF GoodRep, LessEq
<1>2. CASE ~ r.ok
  <2>1. s = r
    BY <1>2 DEF Add
  <2>2. Written(r, Y \ {key})
    <3>1. Y \ {key} \in SUBSET Y
      OBVIOUS
    <3> QED BY <3>1, WrittenFewer
  <2>3. r.num_entries <= r.num_entries + 1 /\ ~ s.ok
    BY <1>1, <1>2, <2>1
  <2>4. Added(r, s, key, Y \ {key})
    <3> HIDE DEF s
    <3> QED BY <2>1, <2>2, <2>3 DEF Added
  <2> QED BY <2>4
<1>3. CASE r.ok
  <2>1. s = IF blockFull(d.data_block) THEN Flush(d, w, f) ELSE d
    BY <1>3 DEF Add, AddData
  <2>2. /\ GoodRep(i) /\ Written(i, Y) /\ ~ i.pending_index_entry
        /\ i.closed = r.closed /\ i.num_entries = r.num_entries /\ i.footer = r.footer
        /\ i.file = r.file /\ i.offset = r.offset
        /\ i.ok = r.ok /\ i.data_block = r.data_block
    <3>1. CASE r.pending_index_entry
      <4> DEFINE t == AddIndexEntry(r, sep)
      <4>1. Less(r.last_key, key)
        BY <3>1 DEF Written
      <4>2. sep \in Bytes /\ LessEq(r.last_key, sep) /\ Less(sep, key)
        BY <1>1, <4>1, SeparatorSeparates
      <4>3. \A y \in Y : Less(sep, y)
        <5>1. ASSUME NEW y \in Y PROVE Less(sep, y)
          <6>1. y \in Bytes /\ LessEq(key, y)
            OBVIOUS
          <6> QED BY <1>1, <4>2, <6>1, LessEqTransitive
        <5> QED BY <5>1
      <4>4. i = t
        BY <3>1
      <4> HIDE DEF sep
      <4>5. /\ GoodRep(t) /\ Written(t, Y) /\ ~ t.pending_index_entry
            /\ t.closed = r.closed
            /\ t.num_entries = r.num_entries /\ t.footer = r.footer /\ t.file = r.file
        BY <3>1, <4>2, <4>3, AddIndexEntryWritten
      <4>6. t.offset = r.offset /\ t.ok = r.ok /\ t.data_block = r.data_block
        BY <4>2, AddIndexEntryIs
      <4> HIDE DEF t, i
      <4> QED BY <4>4, <4>5, <4>6
    <3>2. CASE ~ r.pending_index_entry
      BY <3>2
    <3> QED BY <3>1, <3>2
  <2> HIDE DEF i, s
  <2>3. /\ GoodRep(d) /\ Written(d, Y \ {key})
        /\ d.closed = i.closed /\ d.footer = i.footer
        /\ d.num_entries = i.num_entries + 1
        /\ LaidUpTo(d.file, d.offset)
        /\ d.ok = i.ok /\ KeysOf(d) = Append(KeysOf(i), key)
    <3>1. DataAdded(i, d, key, Y \ {key})
      BY <1>1, <2>2, AddDataWritten
    <3> HIDE DEF d
    <3> QED BY <2>2, <3>1 DEF DataAdded
  <2> HIDE DEF d
  <2>4. d.num_entries <= r.num_entries + 1
    BY <1>1, <2>2, <2>3
  <2>7. d.ok = r.ok /\ KeysOf(d) = Append(KeysOf(r), key)
    BY <2>2, <2>3 DEF KeysOf
  <2>5. CASE blockFull(d.data_block)
    <3>1. GoodRep(Flush(d, w, f)) /\ Written(Flush(d, w, f), Y \ {key})
      BY <2>3, FlushGood, FlushWritten
    <3>2. /\ Flush(d, w, f).num_entries = d.num_entries
          /\ Flush(d, w, f).closed = d.closed /\ Flush(d, w, f).footer = d.footer
          /\ LaidUpTo(Flush(d, w, f).file, Flush(d, w, f).offset)
          /\ KeysKept(d, Flush(d, w, f))
      <4>1. d \in RepType
        BY <2>3 DEF GoodRep
      <4> QED BY <2>3, <4>1, FlushKeeps, FlushLaid, FlushKeys
    <3>3. s = Flush(d, w, f)
      BY <2>1, <2>5
    <3>4. Added(r, s, key, Y \ {key})
      BY <2>2, <2>3, <2>4, <2>7, <3>1, <3>2, <3>3 DEF Added, KeysKept
    <3> QED BY <3>4 DEF s
  <2>6. CASE ~ blockFull(d.data_block)
    <3>1. s = d
      BY <2>1, <2>6
    <3>2. Added(r, s, key, Y \ {key})
      BY <2>2, <2>3, <2>4, <2>7, <3>1 DEF Added
    <3> QED BY <3>2 DEF s
  <2> QED BY <2>5, <2>6
<1> QED BY <1>2, <1>3

LEMMA InitIInv == ASSUME Init PROVE IInv
<1>1. /\ iter \in SUBSET Bytes /\ added = <<>> /\ rep_ = NewTable /\ file_size = 0
      /\ pc = "add" /\ iter # {}
  BY TableBuilderAssumption DEF Init
<1>2. GoodRep(NewTable) /\ Written(NewTable, iter)
  BY NewTableGood
<1>3. /\ NewTable.closed = FALSE /\ NewTable.num_entries = 0 /\ NewTable.footer = <<>>
      /\ NewTable.pending_index_entry = FALSE
  BY DEF NewTable
<1>4. <<>> \in Seq(Bytes) /\ Len(<<>>) = 0
  OBVIOUS
<1>6. Laid(rep_)
  <2>1. NewTable.file = <<>> /\ NewTable.offset = 0 /\ 1 .. Len(<<>>) = {}
    BY DEF NewTable
  <2> QED BY <1>1, <1>3, <2>1 DEF Laid, LaidUpTo, LaidOut
<1>5. GoodRep(rep_) /\ Written(rep_, iter) /\ rep_.num_entries <= Len(added)
  <2>1. rep_.num_entries = 0 /\ Len(added) = 0
    BY <1>1, <1>3, <1>4
  <2> QED BY <1>1, <1>2, <2>1
<1>7. KeysOf(rep_) = <<>>
  <2>1. FileKeys(<<>>) = <<>> /\ NewTable.file = <<>> /\ NewTable.data_block.entries = <<>>
    <3>1. FileKeys(<<>>) \in Seq(Seq(Bytes)) /\ Len(FileKeys(<<>>)) = 0
      <4>1. <<>> \in FileType /\ Len(<<>>) = 0 /\ 1 .. 0 = {}
        BY DEF FileType
      <4> QED BY <4>1, FileKeysAre
    <3> QED BY <3>1, EmptySeq DEF NewTable, EmptyBlock
  <2>2. BlockKeys(NewTable.data_block) = <<>>
    BY <1>2, <2>1, NoEntriesNoKeys DEF GoodRep
  <2>3. FlattenSeq(<<>>) = <<>> /\ <<>> \o <<>> = <<>>
    BY FlattenEmpty
  <2> QED BY <1>1, <2>1, <2>2, <2>3 DEF KeysOf
<1> QED BY <1>1, <1>3, <1>4, <1>5, <1>6, <1>7 DEF IInv

LEMMA addEntryStep == ASSUME IInv, addEntry PROVE IInv'
<1>1. PICK key \in iter, size \in ValueSizes, okWrite \in BOOLEAN, okFlush \in BOOLEAN :
        /\ GetNext(key)
        /\ iter' = iter \ {key}
        /\ added' = Append(added, key)
        /\ rep_' = Add(rep_, key, [i \in 1 .. size |-> 255], okWrite, okFlush)
  BY DEF addEntry
<1>2. pc = "add" /\ pc' = "add" /\ file_size' = file_size
  BY DEF addEntry
<1>3. /\ iter \in SUBSET Bytes /\ added \in Seq(Bytes) /\ key \in Bytes
      /\ GoodRep(rep_) /\ Written(rep_, iter) /\ rep_.closed = FALSE /\ rep_.footer = <<>>
      /\ rep_.num_entries <= Len(added) /\ file_size \in Nat
      /\ LaidUpTo(rep_.file, rep_.offset)
      /\ file_size = 0 /\ (rep_.ok => KeysOf(rep_) = added)
  BY <1>2 DEF IInv, Laid
<1> DEFINE value == [i \in 1 .. size |-> 255]
           r == Add(rep_, key, value, okWrite, okFlush)
<1>4. value \in Seq(Nat)
  <2>1. size \in Nat
    BY TableBuilderAssumption
  <2> QED BY <2>1
<1> HIDE DEF value
<1>5. \A k \in iter : LessEq(key, k)
  BY <1>1 DEF GetNext
<1>6. /\ GoodRep(r) /\ Written(r, iter \ {key}) /\ r.closed = rep_.closed
      /\ r.footer = rep_.footer /\ r.num_entries <= rep_.num_entries + 1
      /\ Laid(r) /\ (r.ok => KeysOf(r) = Append(added, key))
  <2>1. Added(rep_, r, key, iter \ {key})
    BY <1>3, <1>4, <1>5, AddIs
  <2> HIDE DEF r
  <2> QED BY <1>3, <2>1 DEF Added, Laid
<1>7. /\ Append(added, key) \in Seq(Bytes) /\ Len(Append(added, key)) = Len(added) + 1
      /\ Len(added) \in Nat
  BY <1>3, AppendFacts
<1>8. r.num_entries <= Len(Append(added, key))
  <2>1. r.num_entries \in Nat /\ rep_.num_entries \in Nat
    BY <1>3, <1>6, RepFacts DEF GoodRep
  <2> HIDE DEF r
  <2> DEFINE n == Len(Append(added, key))
  <2>2. n = Len(added) + 1
    BY <1>7
  <2> HIDE DEF n
  <2>3. r.num_entries <= n
    BY <1>3, <1>6, <1>7, <2>1, <2>2
  <2> QED BY <2>3 DEF n
<1>9. r.pending_index_entry => r.data_block.entries = <<>>
  BY <1>6 DEF Written
<1>10. rep_' = r
  BY <1>1 DEF value
<1> HIDE DEF r
<1>11. Append(added, key) # <<>>
  BY <1>3, AppendFacts
<1>12. /\ iter' \in SUBSET Bytes /\ added' \in Seq(Bytes) /\ added' # <<>>
       /\ file_size' = 0 /\ pc' = "add"
       /\ GoodRep(rep_') /\ rep_'.closed = FALSE /\ rep_'.num_entries <= Len(added')
       /\ rep_'.pending_index_entry => rep_'.data_block.entries = <<>>
       /\ Written(rep_', iter') /\ rep_'.footer = <<>> /\ Laid(rep_')
       /\ rep_'.ok => KeysOf(rep_') = added'
  BY <1>1, <1>2, <1>3, <1>6, <1>7, <1>8, <1>9, <1>10, <1>11
<1> QED BY <1>12 DEF IInv

LEMMA finishStep == ASSUME IInv, finish PROVE IInv'
<1>1. PICK okWrite \in BOOLEAN, okFlush \in BOOLEAN, okMeta \in BOOLEAN, okIndex \in BOOLEAN,
           okFooter \in BOOLEAN :
        rep_' = Finish(rep_, okWrite, okFlush, okMeta, okIndex, okFooter)
  BY DEF finish
<1>2. /\ pc = "add" /\ pc' = "done" /\ iter = {} /\ iter' = iter /\ added' = added
      /\ file_size' = IF rep_'.ok THEN rep_'.offset ELSE 0
  BY DEF finish
<1> DEFINE r == Finish(rep_, okWrite, okFlush, okMeta, okIndex, okFooter)
<1>3. /\ GoodRep(rep_) /\ Written(rep_, {}) /\ rep_.footer = <<>>
      /\ rep_.num_entries <= Len(added) /\ iter \in SUBSET Bytes /\ added \in Seq(Bytes)
      /\ LaidUpTo(rep_.file, rep_.offset)
      /\ added # <<>> /\ (rep_.ok => KeysOf(rep_) = added)
  BY <1>2 DEF IInv, Laid
<1>4. /\ GoodRep(r) /\ r.closed = TRUE /\ r.num_entries = rep_.num_entries
      /\ r.pending_index_entry => r.data_block.entries = <<>>
      /\ r.footer = <<>> \/ \E g : EndsWith(r, g)
      /\ Laid(r) /\ r.ok \in BOOLEAN
      /\ r.ok => \E g : WholeOf(r, g, added)
  <2>1. Finished(rep_, r)
    BY <1>3, FinishIs
  <2> HIDE DEF r
  <2> QED BY <1>3, <2>1 DEF Finished
<1>5. r.offset \in Nat
  BY <1>4, RepFacts DEF GoodRep
<1>6. rep_' = r
  BY <1>1
<1> HIDE DEF r
<1>7. file_size' \in Nat
  BY <1>2, <1>5, <1>6
<1>8. file_size' # 0 => /\ file_size' = rep_'.offset /\ added' # <<>>
                        /\ \E g : WholeOf(rep_', g, added')
  BY <1>2, <1>3, <1>4, <1>6
<1> QED BY <1>2, <1>3, <1>4, <1>6, <1>7, <1>8 DEF IInv

LEMMA NextIInv == ASSUME IInv, [Next]_vars PROVE IInv'
<1>1. CASE UNCHANGED vars
  BY <1>1 DEF vars, IInv, Laid
<1> QED BY <1>1, addEntryStep, finishStep DEF Next

(* For whatever keys and sizes: what BuildTable has written holds the keys *)
(* added so far in order, whichever Append or Flush failed.                *)
THEOREM TableInductive == Spec => []IInv
<1>1. Init => IInv
  BY InitIInv
<1>2. IInv /\ [Next]_vars => IInv'
  BY NextIInv
<1> QED BY <1>1, <1>2, PTL DEF Spec

LEMMA CounterInRange ==
  ASSUME NEW b, NEW interval \in Nat, Good(b, interval)
  PROVE  b.counter \in 0 .. interval
<1>1. b.counter \in Nat
  BY DEF Good, BlockType
<1>2. b.counter <= interval
  BY DEF Good, RestartsKnown
<1> QED BY <1>1, <1>2

(* The shapes BlockBuilder and TableBuilder assert: counters within their  *)
(* restart interval, an index entry pending only while data_block is empty.*)
THEOREM TableTypeCorrect == Spec => []TypeOK
<1>1. IInv => TypeOK
  <2> SUFFICES ASSUME IInv PROVE TypeOK
    OBVIOUS
  <2>1. /\ GoodRep(rep_) /\ rep_ \in RepType
        /\ Good(rep_.data_block, block_restart_interval) /\ Good(rep_.index_block, 1)
    BY DEF IInv, GoodRep
  <2>2. rep_.data_block.counter \in 0 .. block_restart_interval
    BY <2>1, TableBuilderAssumption, CounterInRange
  <2>3. rep_.index_block.counter \in 0 .. 1
    BY <2>1, CounterInRange
  <2>4. /\ rep_.offset \in Nat /\ rep_.ok \in BOOLEAN /\ rep_.last_key \in Bytes
        /\ rep_.num_entries \in Nat /\ rep_.pending_index_entry \in BOOLEAN
    BY <2>1, RepFacts
  <2>5. /\ rep_.num_entries <= Len(added) /\ added \in Seq(Bytes) /\ iter \in SUBSET Bytes
        /\ file_size \in Nat /\ pc \in {"add", "done"} /\ rep_.closed = (pc = "done")
        /\ rep_.pending_index_entry => rep_.data_block.entries = <<>>
    BY DEF IInv
  <2>6. rep_.num_entries \in 0 .. Len(added)
    <3>1. Len(added) \in Nat
      BY <2>5
    <3> QED BY <2>4, <2>5, <3>1
  <2> QED BY <2>2, <2>3, <2>4, <2>5, <2>6 DEF TypeOK
<1> QED BY <1>1, TableInductive, PTL

(* A restart point is the place of a whole key, and no reader that starts  *)
(* at one walks more than a restart interval of entries to the next.       *)
THEOREM RestartsCorrect == Spec => []RestartsAreWhole
<1>1. IInv => RestartsAreWhole
  <2> SUFFICES ASSUME IInv,
                      NEW b \in {rep_.data_block, rep_.index_block}
                                  \cup {x.block : x \in ToSet(rep_.file)},
                      NEW i \in DOMAIN b.restarts
               PROVE  /\ b.restarts[i] + 1 \in DOMAIN b.entries =>
                           b.entries[b.restarts[i] + 1].shared = 0
                      /\ (IF i = Len(b.restarts) THEN Len(b.entries) ELSE b.restarts[i + 1])
                           - b.restarts[i] <= block_restart_interval
    BY DEF RestartsAreWhole
  <2>1. GoodRep(rep_)
    BY DEF IInv
  <2>2. Good(b, block_restart_interval)
    <3>1. CASE b = rep_.data_block
      BY <2>1, <3>1 DEF GoodRep
    <3>2. CASE b = rep_.index_block
      BY <2>1, <3>2, GoodWider DEF GoodRep
    <3>3. CASE b \in {x.block : x \in ToSet(rep_.file)}
      BY <2>1, <3>3 DEF GoodRep, ToSet
    <3> QED BY <3>1, <3>2, <3>3
  <2> DEFINE m == Len(b.restarts)
             n == Len(b.entries)
             u == b.restarts[i]
             v == b.restarts[i + 1]
  <2>3. /\ b.restarts \in Seq(Nat) /\ b.entries \in Seq(EntryType) /\ b.counter \in Nat
        /\ block_restart_interval \in Nat
    BY <2>2, TableBuilderAssumption DEF Good, BlockType
  <2>4. /\ m \in Nat /\ n \in Nat /\ i \in 1 .. m /\ u \in Nat /\ DOMAIN b.entries = 1 .. n
        /\ b.entries = <<>> <=> n = 0
        /\ \A j \in 1 .. m : b.restarts[j] \in Nat
    BY <2>3, SeqFacts
  <2>5. /\ IF b.entries = <<>> THEN u = 0 ELSE u < n /\ b.entries[u + 1].shared = 0
        /\ b.counter <= block_restart_interval
        /\ i = m => u + b.counter = n
        /\ i \in 1 .. m - 1 => v <= u + block_restart_interval
    BY <2>2, <2>4 DEF Good, RestartsKnown
  <2>6. i # m => i \in 1 .. m - 1 /\ v \in Nat
    <3>1. i # m => i + 1 \in 1 .. m /\ i \in 1 .. m - 1
      BY <2>4
    <3> QED BY <2>4, <3>1
  <2> HIDE DEF m, n, u, v
  <2>7. u + 1 \in DOMAIN b.entries => b.entries[u + 1].shared = 0
    BY <2>4, <2>5
  <2>8. (IF i = m THEN n ELSE v) - u <= block_restart_interval
    BY <2>3, <2>4, <2>5, <2>6
  <2> QED BY <2>7, <2>8 DEF m, n, u, v
<1> QED BY <1>1, TableInductive, PTL

(* The index leads to every block, under keys that ascend and separate it  *)
(* from the blocks behind it.                                              *)
THEOREM IndexCorrect == Spec => []IndexSeparates
<1>1. IInv => IndexSeparates
  <2>1. ASSUME IInv, pc = "add" PROVE IndexSeparates
    BY <2>1, IndexWhileAdding DEF IInv
  <2>2. ASSUME IInv, pc = "done" PROVE IndexSeparates
    BY <2>2, IndexWhenDone DEF IInv
  <2>3. IInv => pc = "add" \/ pc = "done"
    BY DEF IInv
  <2> QED BY <2>1, <2>2, <2>3
<1> QED BY <1>1, TableInductive, PTL
-----------------------------------------------------------------------------
(* The bytes of a block.                                                   *)
(* Sequences of fixed numbers.                                             *)
LEMMA FixedSeq ==
  ASSUME NEW n \in Nat, NEW s, s = [i \in 1 .. n |-> s[i]],
         \A i \in 1 .. n : s[i] \in Seq(Nat) /\ Len(s[i]) = 4
  PROVE  /\ FlattenSeq(s) \in Seq(Nat) /\ Len(FlattenSeq(s)) = 4 * n
         /\ \A j \in 1 .. n : \A i \in 1 .. 4 :
              /\ 4 * (j - 1) + i \in 1 .. 4 * n
              /\ FlattenSeq(s)[4 * (j - 1) + i] = s[j][i]
<1> DEFINE o == [i \in 1 .. n + 1 |-> 4 * (i - 1)]
<1>1. s \in Seq(Seq(Nat)) /\ Len(s) = n
  <2> DEFINE T == Seq(Nat)
  <2>1. \A i \in 1 .. n : s[i] \in T
    OBVIOUS
  <2> HIDE DEF T
  <2>2. s \in Seq(T) /\ Len(s) = n
    BY <2>1
  <2> QED BY <2>2 DEF T
<1>2. \A i \in 1 .. n + 1 : o[i] = 4 * (i - 1)
  OBVIOUS
<1> HIDE DEF o
<1>3. Begin(o, s)
  <2>1. 1 \in 1 .. n + 1 /\ \A i \in 1 .. n : i \in 1 .. n + 1 /\ i + 1 \in 1 .. n + 1
    OBVIOUS
  <2>2. o[1] = 0
    BY <1>2, <2>1
  <2>3. ASSUME NEW i \in 1 .. n
        PROVE  o[i] \in Nat /\ o[i + 1] = o[i] + Len(s[i])
    <3>1. o[i] = 4 * (i - 1) /\ o[i + 1] = 4 * (i + 1 - 1) /\ Len(s[i]) = 4
      BY <1>2, <2>1
    <3>2. 4 * (i - 1) \in Nat /\ 4 * (i + 1 - 1) = 4 * (i - 1) + 4
      OBVIOUS
    <3> QED BY <3>1, <3>2
  <2> QED BY <1>1, <2>2, <2>3 DEF Begin
<1>4. /\ Len(FlattenSeq(s)) = o[n + 1] /\ FlattenSeq(s) \in Seq(Nat)
      /\ \A j \in 1 .. n : \A i \in 1 .. 4 :
           /\ o[j] + i \in 1 .. Len(FlattenSeq(s))
           /\ FlattenSeq(s)[o[j] + i] = s[j][i]
  <2>1. FlattenSeq(s) \in Seq(Nat)
    BY <1>1, FlattenType
  <2>2. /\ Len(FlattenSeq(s)) = o[Len(s) + 1]
        /\ \A j \in 1 .. Len(s) : \A i \in 1 .. Len(s[j]) :
             /\ o[j] + i \in 1 .. Len(FlattenSeq(s))
             /\ FlattenSeq(s)[o[j] + i] = s[j][i]
    BY <1>1, <1>3, FlattenAt
  <2> QED BY <1>1, <2>1, <2>2
<1>5. o[n + 1] = 4 * n /\ \A j \in 1 .. n : o[j] = 4 * (j - 1)
  <2>1. n + 1 \in 1 .. n + 1 /\ (\A j \in 1 .. n : j \in 1 .. n + 1) /\ 4 * (n + 1 - 1) = 4 * n
    OBVIOUS
  <2> QED BY <1>2, <2>1
<1> QED BY <1>4, <1>5

(* The bytes BlockBuilder's Finish returns: as many as were estimated, the *)
(* number of restart points last.                                          *)
RestartBytes(b) ==
  FlattenSeq([i \in DOMAIN b.restarts |->
    EncodeFixed(Len(FlattenSeq([k \in 1 .. b.restarts[i] |-> EntryBytes(b.entries[k])])), 4)])

LEMMA FinishIsParts ==
  ASSUME NEW b
  PROVE  BlockFinish(b) = (b.buffer \o RestartBytes(b)) \o EncodeFixed(Len(b.restarts), 4)
BY DEF BlockFinish, RestartBytes

LEMMA RestartBytesAre ==
  ASSUME NEW b, NEW interval, Good(b, interval)
  PROVE  RestartBytes(b) \in Seq(Nat) /\ Len(RestartBytes(b)) = 4 * Len(b.restarts)
<1> DEFINE n == Len(b.restarts)
           size(i) == Len(FlattenSeq([k \in 1 .. b.restarts[i] |-> EntryBytes(b.entries[k])]))
           s == [i \in DOMAIN b.restarts |-> EncodeFixed(size(i), 4)]
<1>1. b.restarts \in Seq(Nat) /\ b.entries \in Seq(EntryType)
  BY DEF Good, BlockType
<1>2. n \in Nat /\ DOMAIN b.restarts = 1 .. n /\ (\A i \in 1 .. n : b.restarts[i] \in Nat)
      /\ Len(b.entries) \in Nat /\ DOMAIN b.entries = 1 .. Len(b.entries)
      /\ \A k \in 1 .. Len(b.entries) : b.entries[k] \in EntryType
  BY <1>1, SeqFacts
<1>3. \A i \in 1 .. n : b.restarts[i] <= Len(b.entries)
  <2>1. \A i \in 1 .. n : IF b.entries = <<>> THEN b.restarts[i] = 0
                          ELSE b.restarts[i] < Len(b.entries)
    BY DEF Good, RestartsKnown
  <2> QED BY <1>2, <2>1
<1> HIDE DEF n
<1>4. ASSUME NEW i \in 1 .. n PROVE size(i) \in Nat
  <2> DEFINE t == [k \in 1 .. b.restarts[i] |-> EntryBytes(b.entries[k])]
             T == Seq(Nat)
             m == b.restarts[i]
  <2>1. m \in Nat /\ m <= Len(b.entries)
    BY <1>2, <1>3
  <2>2. \A k \in 1 .. m : t[k] \in T
    <3>1. \A k \in 1 .. m : k \in 1 .. Len(b.entries)
      BY <1>2, <2>1
    <3> QED BY <1>2, <3>1, EntryBytesType
  <2>3. t = [k \in 1 .. m |-> t[k]]
    OBVIOUS
  <2> HIDE DEF t, T, m
  <2>4. t \in Seq(T)
    BY <2>1, <2>2, <2>3
  <2>5. FlattenSeq(t) \in Seq(Nat)
    BY <2>4, FlattenType DEF T
  <2>6. Len(FlattenSeq(t)) \in Nat
    BY <2>5, LenProperties
  <2> QED BY <2>6 DEF t
<1> HIDE DEF size
<1>5. ASSUME NEW i \in 1 .. n PROVE s[i] \in Seq(Nat) /\ Len(s[i]) = 4
  <2>1. s[i] = EncodeFixed(size(i), 4)
    BY <1>2
  <2>2. FourBytes(EncodeFixed(size(i), 4), size(i))
    BY <1>4, FixedFourIs
  <2> QED BY <2>1, <2>2 DEF FourBytes
<1>6. s = [i \in 1 .. n |-> s[i]]
  BY <1>2
<1> HIDE DEF s
<1>7. FlattenSeq(s) \in Seq(Nat) /\ Len(FlattenSeq(s)) = 4 * n
  BY <1>2, <1>5, <1>6, FixedSeq
<1> QED BY <1>7 DEF s, n, size, RestartBytes

(* What is said of the block b once it is the bytes d.                     *)
Finishes(b, d) ==
  /\ d \in Seq(Nat) /\ Len(d) = CurrentSizeEstimate(b) /\ Len(d) \in Nat /\ Len(d) >= 4
  /\ b.restarts \in Seq(Nat) /\ Len(b.restarts) \in Nat \ {0}
  /\ Len(d) - 4 >= 4 * Len(b.restarts)
  /\ SubSeq(d, Len(d) - 3, Len(d)) = EncodeFixed(Len(b.restarts), 4)

LEMMA BlockFinishIs ==
  ASSUME NEW b, NEW interval, Good(b, interval)
  PROVE  Finishes(b, BlockFinish(b))
<1> DEFINE d == BlockFinish(b)
           x == b.buffer
           y == RestartBytes(b)
           z == EncodeFixed(Len(b.restarts), 4)
           m == Len(b.restarts)
           k == Len(x)
<1>1. b.restarts \in Seq(Nat) /\ x \in Seq(Nat) /\ k \in Nat /\ m \in Nat \ {0}
  <2>1. b.restarts \in Seq(Nat) /\ x \in Seq(Nat)
    BY DEF Good, BlockType
  <2>2. b.restarts # <<>>
    BY DEF Good, RestartsKnown
  <2>3. m \in Nat /\ m # 0 /\ k \in Nat
    BY <2>1, <2>2, LenProperties, EmptySeq
  <2> QED BY <2>1, <2>3
<1>2. y \in Seq(Nat) /\ Len(y) = 4 * m
  BY RestartBytesAre
<1>3. z \in Seq(Nat) /\ Len(z) = 4
  <2>1. FourBytes(z, m)
    BY <1>1, FixedFourIs
  <2> HIDE DEF z, m
  <2> QED BY <2>1 DEF FourBytes
<1>4. d = (x \o y) \o z
  BY FinishIsParts
<1>5. CurrentSizeEstimate(b) = k + 4 * m + 4
  BY DEF CurrentSizeEstimate
<1> HIDE DEF d, x, y, z, m, k
<1>6. x \o y \in Seq(Nat) /\ Len(x \o y) = k + 4 * m
  <2>1. x \o y \in Seq(Nat) /\ Len(x \o y) = Len(x) + Len(y)
    BY <1>1, <1>2, JoinIs DEF Joins
  <2> QED BY <1>2, <2>1 DEF k
<1> DEFINE w == x \o y
<1> HIDE DEF w
<1>7. Joins(w, z, Nat)
  BY <1>3, <1>6, JoinIs DEF w
<1>8. /\ d \in Seq(Nat) /\ Len(d) = k + 4 * m + 4 /\ Len(w) = k + 4 * m
      /\ \A i \in 1 .. 4 : d[Len(w) + i] = z[i]
  BY <1>3, <1>4, <1>6, <1>7 DEF Joins, w
<1>9. Len(d) \in Nat /\ Len(d) >= 4 /\ Len(d) - 4 >= 4 * m
  <2> DEFINE l == Len(d)
  <2>1. l = k + 4 * m + 4
    BY <1>8
  <2> HIDE DEF l
  <2>2. l \in Nat /\ l >= 4 /\ l - 4 >= 4 * m
    BY <1>1, <2>1
  <2> QED BY <2>2 DEF l
<1>10. SubSeq(d, Len(d) - 3, Len(d)) = z
  <2> DEFINE lo == Len(d) - 3
             hi == Len(d)
             t == SubSeq(d, lo, hi)
  <2>1. lo \in Int /\ hi \in Int /\ lo >= 1 /\ hi - lo + 1 = 4 /\ lo = k + 4 * m + 1
    BY <1>1, <1>8
  <2>2. \A i \in lo .. hi : i \in 1 .. Len(d)
    BY <2>1
  <2>3. \A i \in lo .. hi : d[i] \in Nat
    BY <1>8, <2>2, ElementOfSeq
  <2> HIDE DEF lo, hi
  <2>4. /\ t \in Seq(Nat) /\ Len(t) = (IF lo <= hi THEN hi - lo + 1 ELSE 0)
        /\ \A i \in 1 .. hi - lo + 1 : t[i] = d[lo + i - 1]
    BY <2>1, <2>3, SubSeqProperties
  <2> HIDE DEF t
  <2>5. Len(t) = 4 /\ \A i \in 1 .. 4 : t[i] = d[lo + i - 1]
    BY <2>1, <2>4
  <2>6. \A i \in 1 .. 4 : t[i] = z[i]
    <3>1. ASSUME NEW i \in 1 .. 4 PROVE t[i] = z[i]
      <4>1. lo + i - 1 = Len(w) + i
        BY <1>1, <1>8, <2>1
      <4> QED BY <1>8, <2>5, <4>1
    <3> QED BY <3>1
  <2>7. t = z
    BY <1>3, <2>4, <2>5, <2>6, SeqEqual
  <2> QED BY <2>7 DEF t, lo, hi
<1>11. Finishes(b, d)
  BY <1>1, <1>5, <1>8, <1>9, <1>10, Zenon DEF Finishes, m, z
<1> QED BY <1>11 DEF d

(* Such bytes are those of a block: the number of restart points, though   *)
(* it is cut to 32 bits, has room before it.                               *)
LEMMA BlockIsOne ==
  ASSUME NEW b, NEW d, Finishes(b, d)
  PROVE  Block(d).size_ # 0
<1> DEFINE n == Len(d)
           m == Len(b.restarts)
           r == NumRestarts(d)
<1>1. n \in Nat /\ n >= 4 /\ n - 4 >= 4 * m /\ m \in Nat
  BY DEF Finishes
<1>2. r \in Nat /\ r <= m
  <2>1. r = DecodeFixed(EncodeFixed(m, 4))
    BY DEF NumRestarts, Finishes
  <2> QED BY <1>1, <2>1, FixedFourDecoded
<1> HIDE DEF n, m, r
<1>3. ~ (n < 4 \/ r > (n - 4) \div 4)
  BY <1>1, <1>2
<1>4. Block(d) = [data_ |-> d, size_ |-> n, restart_offset_ |-> n - (1 + r) * 4]
  BY <1>3 DEF Block, n, r
<1>5. n # 0
  BY <1>1
<1> QED BY <1>4, <1>5

(* WriteRawBlock: the block, the byte of its compression and a checksum.   *)
RawOf(b, w) ==
  /\ w \in Seq(Nat) /\ Len(w) = CurrentSizeEstimate(b) + kBlockTrailerSize
  /\ CurrentSizeEstimate(b) \in Nat
  /\ SubSeq(w, 1, CurrentSizeEstimate(b)) = BlockFinish(b)

LEMMA WriteRawBlockIs ==
  ASSUME NEW b, NEW interval, Good(b, interval)
  PROVE  RawOf(b, WriteRawBlock(b))
<1> DEFINE d == BlockFinish(b)
           n == Len(d)
           t == <<kNoCompression>>
           z == EncodeFixed(0, 4)
           w == WriteRawBlock(b)
<1>1. d \in Seq(Nat) /\ n \in Nat /\ n = CurrentSizeEstimate(b)
  BY BlockFinishIs DEF Finishes
<1>2. z \in Seq(Nat) /\ Len(z) = 4
  BY FixedFourIs DEF FourBytes
<1>3. t \in Seq(Nat) /\ Len(t) = 1
  BY DEF kNoCompression
<1>4. w = d \o (t \o z)
  <2>1. w = (d \o t) \o z
    BY DEF WriteRawBlock
  <2> HIDE DEF d, t, z, w
  <2> QED BY <1>1, <1>2, <1>3, <2>1, ConcatAssociative
<1> HIDE DEF d, t, z, w
<1> DEFINE u == t \o z
<1>5. u \in Seq(Nat) /\ Len(u) = 5
  <2>1. Joins(t, z, Nat)
    BY <1>2, <1>3, JoinIs
  <2> QED BY <1>2, <1>3, <2>1 DEF Joins
<1> HIDE DEF u
<1>6. Joins(d, u, Nat)
  BY <1>1, <1>5, JoinIs
<1>7. w \in Seq(Nat) /\ Len(w) = n + 5 /\ \A i \in 1 .. n : w[i] = d[i]
  BY <1>4, <1>5, <1>6 DEF Joins, u
<1>8. SubSeq(w, 1, n) = d
  <2> DEFINE s == SubSeq(w, 1, n)
  <2>1. \A i \in 1 .. n : i \in 1 .. Len(w)
    BY <1>1, <1>7
  <2>2. \A i \in 1 .. n : w[i] \in Nat
    BY <1>7, <2>1, ElementOfSeq
  <2> HIDE DEF n
  <2>3. s \in Seq(Nat) /\ Len(s) = (IF 1 <= n THEN n - 1 + 1 ELSE 0)
        /\ \A i \in 1 .. n - 1 + 1 : s[i] = w[1 + i - 1]
    BY <1>1, <2>2, SubSeqProperties
  <2> HIDE DEF s
  <2>4. Len(s) = n /\ \A i \in 1 .. n : s[i] = d[i]
    BY <1>1, <1>7, <2>3
  <2>5. s = d
    BY <1>1, <2>3, <2>4, SeqEqual DEF n
  <2> QED BY <2>5 DEF s
<1>9. RawOf(b, w)
  <2>1. CurrentSizeEstimate(b) + kBlockTrailerSize = n + 5
    BY <1>1 DEF kBlockTrailerSize
  <2> QED BY <1>1, <1>7, <1>8, <2>1, Zenon DEF RawOf, d
<1> QED BY <1>9 DEF w
-----------------------------------------------------------------------------
(* A part of a sequence that is known element by element.                  *)
LEMMA PartOf ==
  ASSUME NEW S, NEW f \in Seq(S), NEW o \in Nat, NEW w \in Seq(S), Len(w) # 0,
         \A i \in 1 .. Len(w) : o + i \in 1 .. Len(f) /\ f[o + i] = w[i]
  PROVE  SubSeq(f, o + 1, o + Len(w)) = w
<1> DEFINE n == Len(w)
           t == SubSeq(f, o + 1, o + n)
<1>1. n \in Nat \ {0} /\ o + 1 \in Int /\ o + n \in Int
  BY LenProperties
<1>2. ASSUME NEW i \in o + 1 .. o + n PROVE f[i] \in S
  <2>1. i - o \in 1 .. n /\ o + (i - o) = i
    BY <1>1
  <2>2. i \in 1 .. Len(f)
    <3>1. o + (i - o) \in 1 .. Len(f)
      BY <2>1
    <3> QED BY <2>1, <3>1
  <2> QED BY <2>2, ElementOfSeq
<1> HIDE DEF n
<1>3. /\ t \in Seq(S)
      /\ Len(t) = (IF o + 1 <= o + n THEN o + n - (o + 1) + 1 ELSE 0)
      /\ \A i \in 1 .. o + n - (o + 1) + 1 : t[i] = f[o + 1 + i - 1]
  BY <1>1, <1>2, SubSeqProperties
<1> HIDE DEF t
<1>4. o + n - (o + 1) + 1 = n /\ o + 1 <= o + n
  BY <1>1
<1>5. Len(t) = n /\ \A i \in 1 .. n : t[i] = f[o + 1 + i - 1]
  BY <1>3, <1>4
<1>6. ASSUME NEW i \in 1 .. n PROVE t[i] = w[i]
  <2>1. o + 1 + i - 1 = o + i
    BY <1>1
  <2>2. f[o + i] = w[i]
    BY DEF n
  <2> QED BY <1>5, <2>1, <2>2
<1>7. t = w
  BY <1>3, <1>5, <1>6, SeqEqual DEF n
<1> QED BY <1>7 DEF t, n

LEMMA PartIs ==
  ASSUME NEW f \in Seq(Nat), NEW o \in Nat, NEW w \in Seq(Nat), Len(w) # 0,
         \A i \in 1 .. Len(w) : o + i \in 1 .. Len(f) /\ f[o + i] = w[i]
  PROVE  SubSeq(f, o + 1, o + Len(w)) = w
  BY PartOf

(* The whole of a sequence is its first Len(w) elements, and no fewer.     *)
LEMMA FirstPart ==
  ASSUME NEW w \in Seq(Nat), NEW k \in 0 .. Len(w)
  PROVE  /\ Len(SubSeq(w, 1, k)) = k
         /\ k = Len(w) => SubSeq(w, 1, k) = w
<1>1. Len(w) \in Nat /\ k \in Int /\ \A i \in 1 .. k : i \in 1 .. Len(w)
  BY LenProperties
<1>2. \A i \in 1 .. k : w[i] \in Nat
  BY <1>1, ElementOfSeq
<1> DEFINE t == SubSeq(w, 1, k)
<1>3. /\ t \in Seq(Nat) /\ Len(t) = (IF 1 <= k THEN k - 1 + 1 ELSE 0)
      /\ \A i \in 1 .. k - 1 + 1 : t[i] = w[1 + i - 1]
  BY <1>1, <1>2, SubSeqProperties
<1> HIDE DEF t
<1>4. Len(t) = k /\ \A i \in 1 .. k : t[i] = w[i]
  BY <1>1, <1>3
<1>5. k = Len(w) => t = w
  BY <1>3, <1>4, SeqEqual
<1> QED BY <1>4, <1>5 DEF t

(* The blocks of a table, as bytes.                                        *)
RawBlocks(r) == [j \in DOMAIN r.file |-> WriteRawBlock(r.file[j].block)]

LEMMA FileBytesIs ==
  ASSUME NEW r
  PROVE  FileBytes(r) = FlattenSeq(RawBlocks(r)) \o r.footer
BY DEF FileBytes, RawBlocks

LEMMA RawBlocksAre ==
  ASSUME NEW r, GoodRep(r)
  PROVE  /\ RawBlocks(r) \in Seq(Seq(Nat)) /\ Len(RawBlocks(r)) = Len(r.file)
         /\ \A j \in 1 .. Len(r.file) :
              /\ RawBlocks(r)[j] = WriteRawBlock(r.file[j].block)
              /\ RawOf(r.file[j].block, RawBlocks(r)[j])
<1> DEFINE n == Len(r.file)
           s == RawBlocks(r)
           T == Seq(Nat)
<1>1. n \in Nat /\ DOMAIN r.file = 1 .. n
  BY GoodRepFacts, RepFacts
<1>2. s = [j \in 1 .. n |-> WriteRawBlock(r.file[j].block)]
  BY <1>1 DEF RawBlocks
<1>3. \A j \in 1 .. n : Good(r.file[j].block, block_restart_interval)
  BY GoodRepFacts
<1> HIDE DEF s, n
<1>4. \A j \in 1 .. n : s[j] = WriteRawBlock(r.file[j].block) /\ RawOf(r.file[j].block, s[j])
  BY <1>2, <1>3, WriteRawBlockIs
<1>5. \A j \in 1 .. n : s[j] \in T
  BY <1>4 DEF RawOf
<1>6. s = [j \in 1 .. n |-> s[j]]
  BY <1>2
<1> HIDE DEF T
<1>7. s \in Seq(T) /\ Len(s) = n
  BY <1>1, <1>5, <1>6
<1> QED BY <1>4, <1>7 DEF s, n, T

(* The blocks follow one another in the file, up to n.                     *)
RawBegins(r, n, o) ==
  /\ Begin(o, RawBlocks(r)) /\ o[Len(r.file) + 1] = n
  /\ \A i \in 1 .. Len(r.file) : o[i] = r.file[i].handle.offset

LEMMA RawBegin ==
  ASSUME NEW r, GoodRep(r), NEW n, LaidUpTo(r.file, n), Len(r.file) # 0
  PROVE  \E o : RawBegins(r, n, o)
<1> DEFINE N == Len(r.file)
           s == RawBlocks(r)
           at(i) == r.file[i].handle.offset
           o == [i \in 1 .. N + 1 |-> IF i = N + 1 THEN n ELSE at(i)]
<1>1. N \in Nat /\ N # 0 /\ N + 1 # 1 /\ N + 1 \in 1 .. N + 1 /\ 1 \in 1 .. N + 1
      /\ r.file \in FileType
      /\ \A i \in 1 .. N : i # N + 1 /\ i \in 1 .. N + 1
  BY GoodRepFacts, RepFacts
<1>2. /\ s \in Seq(Seq(Nat)) /\ Len(s) = N
      /\ \A i \in 1 .. N : s[i] = WriteRawBlock(r.file[i].block) /\ RawOf(r.file[i].block, s[i])
  BY RawBlocksAre
<1>3. ASSUME NEW i \in 1 .. N
      PROVE  /\ at(i) \in Nat /\ r.file[i].handle.size \in Nat
             /\ Len(s[i]) = r.file[i].handle.size + kBlockTrailerSize
             /\ at(i) = IF i = 1 THEN 0
                        ELSE at(i - 1) + r.file[i - 1].handle.size + kBlockTrailerSize
             /\ i = N => n = at(i) + r.file[i].handle.size + kBlockTrailerSize
  <2>1. r.file[i] \in [handle : HandleType, block : BlockType]
    BY <1>1, ElementOfSeq DEF FileType
  <2>2. at(i) \in Nat /\ r.file[i].handle.size \in Nat
    BY <2>1 DEF HandleType
  <2>3. Len(s[i]) = CurrentSizeEstimate(r.file[i].block) + kBlockTrailerSize
    BY <1>2 DEF RawOf
  <2> QED BY <2>2, <2>3 DEF LaidUpTo, LaidOut
<1> HIDE DEF s, N, at, o
<1>4. Begin(o, s)
  <2>1. o[1] = 0
    <3>1. 1 \in 1 .. N
      BY <1>1
    <3> QED BY <1>1, <1>3, <3>1 DEF o
  <2>2. ASSUME NEW i \in 1 .. N PROVE o[i] \in Nat /\ o[i + 1] = o[i] + Len(s[i])
    <3>1. o[i] = at(i)
      BY <1>1 DEF o
    <3>2. CASE i = N
      <4>1. o[i + 1] = n
        BY <1>1, <3>2 DEF o
      <4>2. n = at(i) + r.file[i].handle.size + kBlockTrailerSize
        BY <1>3, <3>2
      <4>3. at(i) \in Nat /\ r.file[i].handle.size \in Nat
            /\ Len(s[i]) = r.file[i].handle.size + kBlockTrailerSize
        BY <1>3
      <4> QED BY <3>1, <4>1, <4>2, <4>3 DEF kBlockTrailerSize
    <3>3. CASE i # N
      <4>1. i + 1 \in 1 .. N /\ i + 1 # N + 1 /\ i + 1 # 1 /\ i + 1 - 1 = i
        BY <1>1, <3>3
      <4>2. o[i + 1] = at(i + 1)
        BY <1>1, <4>1 DEF o
      <4>3. at(i + 1) = at(i) + r.file[i].handle.size + kBlockTrailerSize
        <5>1. at(i + 1) = at(i + 1 - 1) + r.file[i + 1 - 1].handle.size + kBlockTrailerSize
          BY <1>3, <4>1
        <5> QED BY <4>1, <5>1
      <4>4. at(i) \in Nat /\ r.file[i].handle.size \in Nat
            /\ Len(s[i]) = r.file[i].handle.size + kBlockTrailerSize
        BY <1>3
      <4> QED BY <3>1, <4>2, <4>3, <4>4 DEF kBlockTrailerSize
    <3> QED BY <3>2, <3>3
  <2> QED BY <1>2, <2>1, <2>2 DEF Begin
<1>5. o[N + 1] = n /\ \A i \in 1 .. N : o[i] = at(i)
  BY <1>1 DEF o
<1>6. RawBegins(r, n, o)
  BY <1>4, <1>5 DEF RawBegins, s, N, at
<1> QED BY <1>6

(* Where a block's handle says, the file has the bytes that were written.  *)
LEMMA RawBlockAt ==
  ASSUME NEW r, GoodRep(r), NEW n, LaidUpTo(r.file, n), NEW j \in 1 .. Len(r.file)
  PROVE  SubSeq(FileBytes(r), r.file[j].handle.offset + 1,
                r.file[j].handle.offset + r.file[j].handle.size + kBlockTrailerSize)
           = WriteRawBlock(r.file[j].block)
<1> DEFINE N == Len(r.file)
           s == RawBlocks(r)
           a == FlattenSeq(s)
           z == r.footer
           f == FileBytes(r)
           w == s[j]
           at(i) == r.file[i].handle.offset
           size == r.file[j].handle.size
<1>1. N \in Nat /\ N # 0 /\ N + 1 # 1 /\ N + 1 \in 1 .. N + 1 /\ 1 \in 1 .. N + 1
      /\ r.footer \in Seq(Nat) /\ r.file \in FileType
      /\ \A i \in 1 .. N : i # N + 1 /\ i \in 1 .. N + 1
  BY GoodRepFacts, RepFacts
<1>2. /\ s \in Seq(Seq(Nat)) /\ Len(s) = N
      /\ \A i \in 1 .. N : s[i] = WriteRawBlock(r.file[i].block) /\ RawOf(r.file[i].block, s[i])
  BY RawBlocksAre
<1>3. ASSUME NEW i \in 1 .. N
      PROVE  /\ at(i) \in Nat /\ r.file[i].handle.size \in Nat
             /\ Len(s[i]) = r.file[i].handle.size + kBlockTrailerSize
             /\ at(i) = IF i = 1 THEN 0
                        ELSE at(i - 1) + r.file[i - 1].handle.size + kBlockTrailerSize
             /\ i = N => n = at(i) + r.file[i].handle.size + kBlockTrailerSize
  <2>1. r.file[i] \in [handle : HandleType, block : BlockType]
    BY <1>1, ElementOfSeq DEF FileType
  <2>2. at(i) \in Nat /\ r.file[i].handle.size \in Nat
    BY <2>1 DEF HandleType
  <2>3. Len(s[i]) = CurrentSizeEstimate(r.file[i].block) + kBlockTrailerSize
    BY <1>2 DEF RawOf
  <2> QED BY <2>2, <2>3 DEF LaidUpTo, LaidOut
<1> HIDE DEF s, N, a, f, z, at, w, size
<1>4. PICK o : Begin(o, s) /\ \A i \in 1 .. N : o[i] = at(i)
  <2>1. \E o : RawBegins(r, n, o)
    BY <1>1, RawBegin DEF N
  <2> QED BY <2>1 DEF RawBegins, s, N, at
<1>5. j \in 1 .. N
  BY DEF N
<1>6. /\ w \in Seq(Nat) /\ Len(w) = size + kBlockTrailerSize /\ size \in Nat
      /\ w = WriteRawBlock(r.file[j].block)
  BY <1>2, <1>3, <1>5, ElementOfSeq DEF RawOf, w, size
<1>7. a \in Seq(Nat)
  BY <1>2, FlattenType DEF a
<1>8. \A i \in 1 .. Len(w) : at(j) + i \in 1 .. Len(a) /\ a[at(j) + i] = w[i]
  <2>1. \A k \in 1 .. Len(s) : \A i \in 1 .. Len(s[k]) :
          o[k] + i \in 1 .. Len(FlattenSeq(s)) /\ FlattenSeq(s)[o[k] + i] = s[k][i]
    BY <1>2, <1>4, FlattenAt
  <2>2. o[j] = at(j)
    BY <1>4, <1>5
  <2> QED BY <1>2, <1>5, <2>1, <2>2 DEF a, w
<1>9. Joins(a, z, Nat) /\ f = a \o z
  BY <1>1, <1>7, JoinIs, FileBytesIs DEF a, z, f, s
<1>10. \A i \in 1 .. Len(w) : at(j) + i \in 1 .. Len(f) /\ f[at(j) + i] = w[i]
  <2>1. \A i \in 1 .. Len(a) : i \in 1 .. Len(f) /\ f[i] = a[i]
    BY <1>9 DEF Joins
  <2> QED BY <1>8, <2>1
<1>11. f \in Seq(Nat) /\ at(j) \in Nat /\ Len(w) # 0
       /\ at(j) + Len(w) = at(j) + size + kBlockTrailerSize
  <2>1. at(j) \in Nat
    BY <1>3, <1>5
  <2>2. f \in Seq(Nat)
    BY <1>9 DEF Joins
  <2> DEFINE m == Len(w)
             p == at(j)
  <2>3. m = size + 5 /\ size \in Nat /\ p \in Nat
    BY <1>6, <2>1 DEF kBlockTrailerSize
  <2> HIDE DEF m, p
  <2>4. m # 0 /\ p + m = p + size + 5
    BY <2>3
  <2> QED BY <2>1, <2>2, <2>4 DEF kBlockTrailerSize, m, p
<1>12. SubSeq(f, at(j) + 1, at(j) + Len(w)) = w
  BY <1>6, <1>10, <1>11, PartIs
<1>13. SubSeq(f, at(j) + 1, at(j) + size + kBlockTrailerSize) = WriteRawBlock(r.file[j].block)
  BY <1>6, <1>11, <1>12
<1> QED BY <1>13 DEF f, at, size

(* Whatever a read of a block returns, ReadBlock refuses it or returns the *)
(* block that was written.                                                 *)
LEMMA ReadBlockIs ==
  ASSUME NEW b, NEW interval, Good(b, interval), NEW h, h.size = CurrentSizeEstimate(b),
         NEW k \in 0 .. Len(WriteRawBlock(b)),
         ReadBlock(h, SubSeq(WriteRawBlock(b), 1, k)).ok
  PROVE  ReadBlock(h, SubSeq(WriteRawBlock(b), 1, k)).value = BlockFinish(b)
<1> DEFINE w == WriteRawBlock(b)
           c == SubSeq(w, 1, k)
<1>1. /\ w \in Seq(Nat) /\ Len(w) = h.size + kBlockTrailerSize
      /\ SubSeq(w, 1, h.size) = BlockFinish(b)
  BY WriteRawBlockIs DEF RawOf
<1>2. Len(c) = k /\ (k = Len(w) => c = w)
  BY <1>1, FirstPart
<1> HIDE DEF w, c
<1>3. ReadBlock(h, c).ok
  BY DEF c, w
<1>4. Len(c) = h.size + kBlockTrailerSize
      /\ ReadBlock(h, c) = Read(SubSeq(c, 1, h.size), <<>>)
  BY <1>3 DEF ReadBlock, Nothing
<1>5. c = w
  BY <1>1, <1>2, <1>4
<1>6. ReadBlock(h, c).value = BlockFinish(b)
  BY <1>1, <1>4, <1>5 DEF Read
<1> QED BY <1>6 DEF c, w

(* Of a table that lost its end ReadBlock returns a block as it was        *)
(* written, or nothing; Block takes what it returns for a block.           *)
THEOREM CutTableCorrect == Spec => []CutTableIsRefused
<1>1. IInv => CutTableIsRefused
  <2> SUFFICES ASSUME IInv, NEW x \in ToSet(rep_.file),
                      NEW contents \in pread(FileBytes(rep_), x.handle.offset,
                                             x.handle.size + kBlockTrailerSize),
                      ReadBlock(x.handle, contents).ok
               PROVE  /\ ReadBlock(x.handle, contents).value = BlockFinish(x.block)
                      /\ Block(ReadBlock(x.handle, contents).value).size_ # 0
    BY DEF CutTableIsRefused
  <2>1. GoodRep(rep_) /\ Laid(rep_)
    BY DEF IInv
  <2>2. PICK n : LaidUpTo(rep_.file, n)
    BY <2>1 DEF Laid
  <2>3. PICK j \in 1 .. Len(rep_.file) : x = rep_.file[j]
    <3>1. DOMAIN rep_.file = 1 .. Len(rep_.file)
      BY <2>1, GoodRepFacts, RepFacts
    <3> QED BY <3>1 DEF ToSet
  <2> DEFINE w == WriteRawBlock(x.block)
             there == SubSeq(FileBytes(rep_), x.handle.offset + 1,
                             x.handle.offset + (x.handle.size + kBlockTrailerSize))
  <2>4. Good(x.block, block_restart_interval) /\ x.handle \in HandleType
        /\ x.handle.size = CurrentSizeEstimate(x.block)
    <3>1. rep_.file \in FileType
      BY <2>1, GoodRepFacts
    <3>2. x \in [handle : HandleType, block : BlockType]
      BY <2>3, <3>1, ElementOfSeq DEF FileType
    <3> QED BY <2>1, <2>2, <2>3, <3>2, GoodRepFacts DEF LaidUpTo, LaidOut
  <2>5. there = w
    <3>1. SubSeq(FileBytes(rep_), x.handle.offset + 1,
                 x.handle.offset + x.handle.size + kBlockTrailerSize) = w
      BY <2>1, <2>2, <2>3, RawBlockAt
    <3>2. x.handle.offset + x.handle.size + kBlockTrailerSize
            = x.handle.offset + (x.handle.size + kBlockTrailerSize)
      BY <2>4 DEF HandleType, kBlockTrailerSize
    <3> QED BY <3>1, <3>2
  <2>6. contents \in {SubSeq(there, 1, k) : k \in 0 .. Len(there)}
    BY DEF pread
  <2> HIDE DEF there
  <2>7. PICK k \in 0 .. Len(w) : contents = SubSeq(w, 1, k)
    BY <2>5, <2>6
  <2>8. ReadBlock(x.handle, contents).value = BlockFinish(x.block)
    BY <2>4, <2>7, ReadBlockIs
  <2>9. Block(BlockFinish(x.block)).size_ # 0
    BY <2>4, BlockFinishIs, BlockIsOne
  <2> QED BY <2>8, <2>9
<1> QED BY <1>1, TableInductive, PTL
-----------------------------------------------------------------------------
(* What was put first is read first, and what follows it is left.          *)
Gets(r, v, t) == r.ok /\ r.value = v /\ r.rest = t

LEMMA FirstAndRest ==
  ASSUME NEW p \in Seq(Nat), NEW t \in Seq(Nat)
  PROVE  SubSeq(p \o t, 1, Len(p)) = p /\ After(p \o t, Len(p)) = t
<1> DEFINE w == p \o t
<1>1. Joins(p, t, Nat)
  BY JoinIs
<1>2. w \in Seq(Nat) /\ Len(w) = Len(p) + Len(t) /\ Len(p) \in Nat /\ Len(t) \in Nat
  BY <1>1 DEF Joins
<1>3. Splits(w, p, t)
  BY <1>2, CutSelf, CutSplits
<1> HIDE DEF w
<1> DEFINE a == Len(p)
           b == Len(t)
           c == Len(w)
<1>4. a \in Nat /\ b \in Nat /\ c = a + b
  BY <1>2
<1>5. a <= c /\ c - a = b
  <2> HIDE DEF a, b, c
  <2> QED BY <1>4
<1>6. SubSeq(w, 1, Len(p)) = p /\ Cut(After(w, Len(p)), t) /\ Len(After(w, Len(p))) = Len(t)
  BY <1>3, <1>5 DEF Splits
<1>7. After(w, Len(p)) = t
  BY <1>6, CutWhole
<1> QED BY <1>6, <1>7 DEF w

LEMMA VarintRead ==
  ASSUME NEW v, Small(v), NEW limit \in Nat, 5 <= limit, NEW t \in Seq(Nat)
  PROVE  Gets(GetVarint(PutVarint(v) \o t, limit), v, t)
<1> DEFINE p == PutVarint(v)
           w == p \o t
           r == GetVarint(w, limit)
<1>1. p \in Seq(Nat)
  BY VarintBytes
<1>2. Joins(p, t, Nat)
  BY <1>1, JoinIs
<1>3. w \in Seq(Nat) /\ Len(w) = Len(p) + Len(t) /\ Len(p) \in Nat /\ Len(t) \in Nat
  BY <1>2 DEF Joins
<1>4. Parsed(r, v, Len(p), w, t)
  BY <1>3, CutSelf, VarintParsed
<1> HIDE DEF r, p, w
<1> DEFINE a == Len(p)
           b == Len(t)
           c == Len(w)
<1>5. a \in Nat /\ b \in Nat /\ c = a + b
  BY <1>3
<1>6. ~ (c < a) /\ c - a = b
  <2> HIDE DEF a, b, c
  <2> QED BY <1>5
<1>7. r.ok /\ r.value = v /\ Cut(r.rest, t) /\ Len(r.rest) = Len(t)
  BY <1>4, <1>6 DEF Parsed
<1>8. r.rest = t
  BY <1>7, CutWhole
<1>9. Gets(r, v, t)
  BY <1>7, <1>8 DEF Gets
<1> QED BY <1>9 DEF r, w, p

(* One entry, with a prefix of the key before.                             *)
SmallEntry(e) == Small(e.shared) /\ Small(Len(e.delta)) /\ Small(Len(e.value))

KeyOf(e, key) == SubSeq(key, 1, e.shared) \o e.delta

AfterEntry(s, e, t) ==
  [key |-> KeyOf(e, s.key),
   entries |-> Append(s.entries, [key |-> KeyOf(e, s.key), value |-> e.value]),
   rest |-> t]

LEMMA EntryIsParts ==
  ASSUME NEW e \in EntryType, NEW t \in Seq(Nat)
  PROVE  EntryBytes(e) \o t =
           PutVarint(e.shared) \o (PutVarint(Len(e.delta)) \o (PutVarint(Len(e.value))
             \o (e.delta \o (e.value \o t))))
<1> DEFINE a == PutVarint(e.shared)
           b == PutVarint(Len(e.delta))
           c == PutVarint(Len(e.value))
           d == e.delta
           v == e.value
<1>1. e.shared \in Nat /\ d \in Seq(Nat) /\ v \in Seq(Nat) /\ Len(d) \in Nat /\ Len(v) \in Nat
  BY BytesAreNat, LenProperties DEF EntryType
<1>2. a \in Seq(Nat) /\ b \in Seq(Nat) /\ c \in Seq(Nat)
  BY <1>1, PutVarintType
<1>3. EntryBytes(e) = (((a \o b) \o c) \o d) \o v
  BY DEF EntryBytes
<1> HIDE DEF a, b, c, d, v
<1>4. /\ a \o b \in Seq(Nat) /\ (a \o b) \o c \in Seq(Nat)
      /\ ((a \o b) \o c) \o d \in Seq(Nat)
      /\ v \o t \in Seq(Nat) /\ d \o (v \o t) \in Seq(Nat) /\ c \o (d \o (v \o t)) \in Seq(Nat)
  BY <1>1, <1>2, ConcatProperties
<1>5. Assoc(((a \o b) \o c) \o d, v, t)
  BY <1>1, <1>4, AssocIs
<1>6. Assoc((a \o b) \o c, d, v \o t)
  BY <1>1, <1>4, AssocIs
<1>7. Assoc(a \o b, c, d \o (v \o t))
  BY <1>2, <1>4, AssocIs
<1>8. Assoc(a, b, c \o (d \o (v \o t)))
  BY <1>2, <1>4, AssocIs
<1>9. EntryBytes(e) \o t = a \o (b \o (c \o (d \o (v \o t))))
  BY <1>3, <1>5, <1>6, <1>7, <1>8 DEF Assoc
<1> QED BY <1>9 DEF a, b, c, d, v

LEMMA EntryRead ==
  ASSUME NEW e \in EntryType, SmallEntry(e), NEW t \in Seq(Nat), NEW s,
         s.rest = EntryBytes(e) \o t
  PROVE  NextEntry(s) = AfterEntry(s, e, t)
<1> DEFINE d == e.delta
           v == e.value
           t5 == v \o t
           t4 == d \o t5
           t3 == PutVarint(Len(v)) \o t4
           t2 == PutVarint(Len(d)) \o t3
           t1 == PutVarint(e.shared) \o t2
<1>1. /\ Small(e.shared) /\ Small(Len(d)) /\ Small(Len(v))
      /\ d \in Seq(Nat) /\ v \in Seq(Nat)
  BY BytesAreNat DEF EntryType, SmallEntry
<1>2. PutVarint(Len(v)) \in Seq(Nat) /\ PutVarint(Len(d)) \in Seq(Nat)
      /\ PutVarint(e.shared) \in Seq(Nat) /\ Len(PutVarint(e.shared)) \in 1 .. 5
  BY <1>1, VarintBytes
<1>3. s.rest = t1
  BY EntryIsParts
<1> HIDE DEF d, v
<1>4. t5 \in Seq(Nat)
  BY <1>1, ConcatProperties
<1> HIDE DEF t5
<1>5. t4 \in Seq(Nat)
  BY <1>1, <1>4, ConcatProperties
<1> HIDE DEF t4
<1>6. t3 \in Seq(Nat)
  BY <1>2, <1>5, ConcatProperties
<1> HIDE DEF t3
<1>7. t2 \in Seq(Nat)
  BY <1>2, <1>6, ConcatProperties
<1> HIDE DEF t2
<1>8. s.rest # <<>>
  <2> DEFINE p == PutVarint(e.shared)
  <2>1. Joins(p, t2, Nat) /\ Len(p) \in 1 .. 5
    BY <1>2, <1>7, JoinIs
  <2> HIDE DEF p
  <2>2. Len(p \o t2) # 0
    <3> DEFINE l == Len(p \o t2)
               m == Len(p)
               k == Len(t2)
    <3>1. l = m + k /\ m \in 1 .. 5 /\ k \in Nat
      BY <2>1 DEF Joins
    <3> HIDE DEF l, m, k
    <3>2. l # 0
      BY <3>1
    <3> QED BY <3>2 DEF l
  <2>3. p \o t2 # <<>>
    BY <2>2
  <2> QED BY <1>3, <2>3 DEF p
<1> DEFINE shared == GetVarint32(s.rest)
           non_shared == GetVarint32(shared.rest)
           value_size == GetVarint32(non_shared.rest)
           after == After(value_size.rest, non_shared.value)
<1>9. Gets(shared, e.shared, t2)
  <2>1. 5 \in Nat /\ 5 <= 5
    OBVIOUS
  <2> QED BY <1>1, <1>3, <1>7, <2>1, VarintRead DEF GetVarint32
<1>10. shared.value = e.shared /\ shared.rest = t2
  <2> HIDE DEF shared
  <2> QED BY <1>9 DEF Gets
<1>11. Gets(non_shared, Len(d), t3)
  <2>1. 5 \in Nat /\ 5 <= 5
    OBVIOUS
  <2> HIDE DEF shared
  <2> QED BY <1>1, <1>6, <1>10, <2>1, VarintRead DEF GetVarint32, t2
<1>12. non_shared.value = Len(d) /\ non_shared.rest = t3
  <2> HIDE DEF non_shared
  <2> QED BY <1>11 DEF Gets
<1>13. Gets(value_size, Len(v), t4)
  <2>1. 5 \in Nat /\ 5 <= 5
    OBVIOUS
  <2> HIDE DEF non_shared
  <2> QED BY <1>1, <1>5, <1>12, <2>1, VarintRead DEF GetVarint32, t3
<1>14. value_size.value = Len(v) /\ value_size.rest = t4
  <2> HIDE DEF value_size
  <2> QED BY <1>13 DEF Gets
<1>15. NextEntry(s) =
         [key |-> SubSeq(s.key, 1, shared.value) \o SubSeq(value_size.rest, 1, non_shared.value),
          entries |-> Append(s.entries,
            [key |-> SubSeq(s.key, 1, shared.value)
                       \o SubSeq(value_size.rest, 1, non_shared.value),
             value |-> SubSeq(after, 1, value_size.value)]),
          rest |-> After(after, value_size.value)]
  BY <1>8 DEF NextEntry
<1> HIDE DEF shared, non_shared, value_size
<1>16. SubSeq(value_size.rest, 1, non_shared.value) = d /\ after = t5
  BY <1>1, <1>4, <1>12, <1>14, FirstAndRest DEF t4
<1> HIDE DEF after
<1>17. SubSeq(after, 1, value_size.value) = v /\ After(after, value_size.value) = t
  BY <1>1, <1>14, <1>16, FirstAndRest DEF t5
<1> QED BY <1>10, <1>15, <1>16, <1>17 DEF AfterEntry, KeyOf, d, v

-----------------------------------------------------------------------------
(* The entries of a block, one after the other.                            *)
LEMMA EntryFits ==
  ASSUME NEW b, NEW interval, Good(b, interval), Small(Len(b.buffer)),
         NEW i \in 1 .. Len(b.entries)
  PROVE  SmallEntry(b.entries[i])
<1> DEFINE f == Coded(b)
           e == b.entries[i]
           n == Len(b.buffer)
           x == EntryBytes(e)
<1>1. b \in BlockType /\ b.buffer = FlattenSeq(f) /\ e.shared <= n
  BY GoodFacts DEF Good, BytesKnown
<1>2. f \in Seq(Seq(Nat)) /\ Len(f) = Len(b.entries) /\ e \in EntryType /\ f[i] = x
  BY <1>1, CodedType
<1>3. /\ Len(x) \in Nat /\ Len(e.delta) \in Nat /\ Len(e.value) \in Nat
      /\ Len(x) >= Len(e.delta) + Len(e.value) + 3
  BY <1>2, EntryBytesLong
<1>4. PICK o : Begin(o, f)
  BY <1>2, BeginExists
<1>5. o[i] \in Nat
  BY <1>2, <1>4 DEF Begin
<1>6. ASSUME NEW k \in 1 .. Len(x) PROVE o[i] + k \in 1 .. n
  BY <1>1, <1>2, <1>4, FlattenAt
<1>7. e.shared \in Nat
  BY <1>2 DEF EntryType
<1> DEFINE l == Len(x)
           d == Len(e.delta)
           v == Len(e.value)
           a == o[i]
           c == e.shared
<1>8. /\ l \in Nat /\ d \in Nat /\ v \in Nat /\ l >= d + v + 3 /\ a \in Nat /\ c \in Nat
      /\ c <= n /\ Small(n)
  BY <1>1, <1>3, <1>5, <1>7
<1>9. \A k \in 1 .. l : a + k \in 1 .. n
  BY <1>6
<1> HIDE DEF l, d, v, a, c, n
<1>10. l \in 1 .. l
  BY <1>8
<1>11. a + l \in 1 .. n
  BY <1>9, <1>10
<1>12. Small(d) /\ Small(v) /\ Small(c)
  BY <1>8, <1>11 DEF Small
<1> QED BY <1>12 DEF SmallEntry, d, v, c

LEMMA ManyBytes ==
  ASSUME NEW b, NEW interval, Good(b, interval)
  PROVE  Len(b.buffer) \in Nat /\ 3 * Len(b.entries) <= Len(b.buffer)
<1> DEFINE f == Coded(b)
           n == Len(b.entries)
<1>1. b \in BlockType /\ b.buffer = FlattenSeq(f)
  BY GoodFacts DEF Good, BytesKnown
<1>2. /\ f \in Seq(Seq(Nat)) /\ Len(f) = n /\ n \in Nat
      /\ \A i \in 1 .. n : b.entries[i] \in EntryType /\ f[i] = EntryBytes(b.entries[i])
  BY <1>1, CodedType
<1>3. PICK o : Begin(o, f)
  BY <1>2, BeginExists
<1>4. Len(b.buffer) = o[n + 1]
  BY <1>1, <1>2, <1>3, FlattenAt
<1> HIDE DEF n
<1>5. o[1] = 0 /\ \A i \in 1 .. n : o[i] \in Nat /\ o[i + 1] = o[i] + Len(f[i])
  BY <1>2, <1>3 DEF Begin
<1> DEFINE D == {i \in 0 .. n : o[i + 1] \in Nat /\ 3 * i <= o[i + 1]}
<1>6. ASSUME NEW i \in 1 .. n, i - 1 \in D PROVE i \in D
  <2> DEFINE e == b.entries[i]
             l == Len(f[i])
             a == o[i]
             z == o[i + 1]
             d == Len(e.delta)
             v == Len(e.value)
  <2>1. l \in Nat /\ d \in Nat /\ v \in Nat /\ l >= d + v + 3
    BY <1>2, EntryBytesLong
  <2>2. i - 1 + 1 = i /\ i \in Nat /\ i \in 0 .. n
    BY <1>2
  <2>3. a \in Nat /\ 3 * (i - 1) <= a /\ z = a + l
    BY <1>5, <1>6, <2>2
  <2> HIDE DEF l, a, z, d, v
  <2>4. z \in Nat /\ 3 * i <= z
    BY <2>1, <2>2, <2>3
  <2> QED BY <2>2, <2>4 DEF z
<1>7. 0 \in D
  <2>1. 0 + 1 = 1 /\ 3 * 0 = 0 /\ 0 \in 0 .. n
    BY <1>2
  <2> QED BY <1>5, <2>1
<1>8. n \in D
  <2>1. n \in 0 .. n
    BY <1>2
  <2> HIDE DEF D
  <2> QED BY <1>2, <1>6, <1>7, <2>1, Reaches
<1> QED BY <1>4, <1>8 DEF n

(* What a reader that walks has after i entries of b, o being where they   *)
(* begin.                                                                  *)
ReadType == [key : Bytes, value : Seq(Nat)]
ReadEntry(b, k) == [key |-> BlockKeys(b)[k], value |-> b.entries[k].value]
ReadUpTo(b, i) == [k \in 1 .. i |-> ReadEntry(b, k)]
StateAt(b, o, i) ==
  [key |-> IF i = 0 THEN <<>> ELSE BlockKeys(b)[i], entries |-> ReadUpTo(b, i),
   rest |-> After(b.buffer, o[i + 1])]

LEMMA ReadEntryType ==
  ASSUME NEW b, NEW interval, Good(b, interval), NEW k \in 1 .. Len(b.entries)
  PROVE  ReadEntry(b, k) \in ReadType
<1>1. b \in BlockType /\ BlockKeys(b)[k] \in Bytes
  BY GoodFacts
<1>2. b.entries[k] \in EntryType
  BY <1>1, CodedType
<1> QED BY <1>1, <1>2 DEF ReadEntry, ReadType, EntryType

LEMMA ReadUpToIs ==
  ASSUME NEW b, NEW interval, Good(b, interval), NEW i \in 0 .. Len(b.entries)
  PROVE  /\ ReadUpTo(b, i) \in Seq(ReadType) /\ Len(ReadUpTo(b, i)) = i
         /\ \A k \in 1 .. i : ReadUpTo(b, i)[k] = ReadEntry(b, k)
<1>1. Len(b.entries) \in Nat
  BY GoodFacts
<1>2. ASSUME NEW k \in 1 .. i PROVE ReadEntry(b, k) \in ReadType
  <2>1. k \in 1 .. Len(b.entries)
    BY <1>1
  <2> QED BY <2>1, ReadEntryType
<1>3. ReadUpTo(b, i) = [k \in 1 .. i |-> ReadEntry(b, k)]
  BY DEF ReadUpTo
<1>4. i \in Nat
  BY <1>1
<1> HIDE DEF ReadType
<1> QED BY <1>2, <1>3, <1>4

LEMMA ReadOneMore ==
  ASSUME NEW b, NEW interval, Good(b, interval), NEW i \in 1 .. Len(b.entries)
  PROVE  Append(ReadUpTo(b, i - 1), ReadEntry(b, i)) = ReadUpTo(b, i)
<1> DEFINE s == ReadUpTo(b, i - 1)
           x == ReadEntry(b, i)
           t == ReadUpTo(b, i)
           T == ReadType
<1>1. Len(b.entries) \in Nat
  BY GoodFacts
<1>2. i - 1 \in 0 .. Len(b.entries) /\ i \in 0 .. Len(b.entries) /\ i \in Nat
  BY <1>1
<1>3. s \in Seq(T) /\ Len(s) = i - 1 /\ \A k \in 1 .. i - 1 : s[k] = ReadEntry(b, k)
  BY <1>2, ReadUpToIs
<1>4. t \in Seq(T) /\ Len(t) = i /\ \A k \in 1 .. i : t[k] = ReadEntry(b, k)
  BY <1>2, ReadUpToIs
<1>5. x \in T
  BY ReadEntryType
<1> HIDE DEF s, t, T
<1> DEFINE u == Append(s, x)
<1>6. /\ u \in Seq(T) /\ Len(u) = i - 1 + 1
      /\ (\A k \in 1 .. i - 1 : u[k] = s[k]) /\ u[i - 1 + 1] = x
  BY <1>3, <1>5, AppendFacts
<1> HIDE DEF u
<1>7. i - 1 + 1 = i
  BY <1>2
<1>8. ASSUME NEW k \in 1 .. i PROVE u[k] = t[k]
  <2>1. k \in 1 .. i - 1 \/ k = i
    BY <1>2
  <2>2. CASE k \in 1 .. i - 1
    BY <1>3, <1>4, <1>6, <2>2
  <2>3. CASE k = i
    BY <1>4, <1>6, <1>7, <2>3
  <2> QED BY <2>1, <2>2, <2>3
<1>9. u = t
  BY <1>4, <1>6, <1>7, <1>8, SeqEqual
<1> QED BY <1>9 DEF u, s, t

Begins(b, o) ==
  /\ Begin(o, Coded(b)) /\ Tails(b.buffer, o, Coded(b))
  /\ \A i \in 1 .. Len(b.entries) : Coded(b)[i] = EntryBytes(b.entries[i])
  /\ Len(Coded(b)) = Len(b.entries)

LEMMA BeginsExist ==
  ASSUME NEW b, NEW interval, Good(b, interval)
  PROVE  \E o : Begins(b, o)
<1> DEFINE f == Coded(b)
           n == Len(b.entries)
<1>1. b \in BlockType /\ b.buffer = FlattenSeq(f)
  BY GoodFacts DEF Good, BytesKnown
<1>2. /\ f \in Seq(Seq(Nat)) /\ Len(f) = n /\ n \in Nat
      /\ \A i \in 1 .. n : b.entries[i] \in EntryType /\ f[i] = EntryBytes(b.entries[i])
  BY <1>1, CodedType
<1>3. PICK o : Begin(o, f)
  BY <1>2, BeginExists
<1>4. ASSUME NEW i \in 1 .. Len(f) PROVE Len(f[i]) # 0
  <2> DEFINE e == b.entries[i]
             l == Len(f[i])
             d == Len(e.delta)
             v == Len(e.value)
  <2>1. l \in Nat /\ d \in Nat /\ v \in Nat /\ l >= d + v + 3
    BY <1>2, EntryBytesLong
  <2> HIDE DEF l, d, v
  <2>2. l # 0
    BY <2>1
  <2> QED BY <2>2 DEF l
<1>5. Tails(FlattenSeq(f), o, f)
  <2> HIDE DEF f
  <2> QED BY <1>2, <1>3, <1>4, FlattenTails
<1> QED BY <1>1, <1>2, <1>3, <1>5 DEF Begins

LEMMA StepRead ==
  ASSUME NEW b, NEW interval, Good(b, interval), Small(Len(b.buffer)),
         NEW o, Begins(b, o), NEW i \in 1 .. Len(b.entries)
  PROVE  NextEntry(StateAt(b, o, i - 1)) = StateAt(b, o, i)
<1> DEFINE s == StateAt(b, o, i - 1)
           e == b.entries[i]
           t == After(b.buffer, o[i + 1])
           n == Len(b.entries)
           last == IF i = 1 THEN <<>> ELSE BlockKeys(b)[i - 1]
<1>1. b \in BlockType /\ n \in Nat /\ DOMAIN b.entries = 1 .. n /\ b.entries # <<>>
  BY GoodFacts
<1>2. e \in EntryType /\ SmallEntry(e)
  BY <1>1, CodedType, EntryFits
<1>3. i - 1 + 1 = i /\ (i - 1 = 0 <=> i = 1) /\ i # 0
  BY <1>1
<1>4. After(b.buffer, o[i]) = EntryBytes(e) \o t /\ t \in Seq(Nat)
  BY DEF Begins, Tails
<1>5. /\ s.key = last /\ s.entries = ReadUpTo(b, i - 1)
      /\ s.rest = EntryBytes(e) \o t
  BY <1>3, <1>4 DEF StateAt
<1>6. KeyOf(e, last) = BlockKeys(b)[i]
  <2>1. BlockKeys(b)[i] = (IF i = 1 THEN <<>> ELSE SubSeq(BlockKeys(b)[i - 1], 1, e.shared))
                             \o e.delta
    <3>1. Spells(BlockKeys(b), b)
      BY DEF Good, KeysKnown
    <3> QED BY <1>1, <3>1 DEF Spells
  <2>2. CASE i = 1
    <3>1. e.shared = 0
      <4>1. b.restarts # <<>> /\ b.restarts[1] = 0 /\ b.restarts \in Seq(Nat)
        BY <1>1 DEF Good, RestartsKnown, BlockType
      <4>2. 1 \in 1 .. Len(b.restarts)
        <5>1. Len(b.restarts) \in Nat /\ Len(b.restarts) # 0
          BY <4>1, SeqFacts
        <5> QED BY <5>1
      <4>3. b.entries[b.restarts[1] + 1].shared = 0
        BY <1>1, <4>2 DEF Good, RestartsKnown
      <4> QED BY <2>2, <4>1, <4>3
    <3>2. SubSeq(<<>>, 1, 0) = <<>>
      OBVIOUS
    <3> QED BY <2>1, <2>2, <3>1, <3>2 DEF KeyOf
  <2>3. CASE i # 1
    BY <2>1, <2>3 DEF KeyOf
  <2> QED BY <2>2, <2>3
<1> HIDE DEF s, e, t, last
<1>7. NextEntry(s) = AfterEntry(s, e, t)
  BY <1>2, <1>4, <1>5, EntryRead
<1>8. AfterEntry(s, e, t) =
        [key |-> BlockKeys(b)[i],
         entries |-> Append(ReadUpTo(b, i - 1), [key |-> BlockKeys(b)[i], value |-> e.value]),
         rest |-> t]
  BY <1>5, <1>6 DEF AfterEntry
<1>9. Append(ReadUpTo(b, i - 1), ReadEntry(b, i)) = ReadUpTo(b, i)
  BY ReadOneMore
<1>10. AfterEntry(s, e, t) = StateAt(b, o, i)
  BY <1>3, <1>8, <1>9 DEF StateAt, ReadEntry, e, t
<1> QED BY <1>7, <1>10 DEF s

(* The recursion of EntriesOf.                                             *)
Walks(f, d, n) ==
  f = [i \in 0 .. n |-> IF i = 0 THEN [key |-> <<>>, entries |-> <<>>, rest |-> d]
                        ELSE NextEntry(f[i - 1])]

LEMMA EntriesAreChosen ==
  ASSUME NEW x, NEW d, d = SubSeq(x.data_, 1, x.restart_offset_)
  PROVE  EntriesOf(x) = (CHOOSE f : Walks(f, d, Len(d) \div 3))[Len(d) \div 3].entries
  BY DEF EntriesOf, Walks

LEMMA WalksUnique ==
  ASSUME NEW n \in Nat, NEW d, NEW f, NEW g, Walks(f, d, n), Walks(g, d, n)
  PROVE  f = g
<1> DEFINE Start == [key |-> <<>>, entries |-> <<>>, rest |-> d]
           D == {i \in 0 .. n : f[i] = g[i]}
<1>1. /\ \A i \in 0 .. n : f[i] = IF i = 0 THEN Start ELSE NextEntry(f[i - 1])
      /\ \A i \in 0 .. n : g[i] = IF i = 0 THEN Start ELSE NextEntry(g[i - 1])
      /\ f = [i \in 0 .. n |-> f[i]] /\ g = [i \in 0 .. n |-> g[i]]
  BY DEF Walks
<1> HIDE DEF Start
<1>2. 0 \in D
  <2>1. 0 \in 0 .. n
    OBVIOUS
  <2> QED BY <1>1, <2>1
<1>3. ASSUME NEW i \in 1 .. n, i - 1 \in D PROVE i \in D
  <2>1. i \in 0 .. n /\ i # 0 /\ f[i - 1] = g[i - 1]
    BY <1>3
  <2>2. f[i] = NextEntry(f[i - 1]) /\ g[i] = NextEntry(g[i - 1])
    BY <1>1, <2>1
  <2>3. f[i] = g[i]
    BY <2>1, <2>2
  <2> QED BY <2>1, <2>3
<1>4. \A i \in 0 .. n : i \in D
  <2> HIDE DEF D
  <2> QED BY <1>2, <1>3, Reaches
<1>5. \A i \in 0 .. n : f[i] = g[i]
  BY <1>4
<1> QED BY <1>1, <1>5

LEMMA BufferRead ==
  ASSUME NEW b, NEW interval, Good(b, interval), Small(Len(b.buffer)),
         NEW x, SubSeq(x.data_, 1, x.restart_offset_) = b.buffer
  PROVE  EntriesOf(x) = ReadUpTo(b, Len(b.entries))
<1> DEFINE d == b.buffer
           n == Len(d) \div 3
           m == Len(b.entries)
           Start == [key |-> <<>>, entries |-> <<>>, rest |-> d]
<1>1. m \in Nat /\ Len(d) \in Nat /\ 3 * m <= Len(d)
  BY ManyBytes, GoodFacts
<1>2. n \in Nat /\ m <= n
  <2> DEFINE l == Len(d)
  <2>1. l \in Nat /\ 3 * m <= l /\ n = l \div 3
    BY <1>1
  <2> HIDE DEF l, n, m
  <2> QED BY <1>1, <2>1
<1>3. PICK o : Begins(b, o)
  BY BeginsExist
<1> DEFINE At(i) == StateAt(b, o, i)
           g == [i \in 0 .. n |-> At(IF i <= m THEN i ELSE m)]
<1>4. \A i \in 1 .. m : NextEntry(At(i - 1)) = At(i)
  BY <1>3, StepRead
<1>5. At(0) = Start
  <2>1. After(d, o[1]) = d
    BY <1>3 DEF Begins, Tails
  <2>2. ReadUpTo(b, 0) = <<>>
    <3>1. 0 \in 0 .. m
      BY <1>1
    <3>2. ReadUpTo(b, 0) \in Seq(ReadType) /\ Len(ReadUpTo(b, 0)) = 0
      BY <3>1, ReadUpToIs
    <3> QED BY <3>2, EmptySeq
  <2>3. 0 + 1 = 1
    OBVIOUS
  <2> QED BY <2>1, <2>2, <2>3 DEF StateAt
<1>6. NextEntry(At(m)) = At(m)
  <2>1. At(m).rest = <<>>
    BY <1>3 DEF StateAt, Begins, Tails
  <2> HIDE DEF At
  <2> QED BY <2>1 DEF NextEntry
<1> HIDE DEF At, Start, m, n, d
<1>7. \A i \in 0 .. n : g[i] = At(IF i <= m THEN i ELSE m)
  OBVIOUS
<1>8. g = [i \in 0 .. n |-> g[i]]
  OBVIOUS
<1> HIDE DEF g
<1>9. ASSUME NEW i \in 0 .. n
      PROVE  g[i] = IF i = 0 THEN Start ELSE NextEntry(g[i - 1])
  <2>1. CASE i = 0
    BY <1>1, <1>5, <1>7, <2>1
  <2>2. CASE i # 0 /\ i <= m
    <3>1. i \in 1 .. m /\ i - 1 \in 0 .. n /\ i - 1 <= m
      BY <1>1, <1>2, <2>2
    <3>2. g[i] = At(i) /\ g[i - 1] = At(i - 1)
      BY <1>7, <2>2, <3>1
    <3> QED BY <1>4, <2>2, <3>1, <3>2
  <2>3. CASE i # 0 /\ ~ (i <= m)
    <3>1. i - 1 \in 0 .. n /\ (i - 1 <= m => i - 1 = m)
      BY <1>1, <1>2, <2>3
    <3>2. g[i] = At(m) /\ g[i - 1] = At(m)
      BY <1>7, <2>3, <3>1
    <3> QED BY <1>6, <2>3, <3>2
  <2> QED BY <2>1, <2>2, <2>3
<1>10. Walks(g, d, n)
  <2> DEFINE y == [i \in 0 .. n |-> IF i = 0 THEN Start ELSE NextEntry(g[i - 1])]
  <2>1. \A i \in 0 .. n : y[i] = IF i = 0 THEN Start ELSE NextEntry(g[i - 1])
    OBVIOUS
  <2>2. y = [i \in 0 .. n |-> y[i]]
    OBVIOUS
  <2> HIDE DEF y
  <2>3. g = y
    BY <1>8, <1>9, <2>1, <2>2
  <2> QED BY <2>3 DEF y, Walks, Start
<1>11. (CHOOSE f : Walks(f, d, n)) = g
  BY <1>2, <1>10, WalksUnique
<1>12. EntriesOf(x) = g[n].entries
  <2>1. EntriesOf(x) = (CHOOSE f : Walks(f, d, Len(d) \div 3))[Len(d) \div 3].entries
    BY EntriesAreChosen DEF d
  <2> QED BY <1>11, <2>1 DEF n
<1>13. g[n] = At(m)
  <2>1. n \in 0 .. n /\ (n <= m => n = m)
    BY <1>1, <1>2
  <2> QED BY <1>7, <2>1
<1>14. At(m).entries = ReadUpTo(b, m)
  BY DEF At, StateAt
<1> QED BY <1>12, <1>13, <1>14 DEF m

(* A whole block, from its bytes and from its place in the file.           *)
LEMMA BlockRead ==
  ASSUME NEW b, NEW interval, Good(b, interval), Small(Len(BlockFinish(b)))
  PROVE  EntriesOf(Block(BlockFinish(b))) = ReadUpTo(b, Len(b.entries))
<1> DEFINE d == BlockFinish(b)
           x == b.buffer
           y == RestartBytes(b)
           z == EncodeFixed(Len(b.restarts), 4)
           m == Len(b.restarts)
           k == Len(x)
           n == Len(d)
           r == NumRestarts(d)
<1>1. Finishes(b, d)
  BY BlockFinishIs
<1>2. x \in Seq(Nat) /\ k \in Nat /\ y \in Seq(Nat) /\ z \in Seq(Nat)
  <2>1. x \in Seq(Nat) /\ k \in Nat
    BY LenProperties DEF Good, BlockType
  <2>2. m \in Nat
    BY <1>1 DEF Finishes
  <2>3. FourBytes(z, m)
    BY <2>2, FixedFourIs
  <2> HIDE DEF z, x, y, m
  <2>4. z \in Seq(Nat)
    BY <2>3 DEF FourBytes
  <2> QED BY <2>1, <2>4, RestartBytesAre DEF y
<1>3. SubSeq(d, 1, k) = x
  <2>1. d = (x \o y) \o z
    BY FinishIsParts
  <2> HIDE DEF d, x, y, z, k
  <2>2. Assoc(x, y, z)
    BY <1>2, AssocIs
  <2>3. y \o z \in Seq(Nat)
    BY <1>2, ConcatProperties
  <2> DEFINE t == y \o z
  <2>4. t \in Seq(Nat) /\ d = x \o t
    BY <2>1, <2>2, <2>3 DEF Assoc
  <2> HIDE DEF t
  <2>5. SubSeq(x \o t, 1, Len(x)) = x
    BY <1>2, <2>4, FirstAndRest
  <2> QED BY <2>4, <2>5 DEF k
<1>4. /\ n \in Nat /\ n >= 4 /\ n - 4 >= 4 * m /\ m \in Nat /\ n = k + 4 * m + 4
      /\ r = DecodeFixed(EncodeFixed(m, 4)) /\ Small(n)
  BY <1>1 DEF Finishes, CurrentSizeEstimate, NumRestarts
<1> HIDE DEF n, k, m, r, d, x
<1>5. Small(m)
  BY <1>4 DEF Small
<1>6. r = m
  BY <1>4, <1>5, FixedFourDecoded
<1>7. ~ (n < 4 \/ r > (n - 4) \div 4) /\ n - (1 + r) * 4 = k
  <2>1. m <= (n - 4) \div 4
    BY <1>4
  <2> QED BY <1>2, <1>4, <1>6, <2>1
<1>8. Block(d) = [data_ |-> d, size_ |-> n, restart_offset_ |-> n - (1 + r) * 4]
  BY <1>7 DEF Block, n, r
<1>9. Block(d).data_ = d /\ Block(d).restart_offset_ = k
  BY <1>7, <1>8
<1>10. Small(k)
  BY <1>2, <1>4 DEF Small
<1>11. Small(Len(b.buffer)) /\ SubSeq(Block(d).data_, 1, Block(d).restart_offset_) = b.buffer
  BY <1>3, <1>9, <1>10 DEF k, x
<1>12. EntriesOf(Block(d)) = ReadUpTo(b, Len(b.entries))
  BY <1>11, BufferRead
<1> QED BY <1>12 DEF d

LEMMA RawHasType ==
  ASSUME NEW b, NEW interval, Good(b, interval)
  PROVE  WriteRawBlock(b)[CurrentSizeEstimate(b) + 1] = kNoCompression
<1> DEFINE d == BlockFinish(b)
           s == <<kNoCompression>>
           z == EncodeFixed(0, 4)
           n == CurrentSizeEstimate(b)
<1>1. d \in Seq(Nat) /\ Len(d) = n /\ n \in Nat
  <2>1. Finishes(b, d)
    BY BlockFinishIs
  <2> HIDE DEF d, n
  <2> QED BY <2>1 DEF Finishes, n
<1>2. s \in Seq(Nat) /\ Len(s) = 1 /\ s[1] = kNoCompression
  BY DEF kNoCompression
<1>3. z \in Seq(Nat)
  <2>1. FourBytes(z, 0)
    BY FixedFourIs
  <2> HIDE DEF z
  <2> QED BY <2>1 DEF FourBytes
<1>4. WriteRawBlock(b) = (d \o s) \o z
  BY DEF WriteRawBlock
<1> HIDE DEF d, s, z, n
<1> DEFINE w == d \o s
<1>5. Joins(d, s, Nat)
  BY <1>1, <1>2, JoinIs
<1>6. w \in Seq(Nat) /\ Len(w) = n + 1 /\ w[n + 1] = kNoCompression
  BY <1>1, <1>2, <1>5 DEF Joins
<1> HIDE DEF w
<1>7. Joins(w, z, Nat)
  BY <1>3, <1>6, JoinIs
<1>8. n + 1 \in 1 .. Len(w)
  BY <1>1, <1>6
<1>9. (w \o z)[n + 1] = w[n + 1]
  BY <1>7, <1>8 DEF Joins
<1> QED BY <1>4, <1>6, <1>9 DEF w, n

LEMMA EntriesFound ==
  ASSUME NEW r, GoodRep(r), NEW n, LaidUpTo(r.file, n), NEW j \in 1 .. Len(r.file),
         NEW interval, Good(r.file[j].block, interval), Small(r.file[j].handle.size)
  PROVE  EntriesAt(FileBytes(r), r.file[j].handle) =
           ReadUpTo(r.file[j].block, Len(r.file[j].block.entries))
<1> DEFINE h == r.file[j].handle
           b == r.file[j].block
           w == WriteRawBlock(b)
           m == CurrentSizeEstimate(b)
<1>1. SubSeq(FileBytes(r), h.offset + 1, h.offset + h.size + kBlockTrailerSize) = w
  BY RawBlockAt
<1>2. h.size = m
  BY DEF LaidUpTo, LaidOut
<1>3. RawOf(b, w)
  BY WriteRawBlockIs
<1>4. w[m + 1] = kNoCompression
  BY RawHasType
<1>5. Len(w) = m + kBlockTrailerSize /\ SubSeq(w, 1, m) = BlockFinish(b)
  BY <1>3 DEF RawOf
<1>6. ReadBlock(h, w) = Read(BlockFinish(b), <<>>)
  <2> HIDE DEF h, w, m, b
  <2> QED BY <1>2, <1>4, <1>5 DEF ReadBlock
<1>7. ReadBlock(h, w).value = BlockFinish(b)
  BY <1>6 DEF Read
<1>8. EntriesAt(FileBytes(r), h) = EntriesOf(Block(BlockFinish(b)))
  BY <1>1, <1>7 DEF EntriesAt
<1>9. Small(Len(BlockFinish(b)))
  <2>1. Finishes(b, BlockFinish(b))
    BY BlockFinishIs
  <2> HIDE DEF b, h, m
  <2>2. Len(BlockFinish(b)) = m
    BY <2>1 DEF Finishes, m
  <2> QED BY <1>2, <2>2 DEF h
<1> QED BY <1>8, <1>9, BlockRead

-----------------------------------------------------------------------------
(* Handles and the footer.                                                 *)
SmallHandle(h) == h \in HandleType /\ Small(h.offset) /\ Small(h.size)

LEMMA HandleBytes ==
  ASSUME NEW h, SmallHandle(h)
  PROVE  EncodeHandle(h) \in Seq(Nat) /\ Len(EncodeHandle(h)) \in 2 .. 10
<1> DEFINE p == PutVarint(h.offset)
           q == PutVarint(h.size)
<1>1. /\ p \in Seq(Nat) /\ q \in Seq(Nat) /\ Len(p) \in 1 .. 5 /\ Len(q) \in 1 .. 5
  BY VarintBytes DEF SmallHandle
<1>2. EncodeHandle(h) = p \o q
  BY DEF EncodeHandle
<1> HIDE DEF p, q
<1>3. Joins(p, q, Nat)
  BY <1>1, JoinIs
<1> DEFINE l == Len(p \o q)
           a == Len(p)
           b == Len(q)
<1>4. l = a + b /\ a \in 1 .. 5 /\ b \in 1 .. 5
  BY <1>1, <1>3 DEF Joins
<1> HIDE DEF l, a, b
<1>5. l \in 2 .. 10
  BY <1>4
<1> QED BY <1>2, <1>3, <1>5 DEF l, Joins

LEMMA HandleRead ==
  ASSUME NEW h, SmallHandle(h), NEW t \in Seq(Nat)
  PROVE  Gets(DecodeHandle(EncodeHandle(h) \o t), h, t)
<1> DEFINE p == PutVarint(h.offset)
           q == PutVarint(h.size)
           w == EncodeHandle(h) \o t
           u == q \o t
           offset == GetVarint64(w)
           size == GetVarint64(offset.rest)
<1>1. p \in Seq(Nat) /\ q \in Seq(Nat) /\ Small(h.offset) /\ Small(h.size) /\ h \in HandleType
  BY VarintBytes DEF SmallHandle
<1>2. w = p \o u
  <2>1. w = (p \o q) \o t
    BY DEF EncodeHandle
  <2> HIDE DEF w, p, q
  <2>2. Assoc(p, q, t)
    BY <1>1, AssocIs
  <2> QED BY <2>1, <2>2 DEF Assoc
<1>3. u \in Seq(Nat)
  <2> HIDE DEF q
  <2> QED BY <1>1, ConcatProperties
<1>4. 10 \in Nat /\ 5 <= 10
  OBVIOUS
<1> HIDE DEF w, u
<1>5. Gets(offset, h.offset, u)
  BY <1>1, <1>2, <1>3, <1>4, VarintRead DEF GetVarint64
<1> HIDE DEF offset
<1>6. offset.ok /\ offset.value = h.offset /\ offset.rest = u
  BY <1>5 DEF Gets
<1>7. Gets(size, h.size, t)
  BY <1>1, <1>4, <1>6, VarintRead DEF GetVarint64, u
<1> HIDE DEF size
<1>8. size.ok /\ size.value = h.size /\ size.rest = t
  BY <1>7 DEF Gets
<1>9. DecodeHandle(w) = Read([offset |-> offset.value, size |-> size.value], size.rest)
  BY <1>6, <1>8 DEF DecodeHandle, offset, size
<1>10. [offset |-> h.offset, size |-> h.size] = h
  BY <1>1 DEF HandleType
<1>11. DecodeHandle(w) = Read(h, t)
  BY <1>6, <1>8, <1>9, <1>10
<1>12. Gets(DecodeHandle(w), h, t)
  BY <1>11 DEF Gets, Read
<1> QED BY <1>12 DEF w

LEMMA HandleReadAlone ==
  ASSUME NEW h, SmallHandle(h)
  PROVE  DecodeHandle(EncodeHandle(h)).value = h
<1> DEFINE s == EncodeHandle(h)
<1>1. s \in Seq(Nat)
  BY HandleBytes
<1>2. Gets(DecodeHandle(s \o <<>>), h, <<>>)
  <2>1. <<>> \in Seq(Nat)
    OBVIOUS
  <2> QED BY <2>1, HandleRead
<1> HIDE DEF s
<1>3. s \o <<>> = s
  BY <1>1, ConcatEmptySeq
<1> QED BY <1>2, <1>3 DEF Gets, s

ReadsFooter(s, h, g) ==
  /\ s \in Seq(Nat) /\ Len(s) = kEncodedLength
  /\ DecodeFooter(s).ok /\ DecodeFooter(s).value.index_handle = g

LEMMA FooterRead ==
  ASSUME NEW h, SmallHandle(h), NEW g, SmallHandle(g)
  PROVE  ReadsFooter(FooterOf(h, g), h, g)
<1> DEFINE p == EncodeHandle(h)
           q == EncodeHandle(g)
           w == p \o q
           n == 2 * kMaxEncodedLength - Len(w)
           z == [i \in 1 .. n |-> 0]
           m == kTableMagicNumber
           a == w \o z
           s == FooterOf(h, g)
<1>1. /\ p \in Seq(Nat) /\ q \in Seq(Nat) /\ Len(p) \in 2 .. 10 /\ Len(q) \in 2 .. 10
  BY HandleBytes
<1>2. s = a \o m
  BY DEF FooterOf, EncodeFooter
<1>3. m \in Seq(Nat) /\ Len(m) = 8
  BY DEF kTableMagicNumber
<1> HIDE DEF p, q, s, m
<1>4. Joins(p, q, Nat)
  BY <1>1, JoinIs
<1>5. w \in Seq(Nat) /\ Len(w) \in 4 .. 20
  <2> DEFINE l == Len(w)
             c == Len(p)
             d == Len(q)
  <2>1. w \in Seq(Nat) /\ l = c + d /\ c \in 2 .. 10 /\ d \in 2 .. 10
    BY <1>1, <1>4 DEF Joins
  <2> HIDE DEF l, c, d
  <2>2. l \in 4 .. 20
    BY <2>1
  <2> QED BY <2>1, <2>2 DEF l
<1> HIDE DEF w
<1>6. n \in Nat /\ Len(w) + n = 40
  <2> DEFINE l == Len(w)
  <2>1. n = 40 - l /\ l \in 4 .. 20
    BY <1>5 DEF kMaxEncodedLength
  <2> HIDE DEF n, l
  <2>2. n \in Nat /\ l + n = 40
    BY <2>1
  <2> QED BY <2>2 DEF l
<1> HIDE DEF n
<1>7. z \in Seq(Nat) /\ Len(z) = n
  BY <1>6
<1> HIDE DEF z
<1>8. Joins(w, z, Nat)
  BY <1>5, <1>7, JoinIs
<1>9. a \in Seq(Nat) /\ Len(a) = 40
  BY <1>6, <1>7, <1>8 DEF Joins
<1>10. a = p \o (q \o z) /\ q \o z \in Seq(Nat)
  <2>1. Assoc(p, q, z)
    BY <1>1, <1>7, AssocIs
  <2>2. q \o z \in Seq(Nat)
    BY <1>1, <1>7, ConcatProperties
  <2> QED BY <2>1, <2>2 DEF Assoc, w
<1> HIDE DEF a
<1>11. Joins(a, m, Nat)
  BY <1>3, <1>9, JoinIs
<1>12. s \in Seq(Nat) /\ Len(s) = 48 /\ \A i \in 1 .. 8 : s[40 + i] = m[i]
  <2>1. s \in Seq(Nat) /\ Len(s) = Len(a) + Len(m)
    BY <1>2, <1>11 DEF Joins
  <2>2. \A i \in 1 .. Len(m) : s[Len(a) + i] = m[i]
    BY <1>2, <1>11 DEF Joins
  <2>3. Len(s) = 48
    BY <1>3, <1>9, <2>1
  <2> QED BY <1>3, <1>9, <2>1, <2>2, <2>3
<1>13. s = p \o (q \o (z \o m))
  <2> DEFINE u == q \o z
  <2>1. u \in Seq(Nat) /\ a = p \o u
    BY <1>10
  <2>2. Assoc(q, z, m)
    BY <1>1, <1>3, <1>7, AssocIs
  <2> HIDE DEF u
  <2>3. Assoc(p, u, m)
    BY <1>1, <1>3, <2>1, AssocIs
  <2>4. s = p \o (u \o m)
    BY <1>2, <2>1, <2>3 DEF Assoc
  <2> QED BY <2>2, <2>4 DEF Assoc, u
<1> DEFINE y == z \o m
           x == q \o y
<1>14. y \in Seq(Nat)
  BY <1>3, <1>7, ConcatProperties
<1>15. x \in Seq(Nat)
  <2> HIDE DEF y
  <2> QED BY <1>1, <1>14, ConcatProperties
<1> DEFINE metaindex == DecodeHandle(s)
           index == DecodeHandle(metaindex.rest)
<1>16. s = p \o x
  BY <1>13
<1> HIDE DEF x, y
<1>17. Gets(metaindex, h, x)
  BY <1>15, <1>16, HandleRead DEF p
<1> HIDE DEF metaindex
<1>18. metaindex.ok /\ metaindex.rest = x
  BY <1>17 DEF Gets
<1>19. Gets(index, g, y)
  BY <1>14, <1>18, HandleRead DEF q, x
<1> HIDE DEF index
<1>20. index.ok /\ index.value = g
  BY <1>19 DEF Gets
<1>21. SubSeq(s, kEncodedLength - 7, kEncodedLength) = m
  <2>1. kEncodedLength - 7 = 40 + 1 /\ kEncodedLength = 40 + Len(m)
    BY <1>3 DEF kEncodedLength, kMaxEncodedLength
  <2>2. 40 \in Nat /\ Len(m) # 0 /\ \A i \in 1 .. Len(m) : 40 + i \in 1 .. Len(s) /\ s[40 + i] = m[i]
    BY <1>3, <1>12
  <2>3. SubSeq(s, 40 + 1, 40 + Len(m)) = m
    BY <1>3, <1>12, <2>2, PartIs
  <2> QED BY <2>1, <2>3
<1>22. DecodeFooter(s) =
         Read([metaindex_handle |-> metaindex.value, index_handle |-> index.value],
              After(s, kEncodedLength))
  BY <1>18, <1>20, <1>21 DEF DecodeFooter, metaindex, index, m
<1>23. DecodeFooter(s).ok /\ DecodeFooter(s).value.index_handle = g
  BY <1>20, <1>22 DEF Read
<1>24. kEncodedLength = 48
  BY DEF kEncodedLength, kMaxEncodedLength
<1> QED BY <1>12, <1>23, <1>24 DEF ReadsFooter, s
-----------------------------------------------------------------------------
(* The end of the file, and that all of its handles are small.             *)
FileEnds(r, n) ==
  /\ FileBytes(r) \in Seq(Nat) /\ Len(FileBytes(r)) = n + Len(r.footer)
  /\ SubSeq(FileBytes(r), n + 1, n + Len(r.footer)) = r.footer

LEMMA FileEnd ==
  ASSUME NEW r, GoodRep(r), NEW n \in Nat, LaidUpTo(r.file, n), Len(r.file) # 0,
         Len(r.footer) # 0
  PROVE  FileEnds(r, n)
<1> DEFINE s == RawBlocks(r)
           a == FlattenSeq(s)
           z == r.footer
           f == FileBytes(r)
<1>1. /\ s \in Seq(Seq(Nat)) /\ Len(s) = Len(r.file)
  BY RawBlocksAre
<1>2. PICK o : RawBegins(r, n, o)
  BY RawBegin
<1>3. Begin(o, s) /\ o[Len(s) + 1] = n
  BY <1>1, <1>2 DEF RawBegins
<1>4. z \in Seq(Nat)
  BY RepFacts DEF GoodRep
<1>5. f = a \o z
  BY FileBytesIs
<1> HIDE DEF s, z, f
<1>6. Len(a) = n /\ a \in Seq(Nat)
  BY <1>1, <1>3, FlattenAt, FlattenType
<1> HIDE DEF a
<1>7. Joins(a, z, Nat)
  BY <1>4, <1>6, JoinIs
<1>8. /\ f \in Seq(Nat) /\ Len(f) = n + Len(z) /\ Len(z) \in Nat
      /\ \A i \in 1 .. Len(z) : f[n + i] = z[i]
  BY <1>5, <1>6, <1>7 DEF Joins
<1>9. ASSUME NEW i \in 1 .. Len(z) PROVE n + i \in 1 .. Len(f) /\ f[n + i] = z[i]
  <2> DEFINE l == Len(z)
             m == Len(f)
  <2>1. m = n + l /\ l \in Nat /\ i \in 1 .. l
    BY <1>8
  <2> HIDE DEF l, m
  <2>2. n + i \in 1 .. m
    BY <2>1
  <2> QED BY <1>8, <2>2 DEF m
<1>10. SubSeq(f, n + 1, n + Len(z)) = z
  BY <1>4, <1>8, <1>9, PartIs DEF z
<1> QED BY <1>8, <1>10 DEF FileEnds, f, z

LEMMA HandlesFit ==
  ASSUME NEW r, GoodRep(r), NEW n, LaidUpTo(r.file, n), Small(n), NEW j \in 1 .. Len(r.file)
  PROVE  SmallHandle(r.file[j].handle)
<1> DEFINE s == RawBlocks(r)
           h == r.file[j].handle
           b == r.file[j].block
           a == FlattenSeq(s)
           m == h.size
<1>1. /\ s \in Seq(Seq(Nat)) /\ Len(s) = Len(r.file) /\ s[j] = WriteRawBlock(b)
  BY RawBlocksAre
<1>2. Len(r.file) # 0
  <2> DEFINE l == Len(r.file)
  <2>1. l \in Nat /\ j \in 1 .. l
    BY GoodRepFacts
  <2> HIDE DEF l
  <2>2. l # 0
    BY <2>1
  <2> QED BY <2>2 DEF l
<1>3. PICK o : RawBegins(r, n, o)
  BY <1>2, RawBegin
<1>4. Begin(o, s) /\ o[Len(s) + 1] = n /\ o[j] = h.offset
  BY <1>1, <1>3 DEF RawBegins
<1>5. h \in HandleType
  <2>1. r.file \in FileType
    BY GoodRepFacts
  <2>2. r.file[j] \in [handle : HandleType, block : BlockType]
    BY <2>1, ElementOfSeq DEF FileType
  <2> QED BY <2>2
<1>6. h.offset \in Nat /\ m \in Nat
  BY <1>5 DEF HandleType
<1>7. Good(b, block_restart_interval)
  BY GoodRepFacts
<1>8. RawOf(b, s[j]) /\ m = CurrentSizeEstimate(b)
  BY <1>1, <1>7, WriteRawBlockIs DEF LaidUpTo, LaidOut
<1>9. Len(s[j]) = m + 5
  BY <1>8 DEF RawOf, kBlockTrailerSize
<1> HIDE DEF s
<1>10. Len(a) = n /\ \A i \in 1 .. Len(s[j]) : o[j] + i \in 1 .. Len(a)
  BY <1>1, <1>4, FlattenAt
<1> DEFINE c == h.offset
<1>11. c \in Nat /\ m \in Nat /\ \A i \in 1 .. m + 5 : c + i \in 1 .. n
  BY <1>4, <1>6, <1>9, <1>10
<1>14. h \in HandleType
  BY <1>5
<1> HIDE DEF c, m
<1>12. m + 5 \in 1 .. m + 5 /\ n \in Nat
  BY <1>11 DEF Small
<1>13. c + (m + 5) \in 1 .. n
  BY <1>11, <1>12
<1>15. Small(c) /\ Small(m)
  BY <1>11, <1>12, <1>13 DEF Small
<1> QED BY <1>14, <1>15 DEF SmallHandle, c, m
-----------------------------------------------------------------------------
(* The first entry of an index that is not below a key.                    *)
LEMMA LessIrreflexive ==
  ASSUME NEW a \in Bytes
  PROVE  ~ Less(a, a)
<1> SUFFICES ASSUME Less(a, a) PROVE FALSE
  OBVIOUS
<1>1. PICK n \in 0 .. Shorter(a, a) :
        /\ CommonPrefix(a, a, n)
        /\ IF n = Shorter(a, a) THEN Len(a) < Len(a) ELSE a[n + 1] < a[n + 1]
  BY DEF Less
<1>2. Shorter(a, a) \in Nat /\ Len(a) \in Nat
  BY ShorterType DEF Bytes
<1>3. n = Shorter(a, a)
  BY <1>1, <1>2 DEF CommonPrefix
<1> QED BY <1>1, <1>2, <1>3

FirstOf(index, key) ==
  CHOOSE i \in DOMAIN index :
    /\ LessEq(key, index[i].key)
    /\ \A j \in 1 .. i - 1 : Less(index[j].key, key)

IsFirst(index, x, j) ==
  LessEq(x, index[j].key) /\ \A i \in 1 .. j - 1 : Less(index[i].key, x)

LEMMA FirstUnique ==
  ASSUME NEW n \in Nat, NEW index, DOMAIN index = 1 .. n,
         \A i \in 1 .. n : index[i].key \in Bytes, NEW x \in Bytes,
         NEW i \in 1 .. n, NEW j \in 1 .. n, IsFirst(index, x, i), IsFirst(index, x, j)
  PROVE  i = j
<1>1. ASSUME NEW k \in 1 .. n, Less(index[k].key, x), LessEq(x, index[k].key)
      PROVE  FALSE
  <2>1. Less(index[k].key, index[k].key)
    BY <1>1, LessEqTransitive
  <2> QED BY <2>1, LessIrreflexive
<1>2. CASE i < j
  <2>1. i \in 1 .. j - 1
    BY <1>2
  <2> QED BY <1>1, <2>1 DEF IsFirst
<1>3. CASE j < i
  <2>1. j \in 1 .. i - 1
    BY <1>3
  <2> QED BY <1>1, <2>1 DEF IsFirst
<1> QED BY <1>2, <1>3

LEMMA FirstIs ==
  ASSUME NEW n \in Nat, NEW index, DOMAIN index = 1 .. n,
         \A i \in 1 .. n : index[i].key \in Bytes, NEW x \in Bytes,
         NEW j \in 1 .. n, IsFirst(index, x, j)
  PROVE  FirstOf(index, x) = j
<1>1. FirstOf(index, x) = CHOOSE i \in 1 .. n : IsFirst(index, x, i)
  BY DEF FirstOf, IsFirst
<1> DEFINE i == CHOOSE i \in 1 .. n : IsFirst(index, x, i)
<1>2. i \in 1 .. n /\ IsFirst(index, x, i)
  OBVIOUS
<1> HIDE DEF i
<1>3. i = j
  BY <1>2, FirstUnique
<1> QED BY <1>1, <1>3 DEF i

(* What the index of a whole table says of its blocks, once both are read. *)
Guides(index, blocks, n) ==
  /\ n \in Nat /\ DOMAIN index = 1 .. n /\ Len(index) = n
  /\ \A j \in 1 .. n :
       /\ index[j].key \in Bytes
       /\ \A x \in blocks[j] : /\ x \in Bytes /\ IsFirst(index, x, j)
       /\ \A i \in 1 .. j - 1 : Less(index[i].key, index[j].key)

LEMMA GuidedTo ==
  ASSUME NEW index, NEW blocks, NEW n, Guides(index, blocks, n),
         NEW j \in 1 .. n, NEW x \in blocks[j]
  PROVE  /\ \A i \in 1 .. n : x \in blocks[i] <=> i = FirstOf(index, x)
         /\ LessEq(x, index[Len(index)].key)
<1>1. /\ n \in Nat /\ DOMAIN index = 1 .. n /\ Len(index) = n
      /\ \A i \in 1 .. n : index[i].key \in Bytes
      /\ x \in Bytes /\ IsFirst(index, x, j)
  BY DEF Guides
<1>2. FirstOf(index, x) = j
  BY <1>1, FirstIs
<1>3. ASSUME NEW i \in 1 .. n, x \in blocks[i] PROVE i = j
  <2>1. IsFirst(index, x, i)
    BY <1>3 DEF Guides
  <2> QED BY <1>1, <2>1, FirstUnique
<1>4. LessEq(x, index[n].key)
  <2>1. LessEq(x, index[j].key)
    BY <1>1 DEF IsFirst
  <2>2. CASE j = n
    BY <2>1, <2>2
  <2>3. CASE j # n
    <3>1. j \in 1 .. n - 1 /\ n \in 1 .. n
      BY <1>1, <2>3
    <3>2. Less(index[j].key, index[n].key)
      BY <3>1 DEF Guides
    <3> QED BY <1>1, <2>1, <3>1, <3>2, LessEqTransitive DEF LessEq
  <2> QED BY <2>2, <2>3
<1> QED BY <1>1, <1>2, <1>3, <1>4
-----------------------------------------------------------------------------
(* The keys of a block that is read.                                       *)
KeysIn(block) == [k \in DOMAIN block |-> block[k].key]
InOf(block) == {e.key : e \in ToSet(block)}

LEMMA KeysRead ==
  ASSUME NEW b, NEW interval, Good(b, interval)
  PROVE  /\ KeysIn(ReadUpTo(b, Len(b.entries))) = BlockKeys(b)
         /\ InOf(ReadUpTo(b, Len(b.entries))) = ToSet(BlockKeys(b))
<1> DEFINE m == Len(b.entries)
           R == ReadUpTo(b, m)
           K == BlockKeys(b)
<1>1. m \in Nat /\ DOMAIN b.entries = 1 .. m
  BY GoodFacts
<1>2. DOMAIN R = 1 .. m /\ \A k \in 1 .. m : R[k].key = K[k]
  BY DEF ReadUpTo, ReadEntry
<1>3. DOMAIN K = 1 .. m /\ K = [k \in DOMAIN K |-> K[k]]
  <2>1. Spells(K, b)
    BY DEF Good, KeysKnown
  <2>2. K \in Seq(Bytes)
    BY DEF Good, KeysKnown
  <2>3. K = [k \in DOMAIN K |-> K[k]]
    BY <2>2, SeqIsFunction
  <2> HIDE DEF K
  <2> QED BY <1>1, <2>1, <2>3 DEF Spells
<1> HIDE DEF R, K, m
<1>4. KeysIn(R) = K
  <2>1. KeysIn(R) = [k \in 1 .. m |-> R[k].key]
    BY <1>2 DEF KeysIn
  <2>2. K = [k \in 1 .. m |-> K[k]]
    BY <1>3
  <2> QED BY <1>2, <2>1, <2>2
<1>5. InOf(R) = ToSet(K)
  <2>1. InOf(R) = {R[k].key : k \in 1 .. m}
    BY <1>2 DEF InOf, ToSet
  <2>2. ToSet(K) = {K[k] : k \in 1 .. m}
    BY <1>3 DEF ToSet
  <2> QED BY <1>2, <2>1, <2>2
<1> QED BY <1>4, <1>5 DEF R, K, m

(* The index of a table that is all written, and its blocks.               *)
IndexRead(g) == ReadUpTo(g.index_block, Len(g.file))
BlocksRead(g) == [j \in 1 .. Len(g.file) |->
                   ReadUpTo(g.file[j].block, Len(g.file[j].block.entries))]
Sets(g) == [j \in 1 .. Len(g.file) |-> ToSet(BlockKeys(g.file[j].block))]

LEMMA IndexGuides ==
  ASSUME NEW g, GoodRep(g), Written(g, {}), ~ g.pending_index_entry
  PROVE  /\ Len(g.index_block.entries) = Len(g.file)
         /\ Guides(IndexRead(g), Sets(g), Len(g.file))
         /\ \A j \in 1 .. Len(g.file) :
              IndexRead(g)[j].value = EncodeHandle(g.file[j].handle)
<1> DEFINE n == Len(g.file)
           m == Len(g.index_block.entries)
           x == g.index_block
           R == IndexRead(g)
           B == Sets(g)
           key(j) == BlockKeys(x)[j]
<1>1. /\ n \in Nat /\ m \in Nat /\ DOMAIN x.entries = 1 .. m
      /\ (\A j \in 1 .. m : key(j) \in Bytes) /\ Good(x, 1)
      /\ \A j \in 1 .. n : Good(g.file[j].block, block_restart_interval)
  BY GoodRepFacts
<1>2. m = n
  <2>1. n = m + 0
    BY DEF Written
  <2> HIDE DEF n, m
  <2> QED BY <1>1, <2>1
<1>3. \A j \in 1 .. n : Separates(g, j)
  <2>1. \A j \in DOMAIN x.entries : Separates(g, j)
    BY DEF Written
  <2> HIDE DEF n, m, x
  <2> QED BY <1>1, <1>2, <2>1
<1>4. /\ DOMAIN R = 1 .. n
      /\ \A j \in 1 .. n : R[j].key = key(j) /\ R[j].value = x.entries[j].value
  BY DEF IndexRead, ReadUpTo, ReadEntry
<1>5. Len(R) = n
  <2>1. n \in 0 .. m
    <3> HIDE DEF n, m
    <3> QED BY <1>1, <1>2
  <2>2. Len(ReadUpTo(x, n)) = n
    <3> HIDE DEF n
    <3> QED BY <1>1, <2>1, ReadUpToIs
  <2> QED BY <2>2 DEF IndexRead
<1>6. ASSUME NEW j \in 1 .. n
      PROVE  /\ x.entries[j].value = EncodeHandle(g.file[j].handle)
             /\ KeysUpTo(g.file[j].block, key(j))
             /\ \A i \in j + 1 .. n : KeysAbove(g.file[i].block, key(j))
             /\ \A i \in 1 .. j - 1 : Less(key(i), key(j))
  BY <1>3 DEF Separates
<1>7. \A j \in 1 .. n : B[j] = ToSet(BlockKeys(g.file[j].block))
  BY DEF Sets
<1> HIDE DEF n, m, x, R, B, key
<1>8. ASSUME NEW j \in 1 .. n, NEW y \in B[j]
      PROVE  y \in Bytes /\ IsFirst(R, y, j)
  <2> DEFINE b == g.file[j].block
  <2>1. Good(b, block_restart_interval) /\ y \in ToSet(BlockKeys(b))
    BY <1>1, <1>7
  <2>2. y \in Bytes
    <3>1. BlockKeys(b) \in Seq(Bytes)
      BY <2>1 DEF Good, KeysKnown
    <3> QED BY <2>1, <3>1 DEF ToSet
  <2>3. KeysUpTo(b, key(j))
    BY <1>6
  <2> HIDE DEF b
  <2>4. LessEq(y, key(j))
    BY <2>1, <2>3, KeysAsSets
  <2>5. ASSUME NEW i \in 1 .. j - 1 PROVE Less(R[i].key, y)
    <3>1. i \in 1 .. n /\ j \in i + 1 .. n
      BY <1>1
    <3>2. KeysAbove(b, key(i))
      BY <1>6, <3>1 DEF b
    <3>3. Less(key(i), y)
      BY <2>1, <3>2, KeysAsSets
    <3> QED BY <1>4, <3>1, <3>3
  <2> QED BY <1>4, <2>2, <2>4, <2>5 DEF IsFirst
<1>9. ASSUME NEW j \in 1 .. n, NEW i \in 1 .. j - 1 PROVE Less(R[i].key, R[j].key)
  <2>1. i \in 1 .. n
    BY <1>1
  <2> QED BY <1>4, <1>6, <2>1
<1>10. Guides(R, B, n)
  <2>1. \A j \in 1 .. n : R[j].key \in Bytes
    BY <1>1, <1>2, <1>4
  <2> QED BY <1>1, <1>4, <1>5, <1>8, <1>9, <2>1 DEF Guides
<1> QED BY <1>2, <1>4, <1>6, <1>10 DEF n, m, x, R, B

(* The keys of its blocks, and only they, are in one of them.              *)
LEMMA KeyIsInBlock ==
  ASSUME NEW g, GoodRep(g), NEW x \in ToSet(FlattenSeq(FileKeys(g.file)))
  PROVE  \E j \in 1 .. Len(g.file) : x \in Sets(g)[j]
<1> DEFINE s == FileKeys(g.file)
           f == FlattenSeq(s)
           n == Len(g.file)
<1>1. s \in Seq(Seq(Bytes)) /\ Len(s) = n /\ \A j \in 1 .. n : s[j] = BlockKeys(g.file[j].block)
  <2>1. g.file \in FileType /\ \A j \in 1 .. Len(g.file) : Good(g.file[j].block, block_restart_interval)
    BY GoodRepFacts
  <2> QED BY <2>1, FileKeysAre
<1>2. \A j \in 1 .. n : Sets(g)[j] = ToSet(BlockKeys(g.file[j].block))
  BY DEF Sets
<1> HIDE DEF s, n
<1>3. f \in Seq(Bytes)
  BY <1>1, FlattenType
<1>4. PICK k \in 1 .. Len(f) : x = f[k]
  <2>1. x \in ToSet(f)
    BY DEF s
  <2> HIDE DEF f
  <2>2. DOMAIN f = 1 .. Len(f)
    BY <1>3, SeqFacts
  <2> QED BY <2>1, <2>2 DEF ToSet
<1>5. PICK j \in 1 .. Len(s) : \E i \in 1 .. Len(s[j]) : f[k] = s[j][i]
  BY <1>1, FlattenFrom
<1>6. PICK i \in 1 .. Len(s[j]) : x = s[j][i]
  BY <1>4, <1>5
<1>7. s[j] \in Seq(Bytes) /\ j \in 1 .. n
  BY <1>1, ElementOfSeq
<1>8. x \in ToSet(s[j])
  <2>1. DOMAIN s[j] = 1 .. Len(s[j])
    BY <1>7, SeqFacts
  <2> QED BY <1>6, <2>1 DEF ToSet
<1>9. x \in Sets(g)[j]
  BY <1>1, <1>2, <1>7, <1>8
<1> QED BY <1>7, <1>9 DEF n
-----------------------------------------------------------------------------
(* A whole table as it is read from its bytes.                             *)
Whole(r, g, keys, n) ==
  /\ GoodRep(r) /\ WholeOf(r, g, keys) /\ n \in Nat /\ LaidUpTo(r.file, n)
  /\ Small(n) /\ keys # <<>> /\ keys \in Seq(Bytes)

LEMMA WholeFacts ==
  ASSUME NEW r, NEW g, NEW keys, NEW n, Whole(r, g, keys, n)
  PROVE  /\ GoodRep(r) /\ GoodRep(g) /\ Len(g.file) \in Nat /\ Len(r.file) = Len(g.file) + 2
         /\ Len(g.file) + 1 \in 1 .. Len(r.file) /\ Len(g.file) + 2 \in 1 .. Len(r.file)
         /\ Len(r.file) # 0 /\ LaidUpTo(r.file, n) /\ n \in Nat /\ Small(n)
         /\ \A j \in 1 .. Len(r.file) : SmallHandle(r.file[j].handle)
         /\ \A j \in 1 .. Len(g.file) : j \in 1 .. Len(r.file) /\ r.file[j] = g.file[j]
         /\ \A j \in 1 .. Len(g.file) : Good(g.file[j].block, block_restart_interval)
<1>1. /\ GoodRep(r) /\ GoodRep(g) /\ Len(r.file) = Len(g.file) + 2
      /\ LaidUpTo(r.file, n) /\ n \in Nat /\ Small(n)
      /\ \A j \in 1 .. Len(g.file) : r.file[j] = g.file[j]
  BY DEF Whole, WholeOf, EndsWith
<1>2. Len(g.file) \in Nat /\ \A j \in 1 .. Len(g.file) : Good(g.file[j].block, block_restart_interval)
  BY <1>1, GoodRepFacts
<1>3. \A j \in 1 .. Len(r.file) : SmallHandle(r.file[j].handle)
  BY <1>1, HandlesFit
<1> DEFINE m == Len(g.file)
           l == Len(r.file)
<1>4. m \in Nat /\ l = m + 2
  BY <1>1, <1>2
<1> HIDE DEF m, l
<1>5. m + 1 \in 1 .. l /\ m + 2 \in 1 .. l /\ l # 0 /\ \A j \in 1 .. m : j \in 1 .. l
  BY <1>4
<1> QED BY <1>1, <1>2, <1>3, <1>5 DEF m, l

(* The footer is found behind the blocks, and leads to the index.          *)
LEMMA FooterFound ==
  ASSUME NEW r, NEW g, NEW keys, NEW n, Whole(r, g, keys, n)
  PROVE  /\ Len(FileBytes(r)) = n + kEncodedLength
         /\ DecodeFooter(SubSeq(FileBytes(r), n + 1, n + kEncodedLength)).ok
         /\ DecodeFooter(SubSeq(FileBytes(r), n + 1, n + kEncodedLength)).value.index_handle
              = r.file[Len(g.file) + 2].handle
<1> DEFINE h == r.file[Len(g.file) + 1].handle
           i == r.file[Len(g.file) + 2].handle
           z == r.footer
<1>1. SmallHandle(h) /\ SmallHandle(i)
  BY WholeFacts
<1>2. z = FooterOf(h, i)
  BY DEF Whole, WholeOf
<1> HIDE DEF h, i, z
<1>3. ReadsFooter(z, h, i)
  BY <1>1, <1>2, FooterRead
<1>4. Len(z) = kEncodedLength /\ DecodeFooter(z).ok /\ DecodeFooter(z).value.index_handle = i
  BY <1>3 DEF ReadsFooter
<1>5. FileEnds(r, n)
  <2>1. Len(r.footer) # 0
    BY <1>4 DEF z, kEncodedLength, kMaxEncodedLength
  <2> QED BY <2>1, WholeFacts, FileEnd
<1>6. /\ Len(FileBytes(r)) = n + kEncodedLength
      /\ SubSeq(FileBytes(r), n + 1, n + kEncodedLength) = z
  BY <1>4, <1>5 DEF FileEnds, z
<1> QED BY <1>4, <1>6 DEF i

LEMMA IndexFound ==
  ASSUME NEW r, NEW g, NEW keys, NEW n, Whole(r, g, keys, n)
  PROVE  EntriesAt(FileBytes(r), r.file[Len(g.file) + 2].handle) = IndexRead(g)
<1> DEFINE j == Len(g.file) + 2
           x == g.index_block
<1>1. /\ j \in 1 .. Len(r.file) /\ SmallHandle(r.file[j].handle)
      /\ GoodRep(r) /\ LaidUpTo(r.file, n)
  BY WholeFacts
<1>2. r.file[j].block = x /\ GoodRep(g) /\ Written(g, {}) /\ ~ g.pending_index_entry
  BY DEF Whole, WholeOf, EndsWith
<1>3. Good(r.file[j].block, 1) /\ Small(r.file[j].handle.size)
  BY <1>1, <1>2 DEF SmallHandle, GoodRep
<1> HIDE DEF j
<1>4. EntriesAt(FileBytes(r), r.file[j].handle) =
        ReadUpTo(r.file[j].block, Len(r.file[j].block.entries))
  BY <1>1, <1>3, EntriesFound
<1>5. Len(x.entries) = Len(g.file)
  BY <1>2, IndexGuides
<1> QED BY <1>2, <1>4, <1>5 DEF IndexRead, j

BlocksOf(file, index) ==
  [i \in DOMAIN index |-> EntriesAt(file, DecodeHandle(index[i].value).value)]

LEMMA BlocksFound ==
  ASSUME NEW r, NEW g, NEW keys, NEW n, Whole(r, g, keys, n)
  PROVE  BlocksOf(FileBytes(r), IndexRead(g)) = BlocksRead(g)
<1> DEFINE m == Len(g.file)
           I == IndexRead(g)
           B == BlocksRead(g)
           f == FileBytes(r)
<1>1. /\ Guides(I, Sets(g), m)
      /\ \A j \in 1 .. m : I[j].value = EncodeHandle(g.file[j].handle)
  <2>1. GoodRep(g) /\ Written(g, {}) /\ ~ g.pending_index_entry
    BY DEF Whole, WholeOf, EndsWith
  <2> QED BY <2>1, IndexGuides
<1>2. DOMAIN I = 1 .. m
  BY <1>1 DEF Guides
<1>3. B = [j \in 1 .. m |-> B[j]]
      /\ \A j \in 1 .. m : B[j] = ReadUpTo(g.file[j].block, Len(g.file[j].block.entries))
  BY DEF BlocksRead
<1>4. ASSUME NEW j \in 1 .. m
      PROVE  EntriesAt(f, DecodeHandle(I[j].value).value) = B[j]
  <2> DEFINE h == g.file[j].handle
  <2>1. /\ j \in 1 .. Len(r.file) /\ r.file[j] = g.file[j] /\ SmallHandle(r.file[j].handle)
        /\ GoodRep(r) /\ LaidUpTo(r.file, n)
        /\ Good(g.file[j].block, block_restart_interval)
    BY WholeFacts
  <2>2. SmallHandle(h) /\ Small(r.file[j].handle.size)
    BY <2>1 DEF SmallHandle
  <2>3. DecodeHandle(EncodeHandle(h)).value = h
    BY <2>2, HandleReadAlone
  <2>4. EntriesAt(f, r.file[j].handle) = ReadUpTo(r.file[j].block, Len(r.file[j].block.entries))
    BY <2>1, <2>2, EntriesFound
  <2> QED BY <1>1, <1>3, <2>1, <2>3, <2>4
<1> HIDE DEF I, B, f, m
<1>5. BlocksOf(f, I) = [j \in 1 .. m |-> EntriesAt(f, DecodeHandle(I[j].value).value)]
  BY <1>2 DEF BlocksOf
<1>6. [j \in 1 .. m |-> EntriesAt(f, DecodeHandle(I[j].value).value)] = [j \in 1 .. m |-> B[j]]
  BY <1>4
<1> QED BY <1>3, <1>5, <1>6 DEF I, B, f

(* What TableReadsBack says of an index and the blocks it leads to.        *)
ReadsBack(index, blocks, keys) ==
  /\ index # <<>> /\ \A key \in ToSet(keys) : LessEq(key, index[Len(index)].key)
  /\ \A key \in ToSet(keys), i \in DOMAIN index :
       key \in InOf(blocks[i]) <=> i = FirstOf(index, key)
  /\ FlattenSeq([i \in DOMAIN blocks |-> KeysIn(blocks[i])]) = keys

LEMMA WholeReads ==
  ASSUME NEW r, NEW g, NEW keys, NEW n, Whole(r, g, keys, n)
  PROVE  ReadsBack(IndexRead(g), BlocksRead(g), keys)
<1> DEFINE m == Len(g.file)
           I == IndexRead(g)
           B == BlocksRead(g)
<1>1. /\ GoodRep(g) /\ m \in Nat
      /\ \A j \in 1 .. m : Good(g.file[j].block, block_restart_interval)
  BY WholeFacts
<1>2. /\ FlattenSeq(FileKeys(g.file)) = keys /\ keys # <<>> /\ keys \in Seq(Bytes)
      /\ Written(g, {}) /\ ~ g.pending_index_entry
  BY DEF Whole, WholeOf, EndsWith
<1>3. Guides(I, Sets(g), m)
  BY <1>1, <1>2, IndexGuides
<1>4. DOMAIN I = 1 .. m /\ Len(I) = m
  BY <1>3 DEF Guides
<1>5. /\ DOMAIN B = 1 .. m
      /\ \A j \in 1 .. m : B[j] = ReadUpTo(g.file[j].block, Len(g.file[j].block.entries))
      /\ \A j \in 1 .. m : Sets(g)[j] = ToSet(BlockKeys(g.file[j].block))
  BY DEF BlocksRead, Sets
<1>6. ASSUME NEW j \in 1 .. m
      PROVE  KeysIn(B[j]) = BlockKeys(g.file[j].block) /\ InOf(B[j]) = Sets(g)[j]
  BY <1>1, <1>5, KeysRead
<1>7. FileKeys(g.file) = [j \in 1 .. m |-> BlockKeys(g.file[j].block)]
  <2>1. DOMAIN g.file = 1 .. m
    BY <1>1, RepFacts DEF GoodRep
  <2> QED BY <2>1 DEF FileKeys
<1> HIDE DEF I, B, m
<1>8. FlattenSeq([i \in DOMAIN B |-> KeysIn(B[i])]) = keys
  <2>1. [i \in DOMAIN B |-> KeysIn(B[i])] = [j \in 1 .. m |-> BlockKeys(g.file[j].block)]
    BY <1>5, <1>6
  <2> QED BY <1>2, <1>7, <2>1
<1>9. ASSUME NEW key \in ToSet(keys)
      PROVE  /\ LessEq(key, I[Len(I)].key)
             /\ \A i \in 1 .. m : key \in InOf(B[i]) <=> i = FirstOf(I, key)
  <2>1. PICK j \in 1 .. m : key \in Sets(g)[j]
    BY <1>1, <1>2, KeyIsInBlock DEF m
  <2>2. /\ \A i \in 1 .. m : key \in Sets(g)[i] <=> i = FirstOf(I, key)
        /\ LessEq(key, I[Len(I)].key)
    BY <1>3, <2>1, GuidedTo
  <2> QED BY <1>6, <2>2
<1>10. I # <<>>
  <2>1. keys[1] \in ToSet(keys)
    <3>1. 1 \in DOMAIN keys
      <4>1. Len(keys) \in Nat /\ Len(keys) # 0 /\ DOMAIN keys = 1 .. Len(keys)
        BY <1>2, SeqFacts
      <4> QED BY <4>1
    <3> QED BY <3>1 DEF ToSet
  <2>2. PICK j \in 1 .. m : keys[1] \in Sets(g)[j]
    BY <1>1, <1>2, <2>1, KeyIsInBlock DEF m
  <2>3. Len(I) # 0
    BY <1>1, <1>4, <2>2 DEF m
  <2> QED BY <2>3
<1> QED BY <1>4, <1>8, <1>9, <1>10 DEF ReadsBack, I, B

(* A table below 2^31 bytes with a size is whole, its footer behind n.     *)
LEMMA TableIsWhole ==
  ASSUME IInv, Small(file_size), file_size # 0
  PROVE  \E g, n : /\ Whole(rep_, g, added, n) /\ file_size = n + kEncodedLength
                   /\ file_size - kEncodedLength + 1 = n + 1
<1>1. PICK g : WholeOf(rep_, g, added)
  BY DEF IInv
<1>2. /\ GoodRep(rep_) /\ Laid(rep_) /\ added # <<>> /\ added \in Seq(Bytes)
      /\ file_size = rep_.offset
  BY DEF IInv
<1> DEFINE n == rep_.offset - kEncodedLength
<1>3. n \in Nat /\ LaidUpTo(rep_.file, n)
  BY <1>1, <1>2 DEF WholeOf, Laid
<1>4. file_size \in Nat /\ file_size = n + kEncodedLength /\ file_size - kEncodedLength + 1 = n + 1
      /\ kEncodedLength \in Nat
  <2>1. rep_.offset \in Nat /\ kEncodedLength \in Nat
    BY <1>2, RepFacts DEF GoodRep, kEncodedLength, kMaxEncodedLength
  <2> DEFINE o == rep_.offset
             k == kEncodedLength
  <2>2. o \in Nat /\ k \in Nat /\ n = o - k /\ file_size = o
    BY <1>2, <2>1
  <2> HIDE DEF o, k, n
  <2>3. file_size = n + k /\ file_size - k + 1 = n + 1 /\ file_size \in Nat
    BY <2>2
  <2> QED BY <2>2, <2>3 DEF k
<1> HIDE DEF n
<1>5. Small(n)
  <2> DEFINE k == kEncodedLength
  <2>1. k \in Nat /\ file_size = n + k /\ n \in Nat
    BY <1>3, <1>4
  <2> HIDE DEF k
  <2> QED BY <2>1 DEF Small
<1>6. Whole(rep_, g, added, n)
  BY <1>1, <1>2, <1>3, <1>5 DEF Whole
<1> QED BY <1>4, <1>6

(* A table below 2^31 bytes that BuildTable gave a size is read back by    *)
(* its size, its footer and its index alone: every key that was added is   *)
(* found in the block of the first index entry not below it and nowhere    *)
(* else, and the blocks have no key lost, added or out of order.           *)
THEOREM TableReadsCorrect == Spec => [](Small(file_size) => TableReadsBack)
<1> DEFINE file == FileBytes(rep_)
           index == IndexOf(file)
           blocks == BlocksOf(file, index)
<1>1. IInv => (Small(file_size) => TableReadsBack)
  <2> SUFFICES ASSUME IInv, Small(file_size), file_size # 0 PROVE TableReadsBack
    BY DEF TableReadsBack
  <2>1. PICK g, n : /\ Whole(rep_, g, added, n) /\ file_size = n + kEncodedLength
                     /\ file_size - kEncodedLength + 1 = n + 1
    BY TableIsWhole
  <2>2. /\ Len(file) = file_size
        /\ DecodeFooter(SubSeq(file, file_size - kEncodedLength + 1, file_size)).ok
        /\ DecodeFooter(SubSeq(file, file_size - kEncodedLength + 1, file_size)).value.index_handle
             = rep_.file[Len(g.file) + 2].handle
    BY <2>1, FooterFound
  <2>3. index = IndexRead(g)
    <3>1. EntriesAt(file, rep_.file[Len(g.file) + 2].handle) = IndexRead(g)
      BY <2>1, IndexFound
    <3> HIDE DEF file
    <3> QED BY <2>2, <3>1 DEF IndexOf
  <2>4. blocks = BlocksRead(g)
    <3>1. BlocksOf(file, IndexRead(g)) = BlocksRead(g)
      BY <2>1, BlocksFound
    <3> HIDE DEF file, index
    <3> QED BY <2>3, <3>1
  <2>5. ReadsBack(index, blocks, added)
    <3> HIDE DEF index, blocks
    <3> QED BY <2>1, <2>3, <2>4, WholeReads
  <2> HIDE DEF file
  <2> QED BY <2>2, <2>5 DEF TableReadsBack, ReadsBack, BlocksOf, InOf, KeysIn, FirstOf, file
<1> QED BY <1>1, TableInductive, PTL
-----------------------------------------------------------------------------
(* The filter block: its builder, its bytes and its reader.                *)
LEMMA BaseIsPositive == kFilterBase \in Nat \ {0}
<1>1. /\ 2^0 \in Nat \ {0} /\ 2^1 \in Nat \ {0} /\ 2^2 \in Nat \ {0} /\ 2^3 \in Nat \ {0}
      /\ 2^4 \in Nat \ {0} /\ 2^5 \in Nat \ {0} /\ 2^6 \in Nat \ {0} /\ 2^7 \in Nat \ {0}
      /\ 2^8 \in Nat \ {0} /\ 2^9 \in Nat \ {0} /\ 2^10 \in Nat \ {0} /\ 2^11 \in Nat \ {0}
  BY SMT
<1>2. /\ 2^12 \in Nat \ {0} /\ 2^13 \in Nat \ {0} /\ 2^14 \in Nat \ {0} /\ 2^15 \in Nat \ {0}
      /\ 2^16 \in Nat \ {0} /\ 2^17 \in Nat \ {0} /\ 2^18 \in Nat \ {0} /\ 2^19 \in Nat \ {0}
      /\ 2^20 \in Nat \ {0} /\ 2^21 \in Nat \ {0} /\ 2^22 \in Nat \ {0} /\ 2^23 \in Nat \ {0}
  BY SMT
<1>3. /\ 2^24 \in Nat \ {0} /\ 2^25 \in Nat \ {0} /\ 2^26 \in Nat \ {0} /\ 2^27 \in Nat \ {0}
      /\ 2^28 \in Nat \ {0} /\ 2^29 \in Nat \ {0} /\ 2^30 \in Nat \ {0}
  BY SMT
<1>4. \A k \in 0 .. 30 :
        \/ k = 0 \/ k = 1 \/ k = 2 \/ k = 3 \/ k = 4 \/ k = 5 \/ k = 6 \/ k = 7 \/ k = 8
        \/ k = 9 \/ k = 10 \/ k = 11 \/ k = 12 \/ k = 13 \/ k = 14 \/ k = 15 \/ k = 16
        \/ k = 17 \/ k = 18 \/ k = 19 \/ k = 20 \/ k = 21 \/ k = 22 \/ k = 23 \/ k = 24
        \/ k = 25 \/ k = 26 \/ k = 27 \/ k = 28 \/ k = 29 \/ k = 30
  OBVIOUS
<1>5. kFilterBaseLg \in 0 .. 30
  BY FilterBlockAssumption
<1> QED BY <1>1, <1>2, <1>3, <1>4, <1>5, Zenon DEF kFilterBase

LEMMA DivType ==
  ASSUME NEW k \in Nat \ {0}, NEW a \in Nat
  PROVE  a \div k \in Nat /\ 0 \div k = 0
  OBVIOUS

LEMMA DivGrows ==
  ASSUME NEW k \in Nat \ {0}, NEW a \in Nat, NEW b \in Nat, a <= b
  PROVE  a \div k <= b \div k
  OBVIOUS

(* What a builder holds: filter i has the keys of C[i - 1], those that     *)
(* wait are of the stretch behind the last filter, and nothing is known of *)
(* later ones.                                                             *)
BuilderType == [keys_ : Seq(Bytes), result_ : Seq(Bytes), filter_offsets_ : Seq(Nat)]

FilterEnd(b, i) ==
  IF i = Len(b.filter_offsets_) THEN Len(b.result_) ELSE b.filter_offsets_[i + 1]
Filter(b, i) == {b.result_[k] : k \in b.filter_offsets_[i] + 1 .. FilterEnd(b, i)}

Filters(b, C) ==
  /\ b \in BuilderType
  /\ \A i \in 1 .. Len(b.filter_offsets_) :
       /\ b.filter_offsets_[i] <= FilterEnd(b, i) /\ FilterEnd(b, i) <= Len(b.result_)
       /\ Filter(b, i) = C[i - 1]
  /\ ToSet(b.keys_) = C[Len(b.filter_offsets_)]
  /\ \A i \in Nat : i > Len(b.filter_offsets_) => C[i] = {}

HeldKeys(b) == Len(b.result_) + Len(b.keys_)

LEMMA BuilderFacts ==
  ASSUME NEW b \in BuilderType
  PROVE  /\ b.keys_ \in Seq(Bytes) /\ b.result_ \in Seq(Bytes) /\ b.filter_offsets_ \in Seq(Nat)
         /\ Len(b.keys_) \in Nat /\ Len(b.result_) \in Nat /\ Len(b.filter_offsets_) \in Nat
         /\ \A i \in 1 .. Len(b.filter_offsets_) : b.filter_offsets_[i] \in Nat
<1>1. b.keys_ \in Seq(Bytes) /\ b.result_ \in Seq(Bytes) /\ b.filter_offsets_ \in Seq(Nat)
  BY DEF BuilderType
<1> QED BY <1>1, SeqFacts

LEMMA FilterEndType ==
  ASSUME NEW b \in BuilderType, NEW i \in 1 .. Len(b.filter_offsets_)
  PROVE  FilterEnd(b, i) \in Nat
<1> DEFINE n == Len(b.filter_offsets_)
<1>1. n \in Nat /\ i \in 1 .. n /\ Len(b.result_) \in Nat
      /\ \A j \in 1 .. n : b.filter_offsets_[j] \in Nat
  BY BuilderFacts
<1>2. FilterEnd(b, i) = IF i = n THEN Len(b.result_) ELSE b.filter_offsets_[i + 1]
  BY DEF FilterEnd
<1> HIDE DEF n
<1>3. i # n => i + 1 \in 1 .. n
  BY <1>1
<1> QED BY <1>1, <1>2, <1>3

(* A filter made of the keys that wait.                                    *)
Generates(b, c) ==
  /\ c \in BuilderType /\ c.keys_ = <<>>
  /\ c.result_ = b.result_ \o b.keys_
  /\ c.filter_offsets_ = Append(b.filter_offsets_, Len(b.result_))

LEMMA GenerateIs ==
  ASSUME NEW b \in BuilderType
  PROVE  Generates(b, GenerateFilter(b))
<1> DEFINE c == GenerateFilter(b)
           T == Bytes
<1>1. /\ b.keys_ \in Seq(T) /\ b.result_ \in Seq(T) /\ b.filter_offsets_ \in Seq(Nat)
      /\ Len(b.result_) \in Nat
  BY BuilderFacts
<1>2. /\ c.keys_ = <<>> /\ c.filter_offsets_ = Append(b.filter_offsets_, Len(b.result_))
      /\ c.result_ = IF b.keys_ = <<>> THEN b.result_ ELSE b.result_ \o b.keys_
      /\ c = [keys_ |-> c.keys_, result_ |-> c.result_, filter_offsets_ |-> c.filter_offsets_]
  BY DEF GenerateFilter, CreateFilter
<1> HIDE DEF c, T
<1>3. c.result_ = b.result_ \o b.keys_
  <2>1. CASE b.keys_ = <<>>
    <3>1. b.result_ \o <<>> = b.result_
      BY <1>1
    <3> QED BY <1>2, <2>1, <3>1
  <2>2. CASE b.keys_ # <<>>
    BY <1>2, <2>2
  <2> QED BY <2>1, <2>2
<1>4. c.result_ \in Seq(T) /\ c.keys_ \in Seq(T) /\ c.filter_offsets_ \in Seq(Nat)
  <2>1. b.result_ \o b.keys_ \in Seq(T) /\ <<>> \in Seq(T)
    BY <1>1
  <2>2. Append(b.filter_offsets_, Len(b.result_)) \in Seq(Nat)
    BY <1>1
  <2> QED BY <1>2, <1>3, <2>1, <2>2
<1>5. c \in [keys_ : Seq(T), result_ : Seq(T), filter_offsets_ : Seq(Nat)]
  BY <1>2, <1>4
<1>6. c \in BuilderType
  BY <1>5 DEF BuilderType, T
<1> QED BY <1>2, <1>3, <1>6 DEF Generates, c

LEMMA GenerateFilters ==
  ASSUME NEW b, NEW C, Filters(b, C)
  PROVE  LET c == GenerateFilter(b)
         IN /\ Filters(c, C) /\ HeldKeys(c) = HeldKeys(b) /\ c.keys_ = <<>>
            /\ Len(c.filter_offsets_) = Len(b.filter_offsets_) + 1
<1> DEFINE c == GenerateFilter(b)
           n == Len(b.filter_offsets_)
           m == Len(b.result_)
           k == Len(b.keys_)
           o == b.filter_offsets_
           p == c.filter_offsets_
<1>1. /\ b \in BuilderType /\ n \in Nat /\ m \in Nat /\ k \in Nat /\ o \in Seq(Nat)
      /\ b.keys_ \in Seq(Bytes) /\ b.result_ \in Seq(Bytes)
  BY BuilderFacts DEF Filters
<1>2. Generates(b, c)
  BY <1>1, GenerateIs
<1>3. /\ c \in BuilderType /\ c.keys_ = <<>> /\ c.result_ = b.result_ \o b.keys_
      /\ p = Append(o, m)
  BY <1>2 DEF Generates
<1> HIDE DEF c
<1>4. /\ Len(p) = n + 1 /\ p[n + 1] = m /\ \A i \in 1 .. n : p[i] = o[i]
  BY <1>1, <1>3, AppendFacts
<1>5. /\ Len(c.result_) = m + k
      /\ \A i \in 1 .. m : c.result_[i] = b.result_[i]
      /\ \A i \in 1 .. k : c.result_[m + i] = b.keys_[i]
  <2>1. Joins(b.result_, b.keys_, Bytes)
    BY <1>1, JoinIs
  <2> QED BY <1>3, <2>1 DEF Joins
<1> HIDE DEF p, n, m, k
<1>6. ASSUME NEW i \in 1 .. n
      PROVE  FilterEnd(c, i) = FilterEnd(b, i)
  <2>1. i # n + 1
    BY <1>1
  <2>2. FilterEnd(c, i) = p[i + 1]
    BY <1>4, <2>1 DEF FilterEnd, p
  <2>3. FilterEnd(b, i) = IF i = n THEN m ELSE o[i + 1]
    BY DEF FilterEnd, n, m
  <2>4. i # n => i + 1 \in 1 .. n
    BY <1>1
  <2> QED BY <1>4, <2>2, <2>3, <2>4
<1>7. ASSUME NEW i \in 1 .. n
      PROVE  /\ o[i] <= FilterEnd(b, i) /\ FilterEnd(b, i) <= m /\ Filter(b, i) = C[i - 1]
             /\ FilterEnd(b, i) \in Nat /\ o[i] \in Nat
  BY <1>1, BuilderFacts, FilterEndType DEF Filters, n, m
<1>8. ASSUME NEW i \in 1 .. n
      PROVE  Filter(c, i) = C[i - 1]
  <2>1. Filter(c, i) = {c.result_[l] : l \in o[i] + 1 .. FilterEnd(b, i)}
    BY <1>4, <1>6 DEF Filter, p
  <2>2. Filter(b, i) = {b.result_[l] : l \in o[i] + 1 .. FilterEnd(b, i)}
    BY DEF Filter
  <2> DEFINE e == FilterEnd(b, i)
             f == o[i]
  <2>3. f \in Nat /\ e \in Nat /\ e <= m
    BY <1>7
  <2> HIDE DEF e, f
  <2>4. \A l \in f + 1 .. e : l \in 1 .. m
    BY <1>1, <2>3
  <2>5. \A l \in f + 1 .. e : c.result_[l] = b.result_[l]
    BY <1>5, <2>4
  <2>6. {c.result_[l] : l \in f + 1 .. e} = {b.result_[l] : l \in f + 1 .. e}
    BY <2>5
  <2> QED BY <1>7, <2>1, <2>2, <2>6 DEF e, f
<1>9. FilterEnd(c, n + 1) = m + k
  BY <1>4, <1>5 DEF FilterEnd, p
<1>10. Filter(c, n + 1) = C[n]
  <2>1. Filter(c, n + 1) = {c.result_[l] : l \in m + 1 .. m + k}
    BY <1>4, <1>9 DEF Filter, p
  <2>2. ToSet(b.keys_) = {b.keys_[l] : l \in 1 .. k}
    <3>1. DOMAIN b.keys_ = 1 .. k
      BY <1>1, SeqFacts DEF k
    <3> QED BY <3>1 DEF ToSet
  <2>3. \A l \in 1 .. k : m + l \in m + 1 .. m + k
    BY <1>1
  <2>4. \A l \in m + 1 .. m + k : l - m \in 1 .. k /\ m + (l - m) = l
    BY <1>1
  <2>5. {c.result_[l] : l \in m + 1 .. m + k} = {b.keys_[l] : l \in 1 .. k}
    <3>1. ASSUME NEW l \in m + 1 .. m + k
          PROVE  \E j \in 1 .. k : c.result_[l] = b.keys_[j]
      <4>1. l - m \in 1 .. k /\ c.result_[m + (l - m)] = b.keys_[l - m] /\ m + (l - m) = l
        BY <1>5, <2>4
      <4> QED BY <4>1, Zenon
    <3>2. ASSUME NEW j \in 1 .. k
          PROVE  \E l \in m + 1 .. m + k : b.keys_[j] = c.result_[l]
      BY <1>5, <2>3
    <3> DEFINE U == {c.result_[l] : l \in m + 1 .. m + k}
               V == {b.keys_[l] : l \in 1 .. k}
    <3>3. U \subseteq V /\ V \subseteq U
      BY <3>1, <3>2, Zenon
    <3> HIDE DEF U, V
    <3>4. U = V
      BY <3>3
    <3> QED BY <3>4 DEF U, V
  <2>6. ToSet(b.keys_) = C[n]
    BY DEF Filters, n
  <2> QED BY <2>1, <2>2, <2>5, <2>6
<1>11. ASSUME NEW i \in 1 .. n + 1
       PROVE  /\ p[i] <= FilterEnd(c, i) /\ FilterEnd(c, i) <= Len(c.result_)
              /\ Filter(c, i) = C[i - 1]
  <2>1. CASE i \in 1 .. n
    <3>1. p[i] <= FilterEnd(c, i) /\ FilterEnd(c, i) <= m + k
      <4> DEFINE e == FilterEnd(b, i)
      <4>1. o[i] <= e /\ e <= m /\ e \in Nat /\ p[i] = o[i] /\ FilterEnd(c, i) = e
        BY <1>4, <1>6, <1>7, <2>1
      <4> HIDE DEF e
      <4> QED BY <1>1, <4>1
    <3> QED BY <1>5, <1>8, <2>1, <3>1
  <2>2. CASE i = n + 1
    <3>1. (n + 1) - 1 = n /\ m <= m + k /\ m + k <= m + k
      BY <1>1
    <3>2. p[n + 1] <= FilterEnd(c, n + 1) /\ FilterEnd(c, n + 1) <= Len(c.result_)
      BY <1>4, <1>5, <1>9, <3>1
    <3>3. Filter(c, n + 1) = C[(n + 1) - 1]
      BY <1>10, <3>1
    <3> QED BY <2>2, <3>2, <3>3, Zenon
  <2> QED BY <1>1, <2>1, <2>2
<1>12. ToSet(c.keys_) = C[n + 1]
  <2>1. C[n + 1] = {}
    <3>1. n + 1 \in Nat /\ n + 1 > n
      BY <1>1
    <3> QED BY <3>1 DEF Filters, n
  <2> QED BY <1>3, <2>1 DEF ToSet
<1>13. ASSUME NEW i \in Nat, i > n + 1 PROVE C[i] = {}
  <2>1. i > n
    BY <1>1, <1>13
  <2> QED BY <2>1 DEF Filters, n
<1>14. Filters(c, C)
  BY <1>3, <1>4, <1>11, <1>12, <1>13 DEF Filters, p
<1>15. HeldKeys(c) = HeldKeys(b)
  <2>1. Len(c.keys_) = 0
    BY <1>3
  <2>2. m + k + 0 = m + k
    BY <1>1
  <2> QED BY <1>5, <2>1, <2>2 DEF HeldKeys, m, k
<1> QED BY <1>3, <1>4, <1>14, <1>15 DEF c, p, n

(* StartBlock makes a filter for every stretch before an offset.           *)
Generated(f, b, n) ==
  f = [i \in 0 .. n |-> IF i = 0 THEN b ELSE GenerateFilter(f[i - 1])]

LEMMA GeneratedExists ==
  ASSUME NEW b, NEW n \in Nat
  PROVE  \E f : Generated(f, b, n)
<1> DEFINE D == {k \in Nat : ~ \E f : Generated(f, b, k)}
<1> SUFFICES ASSUME D # {} PROVE FALSE
  OBVIOUS
<1>1. PICK k \in D : \A j \in D : k <= j
  <2>1. D \in SUBSET Nat
    OBVIOUS
  <2> QED BY <2>1, SmallestExists
<1>2. k \in Nat /\ ~ \E f : Generated(f, b, k)
  OBVIOUS
<1>3. k # 0
  <2> SUFFICES ASSUME k = 0 PROVE FALSE
    OBVIOUS
  <2> DEFINE g == [i \in 0 .. 0 |-> b]
             x == [i \in 0 .. 0 |-> IF i = 0 THEN b ELSE GenerateFilter(g[i - 1])]
  <2>1. \A i \in 0 .. 0 : i = 0
    OBVIOUS
  <2>2. g = x
    <3>1. \A i \in 0 .. 0 : g[i] = x[i]
      BY <2>1
    <3>2. g = [i \in 0 .. 0 |-> g[i]] /\ x = [i \in 0 .. 0 |-> x[i]]
      OBVIOUS
    <3> HIDE DEF g, x
    <3> QED BY <3>1, <3>2
  <2> HIDE DEF g
  <2>3. Generated(g, b, 0)
    BY <2>2 DEF Generated
  <2> QED BY <1>2, <2>3
<1>4. k - 1 \in Nat /\ ~ (k <= k - 1)
  BY <1>2, <1>3
<1>5. PICK h : Generated(h, b, k - 1)
  BY <1>1, <1>4
<1> DEFINE g == [i \in 0 .. k |-> IF i = 0 THEN b ELSE GenerateFilter(h[i - 1])]
<1>6. \A i \in 0 .. k - 1 : g[i] = h[i]
  <2>1. \A i \in 0 .. k - 1 : h[i] = IF i = 0 THEN b ELSE GenerateFilter(h[i - 1])
    BY <1>5 DEF Generated
  <2>2. 0 .. k - 1 \subseteq 0 .. k
    BY <1>2, <1>4
  <2> QED BY <2>1, <2>2
<1>7. \A i \in 0 .. k : i # 0 => i - 1 \in 0 .. k - 1
  BY <1>2
<1>8. \A i \in 0 .. k : i # 0 => h[i - 1] = g[i - 1]
  BY <1>6, <1>7
<1>9. g = [i \in 0 .. k |-> IF i = 0 THEN b ELSE GenerateFilter(g[i - 1])]
  <2> DEFINE x == [i \in 0 .. k |-> IF i = 0 THEN b ELSE GenerateFilter(g[i - 1])]
  <2>1. \A i \in 0 .. k : g[i] = x[i]
    BY <1>8
  <2>2. g = [i \in 0 .. k |-> g[i]] /\ x = [i \in 0 .. k |-> x[i]]
    OBVIOUS
  <2> HIDE DEF g, x
  <2>3. g = x
    BY <2>1, <2>2
  <2> QED BY <2>3 DEF x
<1>10. Generated(g, b, k)
  <2> HIDE DEF g
  <2> QED BY <1>9 DEF Generated
<1> QED BY <1>2, <1>10

LEMMA StartFilters ==
  ASSUME NEW b, NEW C, Filters(b, C), NEW o \in Nat,
         Len(b.filter_offsets_) <= o \div kFilterBase
  PROVE  LET s == StartBlock(b, o)
         IN /\ Filters(s, C) /\ HeldKeys(s) = HeldKeys(b)
            /\ Len(s.filter_offsets_) = o \div kFilterBase
<1> DEFINE l == Len(b.filter_offsets_)
           q == o \div kFilterBase
           n == q - l
           s == StartBlock(b, o)
           f == CHOOSE g : Generated(g, b, n)
<1>1. q \in Nat /\ l \in Nat
  BY BaseIsPositive, DivType, BuilderFacts DEF Filters
<1>2. l <= q
  OBVIOUS
<1>3. s = IF n > 0 THEN f[n] ELSE b
  BY DEF StartBlock, Generated
<1> HIDE DEF s, q, l
<1>4. n \in Nat
  BY <1>1, <1>2
<1>5. Generated(f, b, n)
  BY <1>4, GeneratedExists
<1> HIDE DEF f, n
<1>6. f[0] = b /\ \A i \in 1 .. n : f[i] = GenerateFilter(f[i - 1])
  <2>1. \A i \in 0 .. n : f[i] = IF i = 0 THEN b ELSE GenerateFilter(f[i - 1])
    BY <1>5 DEF Generated
  <2>2. 0 \in 0 .. n /\ \A i \in 1 .. n : i \in 0 .. n /\ i # 0
    BY <1>4
  <2> QED BY <2>1, <2>2
<1> DEFINE Fits(c, i) == /\ Filters(c, C) /\ HeldKeys(c) = HeldKeys(b)
                         /\ Len(c.filter_offsets_) = l + i
<1>7. \A i \in 0 .. n : Fits(f[i], i)
  <2> DEFINE D == {i \in 0 .. n : ~ Fits(f[i], i)}
  <2> SUFFICES ASSUME D # {} PROVE FALSE
    OBVIOUS
  <2>1. PICK k \in D : \A j \in D : k <= j
    <3>1. D \in SUBSET Nat
      BY <1>4
    <3> QED BY <3>1, SmallestExists
  <2>2. k \in 0 .. n /\ ~ Fits(f[k], k)
    OBVIOUS
  <2>3. k # 0
    <3>1. Fits(b, 0)
      <4>1. Len(b.filter_offsets_) = l + 0
        BY <1>1 DEF l
      <4> QED BY <4>1
    <3> QED BY <1>6, <2>2, <3>1
  <2>4. k \in 1 .. n /\ k - 1 \in 0 .. n /\ ~ (k <= k - 1)
    BY <1>4, <2>2, <2>3
  <2>5. Fits(f[k - 1], k - 1)
    BY <2>1, <2>4
  <2>6. f[k] = GenerateFilter(f[k - 1])
    BY <1>6, <2>4
  <2>7. /\ Filters(f[k], C) /\ HeldKeys(f[k]) = HeldKeys(b)
        /\ Len(f[k].filter_offsets_) = l + (k - 1) + 1
    BY <2>5, <2>6, GenerateFilters
  <2>8. l + (k - 1) + 1 = l + k
    BY <1>1, <2>2
  <2>9. Fits(f[k], k)
    BY <2>7, <2>8
  <2> QED BY <2>2, <2>9
<1>8. Fits(s, n)
  <2>1. CASE n > 0
    <3>1. n \in 0 .. n
      BY <1>4
    <3> QED BY <1>3, <1>7, <2>1, <3>1
  <2>2. CASE ~ (n > 0)
    <3>1. n = 0 /\ 0 \in 0 .. n
      BY <1>4, <2>2
    <3> QED BY <1>3, <1>6, <1>7, <2>2, <3>1
  <2> QED BY <2>1, <2>2
<1>9. l + n = q
  BY <1>1 DEF n
<1> QED BY <1>8, <1>9 DEF s, q

LEMMA AddKeysFilters ==
  ASSUME NEW b, NEW C, Filters(b, C), NEW keys \in Seq(Bytes), NEW D,
         D[Len(b.filter_offsets_)] = C[Len(b.filter_offsets_)] \cup ToSet(keys),
         \A i \in Nat : i # Len(b.filter_offsets_) => D[i] = C[i]
  PROVE  LET c == AddKeys(b, keys)
         IN /\ Filters(c, D) /\ HeldKeys(c) = HeldKeys(b) + Len(keys)
            /\ c.filter_offsets_ = b.filter_offsets_
<1> DEFINE c == AddKeys(b, keys)
           n == Len(b.filter_offsets_)
           T == Bytes
<1>1. /\ b \in BuilderType /\ n \in Nat /\ Len(b.result_) \in Nat /\ Len(b.keys_) \in Nat
      /\ b.keys_ \in Seq(T) /\ b.result_ \in Seq(T) /\ b.filter_offsets_ \in Seq(Nat)
      /\ keys \in Seq(T)
  BY BuilderFacts DEF Filters
<1>2. c \in BuilderType /\ c.keys_ = b.keys_ \o keys /\ c.result_ = b.result_
      /\ c.filter_offsets_ = b.filter_offsets_
  <2> DEFINE k == b.keys_ \o keys
             S == Seq(T)
             N == Seq(Nat)
             x == [b EXCEPT !.keys_ = k]
  <2>1. c = x
    BY DEF AddKeys
  <2>2. b \in [keys_ : S, result_ : S, filter_offsets_ : N] /\ k \in S
    BY <1>1 DEF BuilderType
  <2> HIDE DEF k, S, N
  <2>3. /\ x \in [keys_ : S, result_ : S, filter_offsets_ : N] /\ x.keys_ = k
        /\ x.result_ = b.result_ /\ x.filter_offsets_ = b.filter_offsets_
    BY <2>2
  <2> HIDE DEF x, c
  <2> QED BY <2>1, <2>3 DEF k, S, N, BuilderType
<1> HIDE DEF c, T
<1>3. Joins(b.keys_, keys, T)
  BY <1>1, JoinIs
<1>5. ToSet(c.keys_) = ToSet(b.keys_) \cup ToSet(keys)
  <2> DEFINE m == Len(b.keys_)
             k == Len(keys)
             s == c.keys_
  <2>1. /\ m \in Nat /\ k \in Nat /\ Len(s) = m + k /\ s \in Seq(T)
        /\ \A i \in 1 .. m : s[i] = b.keys_[i]
        /\ \A i \in 1 .. k : s[m + i] = keys[i]
    BY <1>1, <1>2, <1>3 DEF Joins
  <2>2. DOMAIN b.keys_ = 1 .. m /\ DOMAIN keys = 1 .. k /\ DOMAIN s = 1 .. m + k
    BY <1>1, <2>1, SeqFacts
  <2> HIDE DEF m, k, s
  <2>3. ASSUME NEW x \in ToSet(s) PROVE x \in ToSet(b.keys_) \cup ToSet(keys)
    <3>1. PICK i \in 1 .. m + k : x = s[i]
      BY <2>2 DEF ToSet
    <3>2. CASE i \in 1 .. m
      BY <2>1, <2>2, <3>1, <3>2 DEF ToSet
    <3>3. CASE i \notin 1 .. m
      <4>1. i - m \in 1 .. k /\ m + (i - m) = i
        BY <2>1, <3>3
      <4>2. s[m + (i - m)] = keys[i - m]
        BY <2>1, <4>1
      <4> QED BY <2>2, <3>1, <4>1, <4>2 DEF ToSet
    <3> QED BY <3>2, <3>3
  <2>4. ASSUME NEW x \in ToSet(b.keys_) PROVE x \in ToSet(s)
    <3>1. PICK i \in 1 .. m : x = b.keys_[i]
      BY <2>2 DEF ToSet
    <3>2. i \in 1 .. m + k /\ x = s[i]
      BY <2>1, <3>1
    <3> QED BY <2>2, <3>2 DEF ToSet
  <2>5. ASSUME NEW x \in ToSet(keys) PROVE x \in ToSet(s)
    <3>1. PICK i \in 1 .. k : x = keys[i]
      BY <2>2 DEF ToSet
    <3>2. m + i \in 1 .. m + k /\ x = s[m + i]
      BY <2>1, <3>1
    <3> QED BY <2>2, <3>2 DEF ToSet
  <2>6. ToSet(s) = ToSet(b.keys_) \cup ToSet(keys)
    BY <2>3, <2>4, <2>5
  <2> QED BY <2>6 DEF s
<1>6. ToSet(c.keys_) = D[n]
  <2>1. ToSet(b.keys_) = C[n]
    BY DEF Filters
  <2> QED BY <1>5, <2>1
<1>7. ASSUME NEW i \in 1 .. n
      PROVE  /\ c.filter_offsets_[i] <= FilterEnd(c, i) /\ FilterEnd(c, i) <= Len(c.result_)
             /\ Filter(c, i) = D[i - 1]
  <2>1. FilterEnd(c, i) = FilterEnd(b, i) /\ Filter(c, i) = Filter(b, i)
    BY <1>2 DEF Filter, FilterEnd
  <2>2. D[i - 1] = C[i - 1]
    <3>1. i - 1 \in Nat /\ i - 1 # n
      BY <1>1
    <3> QED BY <3>1
  <2>3. /\ b.filter_offsets_[i] <= FilterEnd(b, i) /\ FilterEnd(b, i) <= Len(b.result_)
        /\ Filter(b, i) = C[i - 1]
    BY DEF Filters
  <2> QED BY <1>2, <2>1, <2>2, <2>3
<1>8. ASSUME NEW i \in Nat, i > n PROVE D[i] = {}
  <2>1. i # n
    BY <1>1, <1>8
  <2>2. C[i] = {}
    BY <1>8 DEF Filters
  <2> QED BY <2>1, <2>2
<1>9. Filters(c, D)
  BY <1>2, <1>6, <1>7, <1>8 DEF Filters
<1>10. HeldKeys(c) = HeldKeys(b) + Len(keys)
  <2> DEFINE m == Len(b.keys_)
             k == Len(keys)
             l == Len(b.result_)
  <2>1. m \in Nat /\ k \in Nat /\ l \in Nat /\ Len(c.keys_) = m + k
    BY <1>1, <1>2, <1>3 DEF Joins
  <2>2. Len(c.result_) = l
    BY <1>2
  <2> HIDE DEF m, k, l
  <2>3. l + (m + k) = (l + m) + k
    BY <2>1
  <2> QED BY <2>1, <2>2, <2>3 DEF HeldKeys, m, k, l
<1> QED BY <1>2, <1>9, <1>10 DEF c

(* FilterOf feeds the blocks one by one.                                   *)
Fed(b, x) == StartBlock(AddKeys(b, BlockKeys(x.block)),
                        x.handle.offset + x.handle.size + kBlockTrailerSize)
Built(f, blocks, n) ==
  f = [j \in 0 .. n |-> IF j = 0 THEN StartBlock(NewFilterBlock, 0) ELSE Fed(f[j - 1], blocks[j])]

LEMMA BuiltExists ==
  ASSUME NEW blocks, NEW n \in Nat
  PROVE  \E f : Built(f, blocks, n)
<1> DEFINE D == {k \in Nat : ~ \E f : Built(f, blocks, k)}
           b == StartBlock(NewFilterBlock, 0)
<1> SUFFICES ASSUME D # {} PROVE FALSE
  OBVIOUS
<1>1. PICK k \in D : \A j \in D : k <= j
  <2>1. D \in SUBSET Nat
    OBVIOUS
  <2> QED BY <2>1, SmallestExists
<1>2. k \in Nat /\ ~ \E f : Built(f, blocks, k)
  OBVIOUS
<1>3. k # 0
  <2> SUFFICES ASSUME k = 0 PROVE FALSE
    OBVIOUS
  <2> DEFINE g == [j \in 0 .. 0 |-> b]
             x == [j \in 0 .. 0 |-> IF j = 0 THEN b ELSE Fed(g[j - 1], blocks[j])]
  <2>1. \A j \in 0 .. 0 : j = 0
    OBVIOUS
  <2>2. g = x
    <3>1. \A j \in 0 .. 0 : g[j] = x[j]
      BY <2>1
    <3>2. g = [j \in 0 .. 0 |-> g[j]] /\ x = [j \in 0 .. 0 |-> x[j]]
      OBVIOUS
    <3> HIDE DEF g, x
    <3> QED BY <3>1, <3>2
  <2> HIDE DEF g
  <2>3. Built(g, blocks, 0)
    BY <2>2 DEF Built
  <2> QED BY <1>2, <2>3
<1>4. k - 1 \in Nat /\ ~ (k <= k - 1)
  BY <1>2, <1>3
<1>5. PICK h : Built(h, blocks, k - 1)
  BY <1>1, <1>4
<1>6. \A j \in 0 .. k - 1 : h[j] = IF j = 0 THEN b ELSE Fed(h[j - 1], blocks[j])
  BY <1>5 DEF Built
<1> HIDE DEF b
<1> DEFINE g == [j \in 0 .. k |-> IF j = 0 THEN b ELSE Fed(h[j - 1], blocks[j])]
<1>7. \A j \in 0 .. k - 1 : g[j] = h[j]
  <2>1. 0 .. k - 1 \subseteq 0 .. k
    BY <1>2, <1>4
  <2> QED BY <1>6, <2>1
<1>8. \A j \in 0 .. k : j # 0 => j - 1 \in 0 .. k - 1
  BY <1>2
<1>9. \A j \in 0 .. k : j # 0 => h[j - 1] = g[j - 1]
  BY <1>7, <1>8
<1>10. g = [j \in 0 .. k |-> IF j = 0 THEN b ELSE Fed(g[j - 1], blocks[j])]
  <2> DEFINE x == [j \in 0 .. k |-> IF j = 0 THEN b ELSE Fed(g[j - 1], blocks[j])]
  <2>1. \A j \in 0 .. k : g[j] = x[j]
    BY <1>9
  <2>2. g = [j \in 0 .. k |-> g[j]] /\ x = [j \in 0 .. k |-> x[j]]
    OBVIOUS
  <2> HIDE DEF g, x
  <2>3. g = x
    BY <2>1, <2>2
  <2> QED BY <2>3 DEF x
<1>11. Built(g, blocks, k)
  <2> HIDE DEF g
  <2> QED BY <1>10 DEF Built, b
<1> QED BY <1>2, <1>11

LEMMA FilterOfIs ==
  ASSUME NEW blocks, NEW n \in Nat, Len(blocks) = n
  PROVE  \E f : Built(f, blocks, n) /\ FilterOf(blocks) = FinishFilter(f[n])
<1> DEFINE f == CHOOSE g : Built(g, blocks, n)
<1>1. Built(f, blocks, n)
  BY BuiltExists
<1>2. FilterOf(blocks) = FinishFilter(f[n])
  BY DEF FilterOf, Built, Fed
<1> QED BY <1>1, <1>2

(* Blocks with keys that lie one behind the other: block j from E[j - 1]   *)
(* to E[j].                                                                *)
Feeds(blocks, E, m) ==
  /\ m \in Nat /\ Len(blocks) = m /\ E[0] = 0
  /\ \A j \in 1 .. m :
       /\ BlockKeys(blocks[j].block) \in Seq(Bytes) /\ BlockKeys(blocks[j].block) # <<>>
       /\ E[j - 1] \in Nat /\ E[j] \in Nat
       /\ blocks[j].handle.offset = E[j - 1]
       /\ blocks[j].handle.offset + blocks[j].handle.size + kBlockTrailerSize = E[j]
       /\ E[j - 1] + Len(BlockKeys(blocks[j].block)) <= E[j]

(* The keys of those of the first n blocks that begin in stretch i.        *)
StretchOf(x) == x.handle.offset \div kFilterBase
StretchKeys(blocks, n) ==
  [i \in Nat |-> UNION {ToSet(BlockKeys(blocks[l].block)) :
                          l \in {k \in 1 .. n : StretchOf(blocks[k]) = i}}]

LEMMA StretchKeysAdded ==
  ASSUME NEW blocks, NEW n \in Nat \ {0}, NEW i \in Nat
  PROVE  StretchKeys(blocks, n)[i] =
           StretchKeys(blocks, n - 1)[i]
             \cup IF StretchOf(blocks[n]) = i THEN ToSet(BlockKeys(blocks[n].block)) ELSE {}
<1> DEFINE K(l) == ToSet(BlockKeys(blocks[l].block))
           At(l) == StretchOf(blocks[l]) = i
<1>1. /\ StretchKeys(blocks, n)[i] = UNION {K(l) : l \in {k \in 1 .. n : At(k)}}
      /\ StretchKeys(blocks, n - 1)[i] = UNION {K(l) : l \in {k \in 1 .. n - 1 : At(k)}}
  BY DEF StretchKeys
<1> HIDE DEF K, At
<1>2. 1 .. n = (1 .. n - 1) \cup {n}
  OBVIOUS
<1> DEFINE N == 1 .. n
           M == 1 .. n - 1
           U(S) == UNION {K(l) : l \in {k \in S : At(k)}}
<1>3. N = M \cup {n}
  BY <1>2
<1> HIDE DEF N, M
<1>4. U(N) = U(M) \cup (IF At(n) THEN K(n) ELSE {})
  <2>1. ASSUME NEW x \in U(N) PROVE x \in U(M) \cup (IF At(n) THEN K(n) ELSE {})
    <3>1. PICK l \in N : At(l) /\ x \in K(l)
      BY <2>1
    <3>2. CASE l \in M
      BY <3>1, <3>2
    <3>3. CASE l = n
      BY <3>1, <3>3
    <3> QED BY <1>3, <3>2, <3>3
  <2>2. ASSUME NEW x \in U(M) PROVE x \in U(N)
    BY <1>3, <2>2
  <2>3. ASSUME At(n), NEW x \in K(n) PROVE x \in U(N)
    BY <1>3, <2>3
  <2> HIDE DEF U
  <2> QED BY <2>1, <2>2, <2>3
<1> QED BY <1>1, <1>4 DEF N, M, K, At

LEMMA NoStretchKeys ==
  ASSUME NEW blocks, NEW i \in Nat
  PROVE  StretchKeys(blocks, 0)[i] = {}
<1>1. 1 .. 0 = {}
  OBVIOUS
<1>2. StretchKeys(blocks, 0)[i] =
        UNION {ToSet(BlockKeys(blocks[l].block)) : l \in {k \in 1 .. 0 : StretchOf(blocks[k]) = i}}
  BY DEF StretchKeys
<1> QED BY <1>1, <1>2

(* What a builder holds that was given the first n blocks.                 *)
BuilderAt(b, blocks, E, n) ==
  /\ Filters(b, StretchKeys(blocks, n))
  /\ Len(b.filter_offsets_) = E[n] \div kFilterBase /\ HeldKeys(b) <= E[n]

LEMMA NewBuilder ==
  ASSUME NEW blocks, NEW E, E[0] = 0
  PROVE  BuilderAt(StartBlock(NewFilterBlock, 0), blocks, E, 0)
<1> DEFINE b == NewFilterBlock
           C == StretchKeys(blocks, 0)
<1>1. b.keys_ = <<>> /\ b.result_ = <<>> /\ b.filter_offsets_ = <<>>
  BY DEF NewFilterBlock
<1>2. b \in BuilderType
  <2> DEFINE S == Seq(Bytes)
             N == Seq(Nat)
  <2>1. <<>> \in S /\ <<>> \in N
    OBVIOUS
  <2> HIDE DEF S, N
  <2>2. b \in [keys_ : S, result_ : S, filter_offsets_ : N]
    BY <2>1 DEF NewFilterBlock
  <2> QED BY <2>2 DEF S, N, BuilderType
<1>3. \A i \in Nat : C[i] = {}
  BY NoStretchKeys
<1>4. Len(b.keys_) = 0 /\ Len(b.result_) = 0 /\ Len(b.filter_offsets_) = 0 /\ ToSet(b.keys_) = {}
  <2>1. Len(<<>>) = 0 /\ ToSet(<<>>) = {}
    BY DEF ToSet
  <2> QED BY <1>1, <2>1
<1> HIDE DEF b, C
<1>5. Filters(b, C)
  <2>1. \A i \in 1 .. 0 : FALSE
    OBVIOUS
  <2> QED BY <1>2, <1>3, <1>4, <2>1 DEF Filters
<1>6. 0 \div kFilterBase = 0
  BY BaseIsPositive, DivType
<1>7. HeldKeys(b) = 0
  BY <1>4 DEF HeldKeys
<1>8. LET s == StartBlock(b, 0)
      IN /\ Filters(s, C) /\ HeldKeys(s) = 0 /\ Len(s.filter_offsets_) = 0
  BY <1>4, <1>5, <1>6, <1>7, StartFilters
<1>9. E[0] \div kFilterBase = 0
  BY <1>6
<1> QED BY <1>8, <1>9 DEF BuilderAt, b, C

LEMMA FedBuilder ==
  ASSUME NEW blocks, NEW E, NEW m, Feeds(blocks, E, m), NEW n \in 1 .. m,
         NEW b, BuilderAt(b, blocks, E, n - 1)
  PROVE  BuilderAt(Fed(b, blocks[n]), blocks, E, n)
<1> DEFINE x == blocks[n]
           keys == BlockKeys(x.block)
           C == StretchKeys(blocks, n - 1)
           D == StretchKeys(blocks, n)
           c == AddKeys(b, keys)
           s == StartBlock(c, E[n])
           q == Len(b.filter_offsets_)
<1>1. /\ m \in Nat /\ n \in Nat \ {0} /\ keys \in Seq(Bytes)
      /\ E[n - 1] \in Nat /\ E[n] \in Nat /\ x.handle.offset = E[n - 1]
      /\ x.handle.offset + x.handle.size + kBlockTrailerSize = E[n]
      /\ E[n - 1] + Len(keys) <= E[n]
  <2>1. m \in Nat
    BY DEF Feeds
  <2>2. n \in Nat \ {0}
    BY <2>1
  <2> QED BY <2>1, <2>2 DEF Feeds
<1>2. /\ Filters(b, C) /\ q = E[n - 1] \div kFilterBase /\ HeldKeys(b) <= E[n - 1]
  BY DEF BuilderAt
<1>3. StretchOf(x) = q
  BY <1>1, <1>2 DEF StretchOf
<1>4. \A i \in Nat : D[i] = C[i] \cup IF StretchOf(x) = i THEN ToSet(keys) ELSE {}
  BY <1>1, StretchKeysAdded
<1>5. Fed(b, x) = s
  BY <1>1 DEF Fed
<1> HIDE DEF x, keys, C, D, q
<1>6. q \in Nat
  BY <1>1, <1>2, BaseIsPositive, DivType
<1>7. D[q] = C[q] \cup ToSet(keys) /\ \A i \in Nat : i # q => D[i] = C[i]
  BY <1>3, <1>4, <1>6
<1>8. Filters(c, D) /\ HeldKeys(c) = HeldKeys(b) + Len(keys) /\ Len(c.filter_offsets_) = q
  BY <1>1, <1>2, <1>7, AddKeysFilters DEF q
<1> HIDE DEF c
<1>9. Len(keys) \in Nat /\ HeldKeys(b) \in Nat
  <2>1. Len(b.result_) \in Nat /\ Len(b.keys_) \in Nat
    BY <1>2, BuilderFacts DEF Filters
  <2>2. Len(keys) \in Nat
    BY <1>1, SeqFacts
  <2>3. Len(b.result_) + Len(b.keys_) \in Nat
    <3> DEFINE l == Len(b.result_)
               k == Len(b.keys_)
    <3>1. l \in Nat /\ k \in Nat
      BY <2>1
    <3> HIDE DEF l, k
    <3>2. l + k \in Nat
      BY <3>1
    <3> QED BY <3>2 DEF l, k
  <2> QED BY <2>2, <2>3 DEF HeldKeys
<1>10. E[n - 1] <= E[n] /\ HeldKeys(c) <= E[n]
  <2> DEFINE l == Len(keys)
             h == HeldKeys(b)
             d == E[n - 1]
             e == E[n]
  <2>1. l \in Nat /\ h \in Nat /\ d \in Nat /\ e \in Nat /\ d + l <= e /\ h <= d
    BY <1>1, <1>2, <1>9
  <2> HIDE DEF l, h, d, e
  <2>2. d <= e /\ h + l <= e
    BY <2>1
  <2> QED BY <1>8, <2>2 DEF l, h, d, e
<1>11. Len(c.filter_offsets_) <= E[n] \div kFilterBase
  BY <1>1, <1>2, <1>8, <1>10, BaseIsPositive, DivGrows
<1>12. Filters(s, D) /\ HeldKeys(s) = HeldKeys(c) /\ Len(s.filter_offsets_) = E[n] \div kFilterBase
  BY <1>1, <1>8, <1>11, StartFilters
<1> HIDE DEF s
<1>13. BuilderAt(s, blocks, E, n)
  BY <1>10, <1>12 DEF BuilderAt, D
<1> QED BY <1>5, <1>13 DEF x

LEMMA BuiltFilters ==
  ASSUME NEW blocks, NEW E, NEW m, Feeds(blocks, E, m), NEW f, Built(f, blocks, m)
  PROVE  BuilderAt(f[m], blocks, E, m)
<1>1. m \in Nat /\ E[0] = 0
  BY DEF Feeds
<1>2. /\ f[0] = StartBlock(NewFilterBlock, 0)
      /\ \A j \in 1 .. m : f[j] = Fed(f[j - 1], blocks[j])
  <2>1. \A j \in 0 .. m : f[j] = IF j = 0 THEN StartBlock(NewFilterBlock, 0)
                                 ELSE Fed(f[j - 1], blocks[j])
    BY DEF Built
  <2>2. 0 \in 0 .. m /\ \A j \in 1 .. m : j \in 0 .. m /\ j # 0
    BY <1>1
  <2> QED BY <2>1, <2>2
<1> DEFINE D == {j \in 0 .. m : ~ BuilderAt(f[j], blocks, E, j)}
<1>3. D = {}
  <2> SUFFICES ASSUME D # {} PROVE FALSE
    OBVIOUS
  <2>1. PICK k \in D : \A j \in D : k <= j
    <3>1. D \in SUBSET Nat
      BY <1>1
    <3> QED BY <3>1, SmallestExists
  <2>2. k \in 0 .. m /\ ~ BuilderAt(f[k], blocks, E, k)
    OBVIOUS
  <2>3. k # 0
    <3>1. BuilderAt(f[0], blocks, E, 0)
      BY <1>1, <1>2, NewBuilder
    <3> QED BY <2>2, <3>1
  <2>4. k \in 1 .. m /\ k - 1 \in 0 .. m /\ ~ (k <= k - 1)
    BY <1>1, <2>2, <2>3
  <2>5. BuilderAt(f[k - 1], blocks, E, k - 1)
    BY <2>1, <2>4
  <2>6. BuilderAt(f[k], blocks, E, k)
    BY <1>2, <2>4, <2>5, FedBuilder
  <2> QED BY <2>2, <2>6
<1>4. m \in 0 .. m
  BY <1>1
<1> QED BY <1>3, <1>4

(* Four bytes of a number among elements of any kind, ...                  *)
LEMMA WiderSeq ==
  ASSUME NEW S, NEW T, NEW s \in Seq(S)
  PROVE  s \in Seq(S \cup T) /\ s \in Seq(T \cup S)
  OBVIOUS

LEMMA WordAt ==
  ASSUME NEW S, NEW d \in Seq(S \cup Nat), NEW o \in Nat, NEW v, Small(v), o + 4 <= Len(d),
         \A i \in 1 .. 4 : d[o + i] = EncodeFixed(v, 4)[i]
  PROVE  DecodeFixed(SubSeq(d, o + 1, o + 4)) = v
<1> DEFINE w == EncodeFixed(v, 4)
           U == S \cup Nat
<1>1. v \in Nat
  BY DEF Small
<1>2. w \in Seq(Nat) /\ Len(w) = 4
  BY <1>1, FixedFourIs DEF FourBytes
<1>3. DecodeFixed(w) = v
  BY <1>1, FixedFourDecoded
<1> HIDE DEF w
<1>4. w \in Seq(U)
  BY <1>2, WiderSeq
<1> HIDE DEF U
<1>5. ASSUME NEW i \in 1 .. Len(w) PROVE o + i \in 1 .. Len(d) /\ d[o + i] = w[i]
  <2>1. i \in 1 .. 4
    BY <1>2
  <2>2. Len(d) \in Nat
    BY SeqFacts DEF U
  <2> DEFINE l == Len(d)
  <2>3. o + 4 <= l /\ l \in Nat
    BY <2>2
  <2> HIDE DEF l
  <2>4. o + i \in 1 .. l
    BY <2>1, <2>3
  <2> QED BY <2>1, <2>4 DEF w, l
<1>6. Len(w) # 0 /\ d \in Seq(U)
  BY <1>2 DEF U
<1>7. SubSeq(d, o + 1, o + Len(w)) = w
  BY <1>4, <1>5, <1>6, PartOf
<1> QED BY <1>2, <1>3, <1>7

(* ... and the elements between two places.                                *)
LEMMA PartSet ==
  ASSUME NEW S, NEW d \in Seq(S), NEW a \in Nat, NEW b \in Nat, a <= b, b <= Len(d)
  PROVE  ToSet(SubSeq(d, a + 1, b)) = {d[k] : k \in a + 1 .. b}
<1> DEFINE t == SubSeq(d, a + 1, b)
           n == b - a
           l == Len(d)
<1>1. l \in Nat /\ DOMAIN d = 1 .. l /\ b <= l
  BY SeqFacts
<1> HIDE DEF l
<1>2. \A k \in a + 1 .. b : k \in 1 .. l
  BY <1>1
<1>3. \A k \in a + 1 .. b : d[k] \in S
  BY <1>1, <1>2, ElementOfSeq DEF l
<1>4. /\ t \in Seq(S) /\ Len(t) = (IF a + 1 <= b THEN b - (a + 1) + 1 ELSE 0)
      /\ \A i \in 1 .. b - (a + 1) + 1 : t[i] = d[a + 1 + i - 1]
  BY <1>3, SubSeqProperties
<1>5. b - (a + 1) + 1 = n /\ n \in Nat /\ (~ (a + 1 <= b) => n = 0)
  OBVIOUS
<1> HIDE DEF t, n
<1>6. Len(t) = n /\ \A i \in 1 .. n : t[i] = d[a + i]
  <2>1. \A i \in 1 .. n : a + 1 + i - 1 = a + i
    BY <1>5
  <2>2. Len(t) = n
    BY <1>4, <1>5
  <2>3. \A i \in 1 .. n : t[i] = d[a + 1 + i - 1]
    BY <1>4, <1>5
  <2> QED BY <2>1, <2>2, <2>3
<1>7. DOMAIN t = 1 .. n
  BY <1>4, <1>6, SeqFacts
<1> DEFINE V == {d[k] : k \in a + 1 .. b}
<1>8. ASSUME NEW x \in ToSet(t) PROVE x \in V
  <2>1. PICK i \in 1 .. n : x = t[i]
    BY <1>7 DEF ToSet
  <2>2. a + i \in a + 1 .. b
    BY <2>1 DEF n
  <2> QED BY <1>6, <2>1, <2>2
<1>9. ASSUME NEW x \in V PROVE x \in ToSet(t)
  <2>1. PICK k \in a + 1 .. b : x = d[k]
    BY <1>9
  <2>2. k - a \in 1 .. n /\ a + (k - a) = k
    BY DEF n
  <2>3. x = t[k - a]
    BY <1>6, <2>1, <2>2
  <2> QED BY <1>7, <2>2, <2>3 DEF ToSet
<1> HIDE DEF V
<1>10. ToSet(t) = V
  BY <1>8, <1>9
<1> QED BY <1>10 DEF t, V

LEMMA PartMembers ==
  ASSUME NEW S, NEW d \in Seq(S), NEW a \in Nat, NEW b \in Nat, a <= b, b <= Len(d), NEW x
  PROVE  x \in ToSet(SubSeq(d, a + 1, b)) <=> \E k \in a + 1 .. b : x = d[k]
<1> DEFINE V == {d[k] : k \in a + 1 .. b}
<1>1. ToSet(SubSeq(d, a + 1, b)) = V
  BY PartSet
<1>2. x \in V <=> \E k \in a + 1 .. b : x = d[k]
  OBVIOUS
<1> HIDE DEF V
<1> QED BY <1>1, <1>2

(* The bytes of a finished filter block: filters, the places where they    *)
(* begin, the place behind the last one, the base.                         *)
FilterValues == Bytes \cup Nat
OffsetBytes(c) == FlattenSeq([i \in DOMAIN c.filter_offsets_ |-> EncodeFixed(c.filter_offsets_[i], 4)])
ContentsOf(c) == ((c.result_ \o OffsetBytes(c)) \o EncodeFixed(Len(c.result_), 4)) \o <<kFilterBaseLg>>

LEMMA FinishFilterIs ==
  ASSUME NEW b, NEW C, Filters(b, C)
  PROVE  \E c : /\ Filters(c, C) /\ c.keys_ = <<>> /\ Len(c.result_) = HeldKeys(b)
                /\ FinishFilter(b) = ContentsOf(c)
<1> DEFINE c == IF b.keys_ = <<>> THEN b ELSE GenerateFilter(b)
<1>1. FinishFilter(b) = ContentsOf(c)
  BY DEF FinishFilter, ContentsOf, OffsetBytes
<1>2. Filters(c, C) /\ c.keys_ = <<>> /\ HeldKeys(c) = HeldKeys(b)
  BY GenerateFilters
<1> HIDE DEF c
<1>3. Len(c.result_) = HeldKeys(b)
  <2>1. Len(c.keys_) = 0
    BY <1>2
  <2> DEFINE l == Len(c.result_)
  <2>2. l \in Nat /\ HeldKeys(b) = l + 0
    BY <1>2, <2>1, BuilderFacts DEF Filters, HeldKeys
  <2> HIDE DEF l
  <2>3. HeldKeys(b) = l
    BY <2>2
  <2> QED BY <2>3 DEF l
<1> QED BY <1>1, <1>2, <1>3

(* Where what stands in them.                                              *)
Stands(d, c, l, n) ==
  /\ d \in Seq(FilterValues) /\ Len(d) = l + 4 * n + 5
  /\ \A i \in 1 .. l : d[i] = c.result_[i]
  /\ \A j \in 1 .. n : \A i \in 1 .. 4 :
       d[l + 4 * (j - 1) + i] = EncodeFixed(c.filter_offsets_[j], 4)[i]
  /\ \A i \in 1 .. 4 : d[l + 4 * n + i] = EncodeFixed(l, 4)[i]
  /\ d[l + 4 * n + 5] = kFilterBaseLg

LEMMA ContentsStand ==
  ASSUME NEW c \in BuilderType
  PROVE  Stands(ContentsOf(c), c, Len(c.result_), Len(c.filter_offsets_))
<1> DEFINE l == Len(c.result_)
           n == Len(c.filter_offsets_)
           s == [i \in DOMAIN c.filter_offsets_ |-> EncodeFixed(c.filter_offsets_[i], 4)]
           x == c.result_
           y == FlattenSeq(s)
           z == EncodeFixed(l, 4)
           t == <<kFilterBaseLg>>
           d == ContentsOf(c)
           U == FilterValues
<1>1. /\ x \in Seq(Bytes) /\ l \in Nat /\ n \in Nat /\ DOMAIN c.filter_offsets_ = 1 .. n
      /\ \A i \in 1 .. n : c.filter_offsets_[i] \in Nat
  BY BuilderFacts, SeqFacts
<1>2. /\ \A i \in 1 .. n : s[i] = EncodeFixed(c.filter_offsets_[i], 4)
      /\ s = [i \in 1 .. n |-> s[i]]
  BY <1>1
<1>3. d = ((x \o y) \o z) \o t
  BY DEF ContentsOf, OffsetBytes
<1> HIDE DEF s, n, d
<1>4. ASSUME NEW i \in 1 .. n PROVE s[i] \in Seq(Nat) /\ Len(s[i]) = 4
  <2> DEFINE o == c.filter_offsets_[i]
  <2>1. o \in Nat /\ s[i] = EncodeFixed(o, 4)
    BY <1>1, <1>2
  <2> HIDE DEF o
  <2>2. FourBytes(EncodeFixed(o, 4), o)
    BY <2>1, FixedFourIs
  <2> QED BY <2>1, <2>2 DEF FourBytes
<1>5. /\ y \in Seq(Nat) /\ Len(y) = 4 * n
      /\ \A j \in 1 .. n : \A i \in 1 .. 4 :
           4 * (j - 1) + i \in 1 .. 4 * n /\ y[4 * (j - 1) + i] = s[j][i]
  <2>1. n \in Nat /\ s = [i \in 1 .. n |-> s[i]]
    BY <1>1, <1>2
  <2>2. \A i \in 1 .. n : s[i] \in Seq(Nat) /\ Len(s[i]) = 4
    BY <1>4
  <2> QED BY <2>1, <2>2, FixedSeq
<1>6. z \in Seq(Nat) /\ Len(z) = 4
  <2> HIDE DEF l
  <2>1. FourBytes(EncodeFixed(l, 4), l)
    BY <1>1, FixedFourIs
  <2> QED BY <2>1 DEF FourBytes
<1>7. t \in Seq(Nat) /\ Len(t) = 1 /\ t[1] = kFilterBaseLg
  <2>1. kFilterBaseLg \in Nat
    BY FilterBlockAssumption
  <2> QED BY <2>1
<1>8. x \in Seq(U) /\ y \in Seq(U) /\ z \in Seq(U) /\ t \in Seq(U)
  BY <1>1, <1>5, <1>6, <1>7, WiderSeq DEF FilterValues
<1>9. Len(x) = l
  OBVIOUS
<1> HIDE DEF x, y, z, t, U, l
<1> DEFINE v == x \o y
           w == v \o z
<1>10. Joins(x, y, U)
  BY <1>8, JoinIs
<1>11. /\ v \in Seq(U) /\ Len(v) = l + 4 * n
       /\ \A i \in 1 .. l : v[i] = x[i]
       /\ \A i \in 1 .. 4 * n : v[l + i] = y[i]
  BY <1>5, <1>9, <1>10 DEF Joins
<1> HIDE DEF v
<1>12. Joins(v, z, U)
  BY <1>8, <1>11, JoinIs
<1> DEFINE k == l + 4 * n
<1>13. /\ w \in Seq(U) /\ Len(w) = k + 4
       /\ \A i \in 1 .. k : w[i] = v[i]
       /\ \A i \in 1 .. 4 : w[k + i] = z[i]
  BY <1>6, <1>11, <1>12 DEF Joins
<1> HIDE DEF w
<1>14. Joins(w, t, U)
  BY <1>8, <1>13, JoinIs
<1>15. /\ d \in Seq(U) /\ Len(d) = k + 4 + 1
       /\ \A i \in 1 .. k + 4 : d[i] = w[i]
       /\ \A i \in 1 .. 1 : d[k + 4 + i] = t[i]
  BY <1>3, <1>7, <1>13, <1>14 DEF Joins, v, w
<1>16. k \in Nat /\ k = l + 4 * n
  BY <1>1
<1> HIDE DEF k
<1>17. ASSUME NEW i \in 1 .. k PROVE d[i] = v[i]
  <2>1. i \in 1 .. k + 4
    BY <1>16
  <2> QED BY <1>13, <1>15, <2>1
<1>18. \A i \in 1 .. l : d[i] = x[i]
  <2>1. \A i \in 1 .. l : i \in 1 .. k
    BY <1>1, <1>16
  <2> QED BY <1>11, <1>17, <2>1
<1>19. ASSUME NEW j \in 1 .. n, NEW i \in 1 .. 4
       PROVE  d[l + 4 * (j - 1) + i] = s[j][i]
  <2> DEFINE a == 4 * (j - 1) + i
  <2>1. a \in 1 .. 4 * n /\ y[a] = s[j][i]
    BY <1>5
  <2>2. l + 4 * (j - 1) + i = l + a /\ l + a \in 1 .. k
    BY <1>1, <1>16
  <2> HIDE DEF a
  <2>3. v[l + a] = y[a]
    BY <1>11, <2>1
  <2> QED BY <1>17, <2>1, <2>2, <2>3
<1>20. ASSUME NEW i \in 1 .. 4 PROVE d[k + i] = z[i]
  <2>1. k + i \in 1 .. k + 4
    BY <1>16
  <2> QED BY <1>13, <1>15, <2>1
<1>21. d[k + 5] = kFilterBaseLg
  <2>1. 1 \in 1 .. 1 /\ k + 4 + 1 = k + 5
    BY <1>16
  <2>2. d[k + 4 + 1] = t[1]
    BY <1>15, <2>1
  <2> QED BY <1>7, <2>1, <2>2
<1>22. Len(d) = k + 5
  BY <1>15, <1>16
<1>23. Stands(d, c, l, n)
  BY <1>2, <1>15, <1>16, <1>18, <1>19, <1>20, <1>21, <1>22 DEF Stands, U, x, z
<1> QED BY <1>23 DEF d, l, n

(* The reader finds them there.                                            *)
ReadsFilters(r, d, c) ==
  /\ r.data_ = d /\ r.offset_ = Len(c.result_) /\ r.num_ = Len(c.filter_offsets_)
  /\ r.base_lg_ = kFilterBaseLg

LEMMA FilterReaderIs ==
  ASSUME NEW c \in BuilderType, Small(Len(c.result_)), NEW d,
         Stands(d, c, Len(c.result_), Len(c.filter_offsets_))
  PROVE  ReadsFilters(FilterReader(d), d, c)
<1> DEFINE l == Len(c.result_)
           n == Len(c.filter_offsets_)
           m == Len(d)
           w == DecodeFixed(SubSeq(d, m - 4, m - 1))
           o == l + 4 * n
<1>1. l \in Nat /\ n \in Nat /\ Small(l)
  BY BuilderFacts
<1>2. /\ d \in Seq(FilterValues) /\ m = l + 4 * n + 5 /\ d[l + 4 * n + 5] = kFilterBaseLg
      /\ \A i \in 1 .. 4 : d[l + 4 * n + i] = EncodeFixed(l, 4)[i]
  BY DEF Stands
<1> HIDE DEF l, n, m
<1>3. o \in Nat /\ m = o + 5 /\ m - 4 = o + 1 /\ m - 1 = o + 4 /\ o + 4 <= m
      /\ d[m] = kFilterBaseLg /\ \A i \in 1 .. 4 : d[o + i] = EncodeFixed(l, 4)[i]
  BY <1>1, <1>2
<1> HIDE DEF o
<1>4. w = l
  <2>1. DecodeFixed(SubSeq(d, o + 1, o + 4)) = l
    BY <1>1, <1>2, <1>3, WordAt DEF FilterValues, m
  <2> QED BY <1>3, <2>1
<1> HIDE DEF w
<1>5. ~ (m < 5 \/ w > m - 5) /\ (m - 5 - w) \div 4 = n
  BY <1>1, <1>3, <1>4 DEF o
<1>6. FilterReader(d) = [data_ |-> d, offset_ |-> w, num_ |-> (m - 5 - w) \div 4,
                         base_lg_ |-> d[m]]
  BY <1>5 DEF FilterReader, m, w
<1>7. FilterReader(d) = [data_ |-> d, offset_ |-> l, num_ |-> n, base_lg_ |-> kFilterBaseLg]
  BY <1>3, <1>4, <1>5, <1>6
<1> DEFINE t == FilterReader(d)
<1> HIDE DEF t
<1>8. t = [data_ |-> d, offset_ |-> l, num_ |-> n, base_lg_ |-> kFilterBaseLg]
  BY <1>7 DEF t
<1>9. t.data_ = d /\ t.offset_ = l /\ t.num_ = n /\ t.base_lg_ = kFilterBaseLg
  BY <1>8
<1> QED BY <1>9 DEF ReadsFilters, t, l, n

(* A key may match in the stretch of the offset if it is one of that       *)
(* stretch's keys, or the stretch is behind the last filter.               *)
LEMMA KeyMatches ==
  ASSUME NEW c, NEW C, Filters(c, C), Small(Len(c.result_)), NEW d,
         Stands(d, c, Len(c.result_), Len(c.filter_offsets_)),
         NEW r, ReadsFilters(r, d, c), NEW o \in Nat, NEW key
  PROVE  KeyMayMatch(r, o, key) <=>
           \/ o \div kFilterBase >= Len(c.filter_offsets_)
           \/ key \in C[o \div kFilterBase]
<1> DEFINE l == Len(c.result_)
           n == Len(c.filter_offsets_)
           fo == c.filter_offsets_
           q == o \div kFilterBase
           word(i) == DecodeFixed(SubSeq(d, l + 4 * i + 1, l + 4 * i + 4))
<1>1. /\ l \in Nat /\ n \in Nat /\ Small(l) /\ c \in BuilderType
      /\ \A i \in 1 .. n : fo[i] \in Nat
  BY BuilderFacts DEF Filters
<1>2. q \in Nat
  BY BaseIsPositive, DivType
<1>3. /\ d \in Seq(FilterValues) /\ Len(d) = l + 4 * n + 5
      /\ \A i \in 1 .. l : d[i] = c.result_[i]
      /\ \A j \in 1 .. n : \A i \in 1 .. 4 : d[l + 4 * (j - 1) + i] = EncodeFixed(fo[j], 4)[i]
      /\ \A i \in 1 .. 4 : d[l + 4 * n + i] = EncodeFixed(l, 4)[i]
  BY DEF Stands
<1>4. /\ r.data_ = d /\ r.offset_ = l /\ r.num_ = n /\ o \div 2^r.base_lg_ = q
  BY DEF ReadsFilters, kFilterBase
<1>5. \A i \in 1 .. n : /\ fo[i] <= FilterEnd(c, i) /\ FilterEnd(c, i) <= l
                        /\ Filter(c, i) = C[i - 1] /\ FilterEnd(c, i) \in Nat
  BY <1>1, FilterEndType DEF Filters
<1>6. KeyMayMatch(r, o, key) <=>
        IF q >= n THEN TRUE
        ELSE IF word(q) <= word(q + 1) /\ word(q + 1) <= l
             THEN key \in ToSet(SubSeq(d, word(q) + 1, word(q + 1)))
             ELSE word(q) # word(q + 1)
  BY <1>4 DEF KeyMayMatch, PolicyKeyMayMatch
<1>7. CASE q >= n
  BY <1>6, <1>7
<1>8. CASE ~ (q >= n)
  <2> DEFINE e == FilterEnd(c, q + 1)
             a == fo[q + 1]
  <2> HIDE DEF l, n, fo, q
  <2>1. q + 1 \in 1 .. n /\ (q + 1) - 1 = q /\ 0 <= q /\ q < n
    BY <1>1, <1>2, <1>8
  <2>2. a \in Nat /\ e \in Nat /\ a <= e /\ e <= l /\ Filter(c, q + 1) = C[q]
    BY <1>1, <1>5, <2>1
  <2>3. ASSUME NEW j \in 1 .. n PROVE word(j - 1) = fo[j]
    <3> DEFINE p == l + 4 * (j - 1)
               v == fo[j]
    <3>1. Small(v)
      <4> DEFINE f == FilterEnd(c, j)
      <4>1. v \in Nat /\ f \in Nat /\ v <= f /\ f <= l /\ l \in Nat
        BY <1>1, <1>5
      <4> HIDE DEF v, f
      <4> QED BY <1>1, <4>1 DEF Small
    <3>2. p \in Nat /\ p + 4 <= Len(d)
      <4> DEFINE m == Len(d)
      <4>1. m = l + 4 * n + 5
        BY <1>3
      <4> HIDE DEF m
      <4>2. p \in Nat /\ p + 4 <= m
        BY <1>1, <4>1
      <4> QED BY <4>2 DEF m
    <3>3. \A i \in 1 .. 4 : d[p + i] = EncodeFixed(v, 4)[i]
      BY <1>3
    <3> HIDE DEF p, v
    <3>4. DecodeFixed(SubSeq(d, p + 1, p + 4)) = v
      BY <1>3, <3>1, <3>2, <3>3, WordAt DEF FilterValues
    <3> QED BY <3>4 DEF p, v
  <2>4. word(n) = l
    <3> DEFINE p == l + 4 * n
    <3>1. p \in Nat /\ p + 4 <= Len(d)
      <4> DEFINE m == Len(d)
      <4>1. m = l + 4 * n + 5
        BY <1>3
      <4> HIDE DEF m
      <4>2. p \in Nat /\ p + 4 <= m
        BY <1>1, <4>1
      <4> QED BY <4>2 DEF m
    <3>2. \A i \in 1 .. 4 : d[p + i] = EncodeFixed(l, 4)[i]
      BY <1>3
    <3> HIDE DEF p
    <3>3. DecodeFixed(SubSeq(d, p + 1, p + 4)) = l
      BY <1>1, <1>3, <3>1, <3>2, WordAt DEF FilterValues
    <3> QED BY <3>3 DEF p
  <2> HIDE DEF word
  <2>5. word(q) = a
    BY <2>1, <2>3
  <2>6. word(q + 1) = e
    <3>1. CASE q + 1 = n
      <4>1. e = l
        BY <3>1 DEF FilterEnd, l, n
      <4> QED BY <2>4, <3>1, <4>1
    <3>2. CASE q + 1 # n
      <4>1. q + 2 \in 1 .. n /\ (q + 2) - 1 = q + 1 /\ (q + 1) + 1 = q + 2
        BY <1>1, <1>2, <2>1, <3>2
      <4>2. e = fo[q + 2]
        BY <3>2, <4>1 DEF FilterEnd, n, fo
      <4>3. word((q + 2) - 1) = fo[q + 2]
        BY <2>3, <4>1
      <4> QED BY <4>1, <4>2, <4>3
    <3> QED BY <3>1, <3>2
  <2>7. ToSet(SubSeq(d, a + 1, e)) = C[q]
    <3>1. e <= Len(d)
      <4> DEFINE m == Len(d)
      <4>1. m = l + 4 * n + 5
        BY <1>3
      <4> HIDE DEF m, e
      <4>2. e <= m
        BY <1>1, <2>2, <4>1
      <4> QED BY <4>2 DEF m
    <3> HIDE DEF a, e
    <3> DEFINE U == FilterValues
    <3> HIDE DEF U
    <3>6. d \in Seq(U)
      BY <1>3 DEF U
    <3>7. a \in Nat /\ e \in Nat /\ a <= e
      BY <1>1, <2>2
    <3>2. \A x : x \in ToSet(SubSeq(d, a + 1, e)) <=> \E k \in a + 1 .. e : x = d[k]
      BY <3>1, <3>6, <3>7, PartMembers
    <3>3. \A k \in a + 1 .. e : d[k] = c.result_[k]
      <4>1. \A k \in a + 1 .. e : k \in 1 .. l
        BY <1>1, <2>2
      <4> QED BY <1>3, <4>1
    <3>4. \A x : x \in Filter(c, q + 1) <=> \E k \in a + 1 .. e : x = c.result_[k]
      BY DEF Filter, a, e, fo
    <3> DEFINE F == Filter(c, q + 1)
               T == ToSet(SubSeq(d, a + 1, e))
    <3> HIDE DEF F, T
    <3>5. \A x : x \in T <=> x \in F
      BY <3>2, <3>3, <3>4 DEF F, T
    <3>8. F = T
      BY <3>5, Zenon
    <3> QED BY <2>2, <3>8 DEF F, T
  <2> HIDE DEF a, e
  <2>8. KeyMayMatch(r, o, key) <=> key \in ToSet(SubSeq(d, a + 1, e))
    BY <1>6, <1>8, <2>2, <2>5, <2>6
  <2> QED BY <1>8, <2>7, <2>8 DEF q, n
<1> QED BY <1>7, <1>8

(* The filters of blocks, as they are read.                                *)
FiltersMatch(blocks, m) ==
  \A j \in 1 .. m : \A key :
    KeyMayMatch(FilterReader(FilterOf(blocks)), blocks[j].handle.offset, key) <=>
      \E i \in 1 .. m :
        /\ StretchOf(blocks[j]) = StretchOf(blocks[i])
        /\ key \in ToSet(BlockKeys(blocks[i].block))

LEMMA FiltersRead ==
  ASSUME NEW blocks, NEW E, NEW m, Feeds(blocks, E, m), Small(E[m])
  PROVE  FiltersMatch(blocks, m)
<1> DEFINE C == StretchKeys(blocks, m)
           d == FilterOf(blocks)
           r == FilterReader(d)
<1>1. m \in Nat /\ Len(blocks) = m
  BY DEF Feeds
<1>2. PICK f : Built(f, blocks, m) /\ FilterOf(blocks) = FinishFilter(f[m])
  BY <1>1, FilterOfIs
<1>3. Filters(f[m], C) /\ HeldKeys(f[m]) <= E[m]
  BY <1>2, BuiltFilters DEF BuilderAt
<1>4. PICK c : /\ Filters(c, C) /\ c.keys_ = <<>> /\ Len(c.result_) = HeldKeys(f[m])
               /\ FinishFilter(f[m]) = ContentsOf(c)
  BY <1>3, FinishFilterIs
<1> DEFINE n == Len(c.filter_offsets_)
<1>5. c \in BuilderType /\ n \in Nat
  BY <1>4, BuilderFacts DEF Filters
<1>6. Small(Len(c.result_))
  <2> DEFINE l == Len(c.result_)
             e == E[m]
  <2>1. l \in Nat /\ l <= e /\ Small(e)
    BY <1>3, <1>4, <1>5, BuilderFacts
  <2> HIDE DEF l, e
  <2>2. Small(l)
    BY <2>1 DEF Small
  <2> QED BY <2>2 DEF l
<1>7. d = ContentsOf(c)
  BY <1>2, <1>4
<1> HIDE DEF d, C
<1>8. Stands(d, c, Len(c.result_), n)
  BY <1>5, <1>7, ContentsStand
<1>9. ReadsFilters(r, d, c)
  BY <1>5, <1>6, <1>8, FilterReaderIs
<1> HIDE DEF r
<1>10. ASSUME NEW i \in Nat, i >= n PROVE C[i] = {}
  <2>1. CASE i = n
    <3>1. ToSet(c.keys_) = {}
      BY <1>4 DEF ToSet
    <3>2. ToSet(c.keys_) = C[n]
      BY <1>4 DEF Filters
    <3> QED BY <2>1, <3>1, <3>2
  <2>2. CASE i # n
    <3>1. i > n
      BY <1>5, <1>10, <2>2
    <3> QED BY <1>4, <3>1 DEF Filters
  <2> QED BY <2>1, <2>2
<1>11. ASSUME NEW j \in 1 .. m, NEW key
       PROVE  KeyMayMatch(r, blocks[j].handle.offset, key) <=>
                \E i \in 1 .. m : /\ StretchOf(blocks[j]) = StretchOf(blocks[i])
                                  /\ key \in ToSet(BlockKeys(blocks[i].block))
  <2> DEFINE o == blocks[j].handle.offset
             q == StretchOf(blocks[j])
  <2>1. o \in Nat /\ BlockKeys(blocks[j].block) \in Seq(Bytes) /\ BlockKeys(blocks[j].block) # <<>>
    BY DEF Feeds
  <2>2. q = o \div kFilterBase /\ q \in Nat
    BY <2>1, BaseIsPositive, DivType DEF StretchOf
  <2>3. KeyMayMatch(r, o, key) <=> q >= n \/ key \in C[q]
    BY <1>4, <1>6, <1>8, <1>9, <2>1, <2>2, KeyMatches
  <2>4. C[q] = UNION {ToSet(BlockKeys(blocks[i].block)) : i \in {k \in 1 .. m : StretchOf(blocks[k]) = q}}
    BY <2>2 DEF C, StretchKeys
  <2>5. \E k : k \in ToSet(BlockKeys(blocks[j].block))
    <3> DEFINE s == BlockKeys(blocks[j].block)
    <3>1. s \in Seq(Bytes) /\ s # <<>>
      BY <2>1
    <3> HIDE DEF s
    <3>2. Len(s) \in Nat /\ Len(s) # 0 /\ DOMAIN s = 1 .. Len(s)
      BY <3>1, SeqFacts
    <3> DEFINE l == Len(s)
    <3>3. 1 \in 1 .. l
      <4>1. l \in Nat /\ l # 0
        BY <3>2
      <4> HIDE DEF l
      <4> QED BY <4>1
    <3>4. s[1] \in ToSet(s)
      BY <3>2, <3>3 DEF ToSet
    <3> QED BY <3>4 DEF s
  <2>6. C[q] # {}
    BY <2>4, <2>5
  <2>7. ~ (q >= n)
    BY <1>10, <2>2, <2>6
  <2>8. key \in C[q] <=> \E i \in 1 .. m : /\ StretchOf(blocks[i]) = q
                                           /\ key \in ToSet(BlockKeys(blocks[i].block))
    BY <2>4
  <2> HIDE DEF q
  <2>9. KeyMayMatch(r, o, key) <=>
          \E i \in 1 .. m : q = StretchOf(blocks[i]) /\ key \in ToSet(BlockKeys(blocks[i].block))
    BY <2>3, <2>7, <2>8
  <2> QED BY <2>9 DEF q
<1> QED BY <1>11 DEF FiltersMatch, r, d

(* A block is longer than it has keys.                                     *)
LEMMA KeysFit ==
  ASSUME NEW b, NEW interval, Good(b, interval), b.entries # <<>>
  PROVE  /\ BlockKeys(b) \in Seq(Bytes) /\ BlockKeys(b) # <<>>
         /\ Len(BlockKeys(b)) \in Nat /\ CurrentSizeEstimate(b) \in Nat
         /\ Len(BlockKeys(b)) <= CurrentSizeEstimate(b)
<1> DEFINE k == BlockKeys(b)
           m == Len(b.entries)
           l == Len(b.buffer)
           n == Len(b.restarts)
<1>1. k \in Seq(Bytes) /\ Spells(k, b) /\ b \in BlockType
  BY DEF Good, KeysKnown
<1>2. m \in Nat /\ DOMAIN b.entries = 1 .. m /\ m # 0
  BY GoodFacts
<1>3. DOMAIN k = DOMAIN b.entries
  BY <1>1 DEF Spells
<1> HIDE DEF k, m
<1>4. Len(k) = m
  <2>1. Len(k) \in Nat /\ DOMAIN k = 1 .. Len(k)
    BY <1>1, SeqFacts
  <2> QED BY <1>2, <1>3, <2>1, UpToUnique
<1>5. k # <<>>
  BY <1>2, <1>4
<1>6. l \in Nat /\ 3 * m <= l
  BY ManyBytes DEF m
<1>7. n \in Nat
  <2>1. b.restarts \in Seq(Nat)
    BY <1>1 DEF BlockType
  <2> QED BY <2>1, LenProperties
<1>8. CurrentSizeEstimate(b) = l + 4 * n + 4
  BY DEF CurrentSizeEstimate
<1> HIDE DEF l, n
<1>9. l + 4 * n + 4 \in Nat /\ m <= l + 4 * n + 4
  BY <1>2, <1>6, <1>7
<1> QED BY <1>1, <1>2, <1>4, <1>5, <1>8, <1>9 DEF k

(* The data blocks of a whole table, each from where the one before ends.  *)
Offsets(file, m) == [j \in 0 .. m |-> file[j + 1].handle.offset]

LEMMA DataBlocksFeed ==
  ASSUME NEW r, NEW g, NEW keys, NEW n, Whole(r, g, keys, n),
         NEW blocks, Len(blocks) = Len(g.file),
         \A j \in 1 .. Len(g.file) : blocks[j] = g.file[j]
  PROVE  /\ Feeds(blocks, Offsets(r.file, Len(g.file)), Len(g.file))
         /\ Small(Offsets(r.file, Len(g.file))[Len(g.file)])
<1> DEFINE m == Len(g.file)
           l == Len(r.file)
           E == Offsets(r.file, m)
           o(j) == r.file[j].handle.offset
           s(j) == r.file[j].handle.size
<1>1. /\ m \in Nat /\ l = m + 2 /\ LaidUpTo(r.file, n)
      /\ \A j \in 1 .. l : SmallHandle(r.file[j].handle)
      /\ \A j \in 1 .. m : r.file[j] = g.file[j] /\ Good(g.file[j].block, block_restart_interval)
  BY WholeFacts
<1>2. \A j \in 1 .. l : o(j) \in Nat /\ s(j) \in Nat /\ Small(o(j))
  BY <1>1 DEF SmallHandle, HandleType
<1>3. \A j \in 1 .. l : /\ s(j) = CurrentSizeEstimate(r.file[j].block)
                        /\ o(j) = IF j = 1 THEN 0 ELSE o(j - 1) + s(j - 1) + kBlockTrailerSize
  BY <1>1 DEF LaidUpTo, LaidOut
<1>4. \A j \in 1 .. m : g.file[j].block.entries # <<>>
  BY DEF Whole, WholeOf, EndsWith, Written, Filled
<1>5. ASSUME NEW j \in 1 .. m
      PROVE  /\ BlockKeys(blocks[j].block) \in Seq(Bytes) /\ BlockKeys(blocks[j].block) # <<>>
             /\ Len(BlockKeys(blocks[j].block)) \in Nat
             /\ Len(BlockKeys(blocks[j].block)) <= CurrentSizeEstimate(r.file[j].block)
  <2>1. blocks[j] = g.file[j] /\ r.file[j] = g.file[j]
    BY <1>1
  <2> QED BY <1>1, <1>4, <2>1, KeysFit
<1> HIDE DEF l
<1>6. \A j \in 0 .. m : E[j] = o(j + 1) /\ j + 1 \in 1 .. l
  BY <1>1 DEF Offsets
<1> HIDE DEF E, m
<1>7. E[0] = 0
  <2>1. 0 \in 0 .. m /\ 0 + 1 = 1
    BY <1>1
  <2> HIDE DEF o, s
  <2> QED BY <1>3, <1>6, <2>1
<1>8. Small(E[m])
  <2>1. m \in 0 .. m
    BY <1>1
  <2> HIDE DEF o, s
  <2> QED BY <1>2, <1>6, <2>1
<1>9. ASSUME NEW j \in 1 .. m
      PROVE  /\ BlockKeys(blocks[j].block) \in Seq(Bytes) /\ BlockKeys(blocks[j].block) # <<>>
             /\ E[j - 1] \in Nat /\ E[j] \in Nat
             /\ blocks[j].handle.offset = E[j - 1]
             /\ blocks[j].handle.offset + blocks[j].handle.size + kBlockTrailerSize = E[j]
             /\ E[j - 1] + Len(BlockKeys(blocks[j].block)) <= E[j]
  <2>1. /\ j - 1 \in 0 .. m /\ j \in 0 .. m /\ (j - 1) + 1 = j /\ (j + 1) - 1 = j
        /\ j \in 1 .. l /\ j + 1 \in 1 .. l /\ j + 1 # 1
    BY <1>1
  <2> DEFINE z == Len(BlockKeys(blocks[j].block))
             c == CurrentSizeEstimate(r.file[j].block)
  <2>2. blocks[j].handle.offset = o(j) /\ blocks[j].handle.size = s(j)
    <3>1. blocks[j] = r.file[j]
      BY <1>1 DEF m
    <3> QED BY <3>1
  <2> HIDE DEF o, s
  <2>3. E[j - 1] = o(j) /\ E[j] = o(j + 1) /\ o(j) \in Nat /\ o(j + 1) \in Nat /\ s(j) \in Nat
    BY <1>2, <1>6, <2>1
  <2>4. s(j) = c /\ z \in Nat /\ z <= c
    BY <1>3, <1>5, <2>1
  <2>5. o(j + 1) = o(j) + s(j) + kBlockTrailerSize
    <3>1. o(j + 1) = o((j + 1) - 1) + s((j + 1) - 1) + kBlockTrailerSize
      BY <1>3, <2>1
    <3> QED BY <2>1, <3>1
  <2> HIDE DEF z, c
  <2>6. o(j) + z <= o(j + 1)
    <3> DEFINE x == o(j)
               y == s(j)
               w == o(j + 1)
    <3>1. x \in Nat /\ y \in Nat /\ w = x + y + 5 /\ z \in Nat /\ z <= y
      BY <2>3, <2>4, <2>5 DEF kBlockTrailerSize
    <3> HIDE DEF x, y, w
    <3>2. x + z <= w
      BY <3>1
    <3> QED BY <3>2 DEF x, w
  <2> QED BY <1>5, <2>2, <2>3, <2>5, <2>6 DEF z
<1>10. Len(blocks) = m
  BY DEF m
<1> QED BY <1>1, <1>7, <1>8, <1>9, <1>10 DEF Feeds, E, m

(* The filter block of a table below 2^31 bytes that BuildTable gave a     *)
(* size answers for every data block just what the keys of the blocks in   *)
(* its stretch of the file say: no key of a block is missed, and no key of *)
(* another stretch is let through.                                         *)
THEOREM FilterCorrect == Spec => [](Small(file_size) => FilterMatchesItsBlock)
<1> DEFINE blocks == DataBlocks
           r == FilterReader(FilterOf(blocks))
<1>1. IInv => (Small(file_size) => FilterMatchesItsBlock)
  <2> SUFFICES ASSUME IInv, Small(file_size), file_size # 0 PROVE FilterMatchesItsBlock
    BY DEF FilterMatchesItsBlock
  <2>1. PICK g, n : Whole(rep_, g, added, n)
    BY TableIsWhole
  <2> DEFINE m == Len(g.file)
  <2>2. /\ m \in Nat /\ Len(rep_.file) = m + 2 /\ rep_.file \in FileType
        /\ \A j \in 1 .. m : rep_.file[j] = g.file[j]
    <3>1. /\ m \in Nat /\ Len(rep_.file) = m + 2 /\ GoodRep(rep_)
          /\ \A j \in 1 .. m : rep_.file[j] = g.file[j]
      BY <2>1, WholeFacts
    <3> QED BY <3>1, GoodRepFacts
  <2>3. rep_.footer # <<>> /\ pc = "done"
    <3>1. rep_.footer # <<>>
      BY <2>1 DEF Whole, WholeOf
    <3> QED BY <3>1 DEF IInv
  <2>4. blocks = SubSeq(rep_.file, 1, m)
    <3>1. Len(rep_.file) - 2 = m
      <4> HIDE DEF m
      <4> QED BY <2>2
    <3> QED BY <2>3, <3>1 DEF DataBlocks
  <2>5. /\ DOMAIN blocks = 1 .. m /\ Len(blocks) = m
        /\ \A j \in 1 .. m : blocks[j] = rep_.file[j]
    <3> DEFINE t == SubSeq(rep_.file, 1, m)
    <3>1. /\ DOMAIN t = 1 .. m /\ Len(t) = m
          /\ \A j \in 1 .. m : t[j] = rep_.file[j]
      <4> HIDE DEF m
      <4> QED BY <2>2 DEF FileType
    <3> QED BY <2>4, <3>1
  <2> HIDE DEF blocks
  <2>6. FiltersMatch(blocks, m)
    <3> DEFINE E == Offsets(rep_.file, m)
    <3>1. Feeds(blocks, E, m) /\ Small(E[m])
      BY <2>1, <2>2, <2>5, DataBlocksFeed
    <3> HIDE DEF E, m
    <3> QED BY <3>1, FiltersRead
  <2> HIDE DEF m
  <2>7. ToSet(blocks) = {blocks[j] : j \in 1 .. m}
    BY <2>5 DEF ToSet
  <2>8. ASSUME NEW x \in ToSet(blocks), NEW key
        PROVE  KeyMayMatch(r, x.handle.offset, key) <=>
                 \E y \in ToSet(blocks) :
                   StretchOf(x) = StretchOf(y) /\ key \in ToSet(BlockKeys(y.block))
    <3>1. PICK j \in 1 .. m : x = blocks[j]
      BY <2>7
    <3>2. KeyMayMatch(r, blocks[j].handle.offset, key) <=>
            \E i \in 1 .. m : /\ StretchOf(blocks[j]) = StretchOf(blocks[i])
                              /\ key \in ToSet(BlockKeys(blocks[i].block))
      BY <2>6 DEF FiltersMatch
    <3> HIDE DEF r
    <3> QED BY <2>7, <3>1, <3>2
  <2>9. \A x \in ToSet(blocks), key \in ToSet(added) :
          KeyMayMatch(r, x.handle.offset, key) <=>
            \E y \in ToSet(blocks) :
              StretchOf(x) = StretchOf(y) /\ key \in ToSet(BlockKeys(y.block))
    BY <2>8
  <2> QED BY <2>9 DEF FilterMatchesItsBlock, StretchOf, blocks
<1> QED BY <1>1, TableInductive, PTL
=============================================================================
