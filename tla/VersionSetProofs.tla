-------------------------- MODULE VersionSetProofs --------------------------
(***************************************************************************)
(* Proofs about VersionSet for every number of Writers, of lists and of    *)
(* lists to a version: what versions, frozen lists and file references are *)
(* between any two steps of the Writers and the Compacter.  At the end the *)
(* proof that VersionSet implements FrozenLists: the merge without a lock, *)
(* the freeing of the old version and the installation of the new one are  *)
(* together one compaction.                                                *)
(***************************************************************************)
EXTENDS VersionSet, FiniteSetTheorems, SequenceTheorems, TLAPS

-----------------------------------------------------------------------------
LEMMA LeastNumber ==
  ASSUME NEW S \in SUBSET Nat, S # {}
  PROVE  \E i \in S : \A j \in S : i <= j
<1>1. PICK i \in S : \A j \in S : <<j, i>> \notin OpToRel(<, Nat)
  BY NatLessThanWellFounded, WFMin
<1>2. ASSUME NEW j \in S, j < i PROVE FALSE
  <2>1. <<j, i>> \in Nat \X Nat /\ <<j, i>>[1] < <<j, i>>[2]
    BY <1>2
  <2> QED BY <1>1, <2>1, Zenon DEF OpToRel
<1>3. \A j \in S : i \in Nat /\ j \in Nat /\ ~ (j < i)
  BY <1>2
<1> QED BY <1>3

-----------------------------------------------------------------------------
(* The inductive invariant.                                                *)

(* Who is inside AppendFrozenList holds the mutex, unless it sleeps.       *)
Holding == {"check", "wait", "append", "push", "count"}

LockInv ==
  \A w \in Writers :
    /\ pc[w] \in Holding => mutex_ = w
    /\ w \in cond_ => pc[w] = "asleep"
    /\ pc[w] \in {"push", "count"} => ptr[w] \in 1 .. current_
    /\ pc[w] # "fill" => filled[w] <= MaxLists

(* Versions are freed one after the other.  There is one after the current *)
(* one only while the Compacter replaces it, and that has no lists yet.    *)
ShapeInv ==
  /\ \A v \in 1 .. current_ - 1 : freed(v)
  /\ versions[current_].state = IF cpc = "install" THEN "freed" ELSE "live"
  /\ IF cpc \in {"unref", "install"}
     THEN /\ Len(versions) = current_ + 1
          /\ versions[current_ + 1] =
               NewVersion(Append(versions[current_].files_, Len(tables)))
     ELSE Len(versions) = current_
  /\ cpc \in {"apply", "unref", "install"} =>
       Len(tables) > 0 /\ tables[Len(tables)].lists = merged
  /\ cpc \in {"apply", "unref"} => cidx = kMaxWriter + 1
  /\ cpc \in {"merge", "apply", "unref"} => full(current_)

(* Writers that are to append to the current version without a test of     *)
(* isFull, or after one.                                                   *)
Appending == {w \in Writers : pc[w] \in {"woken", "append", "push", "count"}}

(* Each Writer may be woken once before the broadcast that follows the     *)
(* installation, and once by it.                                           *)
WakeUps == IF cpc = "broadcast" THEN kMaxWriter ELSE 2 * kMaxWriter

CountInv ==
  /\ \A v \in 1 .. Len(versions) :
       versions[v].list_count_ <= kMaxFrozenList + 2 * kMaxWriter - 1 + spurious
  /\ ~freed(current_) =>
       versions[current_].list_count_ + Cardinality(Appending)
         <= kMaxFrozenList + WakeUps - 1 + spurious

(* What has been merged is the beginning of a Writer's frozen lists; those *)
(* behind it came when the version was full.                               *)
MergedOf(w) ==
  LET l == versions[current_].list_[w]
  IN /\ Len(merged[w]) <= Len(l)
     /\ \A p \in 1 .. Len(merged[w]) : merged[w][p] = l[p]
     /\ \A p \in Len(merged[w]) + 1 .. Len(l) : <<w, l[p]>> \in late

MergeInv ==
  \A w \in Writers :
    (cpc = "merge" /\ w < cidx) \/ cpc \in {"apply", "unref"} => MergedOf(w)

(* The lists a Writer has handed over, and where the visible version has   *)
(* them.                                                                   *)
Handed(w) == IF pc[w] = "count" THEN filled[w] ELSE filled[w] - 1

Ascending(s) ==
  \A i, j \in DOMAIN s : \A p \in DOMAIN s[i], q \in DOMAIN s[j] :
    i < j \/ (i = j /\ p < q) => s[i][p] < s[j][q]

Has(s, n) == \E i \in DOMAIN s : \E p \in DOMAIN s[i] : s[i][p] = n

Path(v, w) == Append(OnDisk(v, w), versions[v].list_[w])

Recorded(s, last, excused) ==
  /\ Ascending(s)
  /\ \A n \in Nat : Has(s, n) => n <= last
  /\ \A n \in 1 .. last : n \notin excused => Has(s, n)

Shown(w) == Path(visible, w)
Excused(w) == {n \in Ranks : <<w, n>> \in late} \cup Unsaved(w)

HistoryInv == \A w \in Writers : Recorded(Shown(w), Handed(w), Excused(w))

IInv == /\ TypeOK /\ LockInv /\ ShapeInv /\ CountInv /\ RefsMatch /\ MergeInv
        /\ HistoryInv

LEMMA AllParts ==
  ASSUME TypeOK', LockInv', ShapeInv', CountInv', RefsMatch', MergeInv', HistoryInv'
  PROVE  IInv'
  BY DEF IInv

-----------------------------------------------------------------------------
(* Types.                                                                  *)

LEMMA SeqFacts ==
  ASSUME NEW S, NEW s \in Seq(S)
  PROVE  /\ Len(s) \in Nat /\ DOMAIN s = 1 .. Len(s)
         /\ \A i \in 1 .. Len(s) : s[i] \in S
  BY SMT

LEMMA AppendFacts ==
  ASSUME NEW S, NEW s \in Seq(S), NEW e \in S
  PROVE  /\ Append(s, e) \in Seq(S)
         /\ Len(s) \in Nat /\ Len(Append(s, e)) = Len(s) + 1
         /\ DOMAIN s = 1 .. Len(s)
         /\ DOMAIN Append(s, e) = 1 .. Len(s) + 1
         /\ \A i \in 1 .. Len(s) : Append(s, e)[i] = s[i]
         /\ Append(s, e)[Len(s) + 1] = e
  BY SMT

LEMMA AppendToEmpty == ASSUME NEW x PROVE Append(<<>>, x) = <<x>>
  BY SMT

(* What the types say of versions, tables and lists.                       *)
LEMMA Types ==
  ASSUME TypeOK
  PROVE  /\ kMaxWriter \in Nat \ {0} /\ kMaxFrozenList \in Nat \ {0} /\ MaxLists \in Nat
         /\ current_ \in 1 .. Len(versions) /\ DOMAIN versions = 1 .. Len(versions)
         /\ Len(versions) \in Nat /\ current_ \in Nat
         /\ DOMAIN tables = 1 .. Len(tables) /\ Len(tables) \in Nat
         /\ \A v \in 1 .. Len(versions) :
              /\ versions[v] \in Version
              /\ versions[v].list_count_ \in Nat
              /\ versions[v].files_ \in Seq(DOMAIN tables)
              /\ \A w \in Writers : versions[v].list_[w] \in Seq(Ranks)
         /\ \A f \in 1 .. Len(tables) : \A w \in Writers : tables[f].lists[w] \in Seq(Ranks)
         /\ spurious \in Nat /\ \A w \in Writers : filled[w] \in Nat \ {0}
<1>1. /\ DOMAIN versions = 1 .. Len(versions) /\ Len(versions) \in Nat
      /\ \A v \in 1 .. Len(versions) : versions[v] \in Version
  BY SeqFacts DEF TypeOK
<1>2. /\ DOMAIN tables = 1 .. Len(tables) /\ Len(tables) \in Nat
      /\ \A f \in 1 .. Len(tables) : tables[f] \in [lists : [Writers -> Seq(Ranks)], whole : BOOLEAN]
  BY SeqFacts DEF TypeOK
<1>3. \A v \in 1 .. Len(versions) :
        /\ versions[v].list_count_ \in Nat
        /\ versions[v].files_ \in Seq(DOMAIN tables)
        /\ \A w \in Writers : versions[v].list_[w] \in Seq(Ranks)
  BY <1>1 DEF Version
<1>4. \A f \in 1 .. Len(tables) : \A w \in Writers : tables[f].lists[w] \in Seq(Ranks)
  BY <1>2
<1>5. /\ current_ \in 1 .. Len(versions) /\ spurious \in Nat
      /\ \A w \in Writers : filled[w] \in Nat \ {0}
  BY <1>1, VersionSetAssumption DEF TypeOK
<1> QED BY <1>1, <1>2, <1>3, <1>4, <1>5, VersionSetAssumption

(* What a sum of counts needs, without the rest.                           *)
LEMMA Numbers ==
  ASSUME TypeOK
  PROVE  /\ kMaxWriter \in Nat \ {0} /\ kMaxFrozenList \in Nat \ {0} /\ spurious \in Nat
         /\ Len(versions) \in Nat /\ current_ \in Nat \ {0} /\ current_ \in DOMAIN versions
         /\ DOMAIN versions = 1 .. Len(versions)
         /\ \A v \in DOMAIN versions : versions[v].list_count_ \in Nat
<1>1. /\ kMaxWriter \in Nat \ {0} /\ kMaxFrozenList \in Nat \ {0} /\ spurious \in Nat
      /\ Len(versions) \in Nat /\ current_ \in 1 .. Len(versions)
      /\ DOMAIN versions = 1 .. Len(versions)
  BY Types
<1>2. \A v \in 1 .. Len(versions) : versions[v].list_count_ \in Nat
  BY Types
<1> QED BY <1>1, <1>2

LEMMA VisibleThere ==
  ASSUME TypeOK
  PROVE  visible \in DOMAIN versions
<1>1. current_ \in DOMAIN versions /\ Len(versions) \in DOMAIN versions
  BY Numbers
<1> QED BY <1>1 DEF visible

LEMMA AppendingCount ==
  ASSUME NEW S \in SUBSET Writers
  PROVE  IsFiniteSet(S) /\ Cardinality(S) \in Nat /\ Cardinality(S) <= kMaxWriter
<1>1. IsFiniteSet(Writers) /\ Cardinality(Writers) = kMaxWriter
  BY FS_Interval, VersionSetAssumption DEF Writers
<1> QED BY <1>1, FS_Subset, FS_CardinalityType

-----------------------------------------------------------------------------
(* What happens to the record of a Writer's lists.                         *)

LEMMA LastSegment ==
  ASSUME NEW d \in Seq(Seq(Ranks)), NEW l \in Seq(Ranks)
  PROVE  /\ Append(d, l) \in Seq(Seq(Ranks)) /\ Len(d) \in Nat
         /\ DOMAIN d = 1 .. Len(d) /\ DOMAIN Append(d, l) = 1 .. Len(d) + 1
         /\ Len(Append(d, l)) = Len(d) + 1
         /\ \A i \in 1 .. Len(d) : Append(d, l)[i] = d[i] /\ d[i] \in Seq(Ranks)
         /\ Append(d, l)[Len(d) + 1] = l
         /\ Len(l) \in Nat /\ DOMAIN l = 1 .. Len(l)
         /\ \A p \in 1 .. Len(l) : l[p] \in Ranks
         /\ \A i \in 1 .. Len(d) : \A p \in DOMAIN d[i] : d[i][p] \in Ranks
<1>1. /\ Append(d, l) \in Seq(Seq(Ranks)) /\ Len(d) \in Nat
      /\ DOMAIN d = 1 .. Len(d)
      /\ Len(Append(d, l)) = Len(d) + 1
      /\ \A i \in 1 .. Len(d) : Append(d, l)[i] = d[i] /\ d[i] \in Seq(Ranks)
      /\ Append(d, l)[Len(d) + 1] = l
  BY AppendProperties, LenProperties, ElementOfSeq
<1>2. DOMAIN Append(d, l) = 1 .. Len(d) + 1
  BY <1>1, LenProperties
<1>3. \A m \in Seq(Ranks) : /\ Len(m) \in Nat /\ DOMAIN m = 1 .. Len(m)
                           /\ \A p \in 1 .. Len(m) : m[p] \in Ranks
  BY SeqFacts
<1> QED BY <1>1, <1>2, <1>3

(* The next list is handed over and kept.                                  *)
LEMMA RecordKept ==
  ASSUME NEW d \in Seq(Seq(Ranks)), NEW l \in Seq(Ranks), NEW n \in Ranks,
         NEW X, NEW Y, X \subseteq Y,
         Recorded(Append(d, l), n - 1, X)
  PROVE  Recorded(Append(d, Append(l, n)), n, Y)
<1> DEFINE s == Append(d, l)
           t == Append(d, Append(l, n))
           k == Len(d) + 1
<1>1. n \in Nat \ {0} /\ Ranks \subseteq Nat
  BY VersionSetAssumption DEF Ranks
<1>2. /\ k \in Nat /\ DOMAIN s = 1 .. k /\ s[k] = l /\ DOMAIN l = 1 .. Len(l) /\ Len(l) \in Nat
      /\ \A i \in 1 .. k : \A p \in DOMAIN s[i] : s[i][p] \in Nat
  <2>1. /\ k \in Nat /\ DOMAIN s = 1 .. k /\ s[k] = l /\ DOMAIN l = 1 .. Len(l) /\ Len(l) \in Nat
    BY LastSegment
  <2>2. ASSUME NEW i \in 1 .. k, NEW p \in DOMAIN s[i] PROVE s[i][p] \in Ranks
    <3>1. CASE i = k
      BY <2>1, <2>2, <3>1, LastSegment
    <3>2. CASE i # k
      <4>1. i \in 1 .. Len(d)
        BY <2>1, <3>2
      <4>2. s[i] = d[i]
        BY <4>1, LastSegment
      <4>3. \A q \in DOMAIN d[i] : d[i][q] \in Ranks
        BY <4>1, LastSegment
      <4> QED BY <2>2, <4>2, <4>3
    <3> QED BY <3>1, <3>2
  <2> QED BY <1>1, <2>1, <2>2
<1>3. /\ Append(l, n) \in Seq(Ranks) /\ Len(Append(l, n)) = Len(l) + 1
      /\ \A p \in 1 .. Len(l) : Append(l, n)[p] = l[p]
      /\ Append(l, n)[Len(l) + 1] = n
  BY AppendProperties
<1>4. /\ DOMAIN t = 1 .. k /\ \A i \in 1 .. k - 1 : t[i] = s[i]
      /\ t[k] = Append(l, n) /\ DOMAIN t[k] = 1 .. Len(l) + 1
  BY <1>3, LastSegment
<1>5. \A i \in 1 .. k : \A p \in DOMAIN t[i] :
        \/ p \in DOMAIN s[i] /\ t[i][p] = s[i][p]
        \/ i = k /\ p = Len(l) + 1 /\ t[i][p] = n
  <2> SUFFICES ASSUME NEW i \in 1 .. k, NEW p \in DOMAIN t[i]
               PROVE  \/ p \in DOMAIN s[i] /\ t[i][p] = s[i][p]
                      \/ i = k /\ p = Len(l) + 1 /\ t[i][p] = n
    OBVIOUS
  <2>1. CASE i # k BY <1>2, <1>4, <2>1
  <2>2. CASE i = k BY <1>2, <1>3, <1>4, <2>2
  <2> QED BY <2>1, <2>2
<1>6. \A i \in 1 .. k : \A p \in DOMAIN s[i] : p \in DOMAIN t[i] /\ t[i][p] = s[i][p] /\ s[i][p] < n
  <2> SUFFICES ASSUME NEW i \in 1 .. k, NEW p \in DOMAIN s[i]
               PROVE  p \in DOMAIN t[i] /\ t[i][p] = s[i][p] /\ s[i][p] < n
    OBVIOUS
  <2>1. s[i][p] \in Nat /\ s[i][p] <= n - 1
    BY <1>2 DEF Recorded, Has
  <2>2. CASE i # k
    <3>1. i \in 1 .. k - 1
      BY <1>2, <2>2
    <3>2. t[i] = s[i]
      BY <1>4, <3>1
    <3> QED BY <1>1, <2>1, <3>2
  <2>3. CASE i = k BY <1>1, <1>2, <1>3, <1>4, <2>1, <2>3
  <2> QED BY <2>2, <2>3
<1>7. \A p \in DOMAIN l : p < Len(l) + 1
  BY <1>2
<1> HIDE DEF s, t, k
<1>8. Ascending(t)
  <2> SUFFICES ASSUME NEW i \in DOMAIN t, NEW j \in DOMAIN t, NEW p \in DOMAIN t[i],
                      NEW q \in DOMAIN t[j], i < j \/ (i = j /\ p < q)
               PROVE  t[i][p] < t[j][q]
    BY DEF Ascending
  <2>1. Ascending(s)
    BY DEF Recorded, s
  <2>2. CASE p \in DOMAIN s[i] /\ t[i][p] = s[i][p]
    <3>1. CASE q \in DOMAIN s[j] /\ t[j][q] = s[j][q]
      BY <1>2, <1>4, <2>1, <2>2, <3>1 DEF Ascending
    <3>2. CASE t[j][q] = n
      BY <1>4, <1>6, <2>2, <3>2
    <3> QED BY <1>4, <1>5, <3>1, <3>2
  <2>3. CASE i = k /\ p = Len(l) + 1
    <3>1. j = k
      BY <1>2, <1>4, <2>3
    <3>2. q \in 1 .. Len(l) + 1 /\ p < q
      BY <1>2, <1>4, <2>3, <3>1
    <3> QED BY <1>2, <2>3, <3>2
  <2> QED BY <1>4, <1>5, <2>2, <2>3
<1>9. ASSUME NEW m \in Nat, Has(t, m) PROVE m <= n
  <2>1. PICK i \in 1 .. k : \E p \in DOMAIN t[i] : t[i][p] = m
    BY <1>4, <1>9 DEF Has
  <2>2. PICK p \in DOMAIN t[i] : t[i][p] = m
    BY <2>1
  <2>3. CASE p \in DOMAIN s[i] /\ t[i][p] = s[i][p]
    BY <1>1, <1>6, <2>2, <2>3
  <2>4. CASE t[i][p] = n
    BY <1>1, <2>2, <2>4
  <2> QED BY <1>5, <2>3, <2>4
<1>10. ASSUME NEW m \in 1 .. n, m \notin Y PROVE Has(t, m)
  <2>1. CASE m = n
    <3>1. Len(l) + 1 \in DOMAIN t[k] /\ t[k][Len(l) + 1] = n /\ k \in DOMAIN t
      BY <1>2, <1>3, <1>4 DEF k
    <3> QED BY <2>1, <3>1 DEF Has
  <2>2. CASE m # n
    <3>1. m \in 1 .. n - 1 /\ m \notin X
      BY <1>1, <1>10, <2>2
    <3>2. Has(s, m)
      BY <3>1 DEF Recorded, s
    <3> QED BY <1>2, <1>4, <1>6, <3>2 DEF Has
  <2> QED BY <2>1, <2>2
<1> QED BY <1>8, <1>9, <1>10 DEF Recorded, t

(* The next list is handed over and lost.                                  *)
LEMMA RecordLost ==
  ASSUME NEW s, NEW n \in Nat \ {0}, NEW X, NEW Y, X \cup {n} \subseteq Y,
         Recorded(s, n - 1, X)
  PROVE  Recorded(s, n, Y)
<1>1. \A m \in Nat : m <= n - 1 => m <= n
  OBVIOUS
<1>2. \A m \in 1 .. n : m # n => m \in 1 .. n - 1
  OBVIOUS
<1> QED BY <1>1, <1>2 DEF Recorded

(* The frozen lists, or the first of them, move to disk.                   *)
LEMMA RecordMoved ==
  ASSUME NEW d \in Seq(Seq(Ranks)), NEW l \in Seq(Ranks), NEW m \in Seq(Ranks),
         NEW n \in Nat, NEW X,
         Recorded(Append(d, l), n, X),
         Len(m) <= Len(l), \A p \in 1 .. Len(m) : m[p] = l[p],
         \A p \in Len(m) + 1 .. Len(l) : l[p] \in X
  PROVE  Recorded(Append(Append(d, m), <<>>), n, X)
<1> DEFINE s == Append(d, l)
           e == Append(d, m)
           t == Append(e, <<>>)
           k == Len(d) + 1
<1>1. /\ k \in Nat /\ DOMAIN s = 1 .. k /\ s[k] = l /\ DOMAIN l = 1 .. Len(l) /\ Len(l) \in Nat
      /\ \A i \in 1 .. k - 1 : s[i] = d[i]
  BY LastSegment
<1>2. /\ e \in Seq(Seq(Ranks)) /\ DOMAIN e = 1 .. k /\ Len(e) = k /\ e[k] = m
      /\ DOMAIN m = 1 .. Len(m) /\ Len(m) \in Nat
      /\ \A i \in 1 .. k - 1 : e[i] = d[i]
  BY LastSegment
<1>3. /\ DOMAIN t = 1 .. k + 1 /\ t[k + 1] = <<>> /\ \A i \in 1 .. k : t[i] = e[i]
  <2>1. <<>> \in Seq(Ranks)
    OBVIOUS
  <2> HIDE DEF e
  <2> QED BY <1>2, <2>1, LastSegment
<1> HIDE DEF s, e, t, k
<1>4. \A i \in DOMAIN t : \A p \in DOMAIN t[i] :
        i \in DOMAIN s /\ p \in DOMAIN s[i] /\ t[i][p] = s[i][p]
  <2> SUFFICES ASSUME NEW i \in DOMAIN t, NEW p \in DOMAIN t[i]
               PROVE  i \in DOMAIN s /\ p \in DOMAIN s[i] /\ t[i][p] = s[i][p]
    OBVIOUS
  <2>1. i # k + 1
    BY <1>3
  <2>2. CASE i = k BY <1>1, <1>2, <1>3, <2>2
  <2>3. CASE i \in 1 .. k - 1 BY <1>1, <1>2, <1>3, <2>3
  <2> QED BY <1>1, <1>3, <2>1, <2>2, <2>3
<1>5. Recorded(s, n, X)
  BY DEF s
<1>6. ASSUME NEW r \in 1 .. n, r \notin X PROVE Has(t, r)
  <2>1. PICK i \in 1 .. k : \E p \in DOMAIN s[i] : s[i][p] = r
    BY <1>1, <1>5, <1>6 DEF Recorded, Has
  <2>2. PICK p \in DOMAIN s[i] : s[i][p] = r
    BY <2>1
  <2>3. CASE i = k
    <3>1. p \in 1 .. Len(l) /\ l[p] = r
      BY <1>1, <2>2, <2>3
    <3>2. p \in 1 .. Len(m)
      BY <1>1, <1>2, <1>6, <3>1
    <3>3. k \in DOMAIN t /\ p \in DOMAIN t[k] /\ t[k][p] = r
      BY <1>1, <1>2, <1>3, <2>3, <3>1, <3>2
    <3> QED BY <3>3 DEF Has
  <2>4. CASE i \in 1 .. k - 1
    <3>1. i \in DOMAIN t /\ t[i] = s[i]
      BY <1>1, <1>2, <1>3, <2>4
    <3> QED BY <2>2, <3>1 DEF Has
  <2> QED BY <1>1, <2>3, <2>4
<1>7. Ascending(t)
  BY <1>4, <1>5 DEF Recorded, Ascending
<1>8. \A r \in Nat : Has(t, r) => r <= n
  BY <1>4, <1>5 DEF Recorded, Has
<1> QED BY <1>6, <1>7, <1>8 DEF Recorded, t, e

-----------------------------------------------------------------------------
LEMMA InitIInv == ASSUME Init PROVE IInv
<1> USE VersionSetAssumption DEF Init
<1> DEFINE e == [NewVersion(<<>>) EXCEPT !.state = "live"]
<1>1. e = [list_ |-> NoLists, list_count_ |-> 0, files_ |-> <<>>, state |-> "live"]
  BY DEF NewVersion
<1>2. NoLists \in [Writers -> Seq(Ranks)]
  BY DEF NoLists
<1>3. e \in Version
  <2>1. <<>> \in Seq(DOMAIN tables)
    OBVIOUS
  <2> HIDE DEF e, Init
  <2> QED BY <1>1, <1>2, <2>1 DEF Version
<1>4. versions \in Seq(Version) /\ Len(versions) = 1 /\ versions[1] = e /\ DOMAIN versions = 1 .. 1
  BY <1>3
<1> HIDE DEF e
<1>5. TypeOK
  <2>1. fileRefs \in [DOMAIN tables -> Nat] /\ tables \in Seq([lists : [Writers -> Seq(Ranks)], whole : BOOLEAN])
    <3>1. DOMAIN fileRefs = {} /\ DOMAIN tables = {} /\ fileRefs = [f \in {} |-> 0]
      OBVIOUS
    <3> QED BY <3>1
  <2>2. versions \in Seq(Version) /\ current_ \in DOMAIN versions
    BY <1>4
  <2>3. pc \in [Writers -> {"fill"}] /\ ptr \in [Writers -> {0}] /\ filled \in [Writers -> {1}]
    OBVIOUS
  <2>4. cidx \in 1 .. kMaxWriter + 1 /\ 1 \in 1 .. MaxLists + 1 /\ spurious \in 0 .. MaxSpurious
    OBVIOUS
  <2>5. mutex_ \in Writers \cup {NoWriter} /\ cond_ \subseteq Writers /\ stopFLAG \in BOOLEAN
        /\ late \subseteq Writers \X Ranks /\ cpc = "poll" /\ merged = NoLists
    OBVIOUS
  <2> HIDE DEF Init
  <2> QED BY <1>2, <2>1, <2>2, <2>3, <2>4, <2>5 DEF TypeOK
<1>6. LockInv
  BY DEF LockInv, Holding
<1>7. ShapeInv
  BY <1>1, <1>4 DEF ShapeInv
<1>8. CountInv
  <2>1. Appending = {}
    BY DEF Appending
  <2>2. Cardinality(Appending) = 0
    BY <2>1, FS_EmptySet
  <2>3. WakeUps = 2 * kMaxWriter
    BY DEF WakeUps
  <2>4. versions[1].list_count_ = 0 /\ Len(versions) = 1 /\ current_ = 1 /\ cpc = "poll" /\ spurious = 0
    BY <1>1, <1>4
  <2> HIDE DEF Init
  <2> QED BY <2>2, <2>3, <2>4 DEF CountInv
<1>9. RefsMatch /\ MergeInv
  BY DEF RefsMatch, MergeInv
<1>10. HistoryInv
  <2> SUFFICES ASSUME NEW w \in Writers PROVE Recorded(Shown(w), Handed(w), Excused(w))
    BY DEF HistoryInv
  <2>1. visible = 1
    BY <1>1, <1>4 DEF visible, freed
  <2>2. OnDisk(1, w) = <<>>
    BY <1>1, <1>4 DEF OnDisk
  <2>3. Path(1, w) = << <<>> >>
    <3>1. versions[1].list_[w] = <<>>
      BY <1>1, <1>4 DEF NoLists
    <3> HIDE DEF Init
    <3> QED BY <2>2, <3>1, AppendToEmpty DEF Path
  <2>4. Handed(w) = 0
    BY DEF Handed
  <2>5. Shown(w) = << <<>> >>
    BY <2>1, <2>3 DEF Shown
  <2> QED BY <2>4, <2>5 DEF Recorded, Ascending, Has
<1> QED BY <1>5, <1>6, <1>7, <1>8, <1>9, <1>10 DEF IInv

-----------------------------------------------------------------------------
(* Steps that leave versions, tables and lists alone.                      *)
LEMMA SameHistory ==
  ASSUME IInv, UNCHANGED <<current_, tables, fileRefs, late>>,
         DOMAIN versions' = DOMAIN versions,
         \A v \in DOMAIN versions :
           /\ versions'[v].state = versions[v].state
           /\ versions'[v].files_ = versions[v].files_
           /\ versions'[v].list_ = versions[v].list_,
         Len(versions') = Len(versions),
         \A w \in Writers : Handed(w)' = Handed(w)
  PROVE  RefsMatch' /\ HistoryInv'
<1>1. RefsMatch'
  <2> SUFFICES ASSUME NEW f \in DOMAIN fileRefs
               PROVE  fileRefs[f] = Cardinality({v \in DOMAIN versions' :
                                                   ~freed(v)' /\ InFiles(f, versions'[v])})
    BY DEF RefsMatch, freed, InFiles
  <2>1. \A v \in DOMAIN versions : freed(v)' <=> freed(v)
    BY DEF freed
  <2>2. \A v \in DOMAIN versions : InFiles(f, versions'[v]) <=> InFiles(f, versions[v])
    BY DEF InFiles
  <2>3. {v \in DOMAIN versions' : ~freed(v)' /\ InFiles(f, versions'[v])}
          = {v \in DOMAIN versions : ~freed(v) /\ InFiles(f, versions[v])}
    BY <2>1, <2>2, Zenon
  <2> QED BY <2>3 DEF IInv, RefsMatch
<1>2. HistoryInv'
  <2> SUFFICES ASSUME NEW w \in Writers PROVE Recorded(Shown(w), Handed(w), Excused(w))'
    BY DEF HistoryInv
  <2>1. Recorded(Shown(w), Handed(w), Excused(w))
    <3>1. HistoryInv
      BY Zenon DEF IInv
    <3> QED BY <3>1, Zenon DEF HistoryInv
  <2>2. Shown(w)' = Shown(w)
    <3>1. current_ \in DOMAIN versions /\ visible \in DOMAIN versions
      BY Numbers, VisibleThere DEF IInv
    <3>2. freed(current_)' <=> freed(current_)
      BY <3>1, Zenon DEF freed
    <3>3. visible' = visible
      BY <3>2, Zenon DEF visible
    <3> QED BY <3>1, <3>3, Zenon DEF Shown, Path, OnDisk
  <2>3. Excused(w)' = Excused(w)
    BY DEF Excused, Unsaved, Failed
  <2>4. Handed(w)' = Handed(w)
    OBVIOUS
  <2> QED BY <2>1, <2>2, <2>3, <2>4 DEF Recorded
<1> QED BY <1>1, <1>2

LEMMA SameStore ==
  ASSUME IInv, UNCHANGED <<versions, current_, tables, fileRefs, cidx, merged, late>>,
         cpc' = cpc \/ {cpc, cpc'} \subseteq {"poll", "broadcast", "quit"},
         \A w \in Writers : Handed(w)' = Handed(w)
  PROVE  ShapeInv' /\ RefsMatch' /\ MergeInv' /\ HistoryInv'
<1>1. ShapeInv'
  BY DEF IInv, ShapeInv, freed, full, NewVersion
<1>2. MergeInv'
  BY DEF IInv, MergeInv, MergedOf
<1> QED BY <1>1, <1>2, SameHistory

LEMMA CountStep ==
  ASSUME IInv, UNCHANGED <<versions, current_, cpc>>, NEW x,
         \/ Appending' \subseteq Appending /\ spurious' = spurious
         \/ Appending' \subseteq Appending \cup {x} /\ spurious' = spurious + 1
  PROVE  CountInv'
<1>1. /\ Appending \in SUBSET Writers /\ Appending' \in SUBSET Writers
      /\ kMaxWriter \in Nat /\ kMaxFrozenList \in Nat /\ spurious \in Nat
      /\ \A v \in 1 .. Len(versions) : versions[v].list_count_ \in Nat
      /\ current_ \in 1 .. Len(versions)
  BY Types DEF Appending, IInv
<1>2. /\ Cardinality(Appending) \in Nat /\ Cardinality(Appending') \in Nat
      /\ IsFiniteSet(Appending)
  BY <1>1, AppendingCount
<1>3. Cardinality(Appending') + spurious <= Cardinality(Appending) + spurious'
  <2>1. CASE Appending' \subseteq Appending /\ spurious' = spurious
    <3>1. Cardinality(Appending') <= Cardinality(Appending)
      BY <1>2, <2>1, FS_Subset
    <3> QED BY <1>1, <1>2, <2>1, <3>1
  <2>2. CASE Appending' \subseteq Appending \cup {x} /\ spurious' = spurious + 1
    <3>1. /\ IsFiniteSet(Appending \cup {x})
          /\ Cardinality(Appending \cup {x}) \in {Cardinality(Appending), Cardinality(Appending) + 1}
      BY <1>2, FS_AddElement
    <3>2. Cardinality(Appending') <= Cardinality(Appending \cup {x})
      BY <2>2, <3>1, FS_Subset
    <3> QED BY <1>1, <1>2, <2>2, <3>1, <3>2
  <2> QED BY <2>1, <2>2
<1>4. spurious' \in {spurious, spurious + 1} /\ spurious + 1 \in Nat
  BY <1>1
<1>5. WakeUps \in Nat /\ WakeUps' = WakeUps
  BY <1>1 DEF WakeUps
<1>6. PICK s \in Nat, p \in Nat : s = spurious' /\ p = Cardinality(Appending')
  <2>1. spurious' \in Nat
    BY <1>1, <1>4
  <2> QED BY <1>2, <2>1
<1>7. s >= spurious /\ p + spurious <= Cardinality(Appending) + s
  BY <1>1, <1>3, <1>4, <1>6
<1>8. ASSUME NEW v \in 1 .. Len(versions)
      PROVE  versions[v].list_count_ <= kMaxFrozenList + 2 * kMaxWriter - 1 + s
  <2>1. versions[v].list_count_ <= kMaxFrozenList + 2 * kMaxWriter - 1 + spurious
    BY DEF IInv, CountInv
  <2> QED BY <1>1, <1>7, <2>1
<1>9. ASSUME ~freed(current_)
      PROVE  versions[current_].list_count_ + p <= kMaxFrozenList + WakeUps - 1 + s
  <2>1. versions[current_].list_count_ + Cardinality(Appending)
          <= kMaxFrozenList + WakeUps - 1 + spurious
    BY <1>9 DEF IInv, CountInv
  <2> QED BY SMTT(30), <1>1, <1>2, <1>5, <1>7, <2>1
<1> QED BY <1>5, <1>6, <1>8, <1>9 DEF CountInv, freed

LEMMA NoWriterIsNone == NoWriter \notin Writers
  BY DEF NoWriter, Writers

LEMMA listFullStep == ASSUME IInv, NEW w \in Writers, listFull(w) PROVE IInv'
<1> USE VersionSetAssumption DEF listFull, setVars, lockVars, compacterVars, ghostVars
<1>1. TypeOK' /\ LockInv'
  <2>1. /\ TypeOK /\ \A d \in Writers : d # w => pc'[d] = pc[d]
        /\ LockInv
    BY DEF IInv, TypeOK
  <2>2. TypeOK'
    BY <2>1, Types, NoWriterIsNone DEF TypeOK, Version
  <2>3. LockInv'
    BY <2>1, <2>2, Types, NoWriterIsNone DEF TypeOK, LockInv, Holding
  <2> QED BY <2>2, <2>3
<1>2. CountInv'
  BY CountStep DEF IInv, TypeOK, Appending
<1>3. \A d \in Writers : Handed(d)' = Handed(d)
  BY DEF IInv, TypeOK, Handed
<1> QED BY <1>1, <1>2, <1>3, SameStore DEF IInv

LEMMA LockStep == ASSUME IInv, NEW w \in Writers, Lock(w) PROVE IInv'
<1> USE VersionSetAssumption DEF Lock, setVars, lockVars, compacterVars, ghostVars
<1>1. TypeOK' /\ LockInv'
  <2>1. /\ TypeOK /\ \A d \in Writers : d # w => pc'[d] = pc[d]
        /\ LockInv
    BY DEF IInv, TypeOK
  <2>2. TypeOK'
    BY <2>1, Types, NoWriterIsNone DEF TypeOK, Version
  <2>3. LockInv'
    BY <2>1, <2>2, Types, NoWriterIsNone DEF TypeOK, LockInv, Holding
  <2> QED BY <2>2, <2>3
<1>2. CountInv'
  BY CountStep DEF IInv, TypeOK, Appending
<1>3. \A d \in Writers : Handed(d)' = Handed(d)
  BY DEF IInv, TypeOK, Handed
<1> QED BY <1>1, <1>2, <1>3, SameStore DEF IInv

LEMMA checkFullStep == ASSUME IInv, NEW w \in Writers, checkFull(w) PROVE IInv'
<1> USE VersionSetAssumption DEF checkFull, setVars, lockVars, compacterVars, ghostVars
<1>1. TypeOK' /\ LockInv'
  <2>1. /\ TypeOK /\ \A d \in Writers : d # w => pc'[d] = pc[d]
        /\ LockInv
    BY DEF IInv, TypeOK
  <2>2. TypeOK'
    BY <2>1, Types, NoWriterIsNone DEF TypeOK, Version
  <2>3. LockInv'
    BY <2>1, <2>2, Types, NoWriterIsNone DEF TypeOK, LockInv, Holding
  <2> QED BY <2>2, <2>3
<1>2. \A d \in Writers : Handed(d)' = Handed(d)
  BY DEF IInv, TypeOK, Handed
<1>3. CountInv'
  <2>1. CASE pc' = [pc EXCEPT ![w] = "wait"]
    BY <2>1, CountStep DEF IInv, TypeOK, Appending
  <2>2. CASE pc' = [pc EXCEPT ![w] = "append"] /\ freed(current_)
    BY <2>2 DEF CountInv, IInv, freed, WakeUps
  <2>3. CASE pc' = [pc EXCEPT ![w] = "append"] /\ ~freed(current_) /\ ~full(current_)
    <3>1. /\ kMaxWriter \in Nat /\ kMaxFrozenList \in Nat /\ spurious \in Nat
          /\ versions[current_].list_count_ \in Nat /\ spurious' = spurious
      BY Types DEF IInv
    <3>2. Cardinality(Appending') \in Nat /\ Cardinality(Appending') <= kMaxWriter
      <4>1. Appending' \in SUBSET Writers
        BY DEF Appending
      <4> QED BY <4>1, AppendingCount
    <3>3. versions[current_].list_count_ < kMaxFrozenList
      BY <2>3, <3>1 DEF full
    <3>4. WakeUps \in Nat /\ kMaxWriter <= WakeUps /\ WakeUps' = WakeUps
      BY <3>1 DEF WakeUps
    <3>5. versions[current_].list_count_ + Cardinality(Appending')
            <= kMaxFrozenList + WakeUps - 1 + spurious
      BY <3>1, <3>2, <3>3, <3>4
    <3> QED BY <3>1, <3>4, <3>5 DEF CountInv, IInv, freed
  <2> QED BY <2>1, <2>2, <2>3 DEF isFull
<1> QED BY <1>1, <1>2, <1>3, SameStore DEF IInv

LEMMA WaitStep == ASSUME IInv, NEW w \in Writers, Wait(w) PROVE IInv'
<1> USE VersionSetAssumption DEF Wait, setVars, lockVars, compacterVars, ghostVars
<1>1. TypeOK' /\ LockInv'
  <2>1. /\ TypeOK /\ \A d \in Writers : d # w => pc'[d] = pc[d]
        /\ LockInv
    BY DEF IInv, TypeOK
  <2>2. TypeOK'
    BY <2>1, Types, NoWriterIsNone DEF TypeOK, Version
  <2>3. LockInv'
    BY <2>1, <2>2, Types, NoWriterIsNone DEF TypeOK, LockInv, Holding
  <2> QED BY <2>2, <2>3
<1>2. CountInv'
  BY CountStep DEF IInv, TypeOK, Appending
<1>3. \A d \in Writers : Handed(d)' = Handed(d)
  BY DEF IInv, TypeOK, Handed
<1> QED BY <1>1, <1>2, <1>3, SameStore DEF IInv

LEMMA wakeSpuriouslyStep == ASSUME IInv, NEW w \in Writers, wakeSpuriously(w) PROVE IInv'
<1> USE VersionSetAssumption DEF wakeSpuriously, setVars, lockVars, compacterVars, ghostVars
<1>1. TypeOK' /\ LockInv'
  <2>1. /\ TypeOK /\ \A d \in Writers : d # w => pc'[d] = pc[d]
        /\ LockInv
    BY DEF IInv, TypeOK
  <2>2. TypeOK'
    <3>1. spurious + 1 \in 0 .. MaxSpurious
      BY <2>1 DEF TypeOK
    <3> QED BY <2>1, <3>1, Types, NoWriterIsNone DEF TypeOK, Version
  <2>3. LockInv'
    BY <2>1, <2>2, Types, NoWriterIsNone DEF TypeOK, LockInv, Holding
  <2> QED BY <2>2, <2>3
<1>2. CountInv'
  BY CountStep DEF IInv, TypeOK, Appending
<1>3. \A d \in Writers : Handed(d)' = Handed(d)
  BY DEF IInv, TypeOK, Handed, LockInv
<1> QED BY <1>1, <1>2, <1>3, SameStore DEF IInv

LEMMA relockStep == ASSUME IInv, NEW w \in Writers, relock(w) PROVE IInv'
<1> USE VersionSetAssumption DEF relock, setVars, lockVars, compacterVars, ghostVars
<1>1. TypeOK' /\ LockInv'
  <2>1. /\ TypeOK /\ \A d \in Writers : d # w => pc'[d] = pc[d]
        /\ LockInv
    BY DEF IInv, TypeOK
  <2>2. TypeOK'
    BY <2>1, Types, NoWriterIsNone DEF TypeOK, Version
  <2>3. LockInv'
    BY <2>1, <2>2, Types, NoWriterIsNone DEF TypeOK, LockInv, Holding
  <2> QED BY <2>2, <2>3
<1>2. CountInv'
  BY CountStep DEF IInv, TypeOK, Appending
<1>3. \A d \in Writers : Handed(d)' = Handed(d)
  BY DEF IInv, TypeOK, Handed
<1> QED BY <1>1, <1>2, <1>3, SameStore DEF IInv

LEMMA readCurrentStep == ASSUME IInv, NEW w \in Writers, readCurrent(w) PROVE IInv'
<1> USE VersionSetAssumption DEF readCurrent, setVars, lockVars, compacterVars, ghostVars
<1>1. TypeOK' /\ LockInv'
  <2>1. /\ TypeOK /\ \A d \in Writers : d # w => pc'[d] = pc[d]
        /\ LockInv
    BY DEF IInv, TypeOK
  <2>2. TypeOK'
    BY <2>1, Types, NoWriterIsNone DEF TypeOK, Version
  <2>3. LockInv'
    BY SMTT(30), <2>1, <2>2, Types, NoWriterIsNone DEF TypeOK, LockInv, Holding
  <2> QED BY <2>2, <2>3
<1>2. CountInv'
  BY CountStep DEF IInv, TypeOK, Appending
<1>3. \A d \in Writers : Handed(d)' = Handed(d)
  BY DEF IInv, TypeOK, Handed
<1> QED BY <1>1, <1>2, <1>3, SameStore DEF IInv

LEMMA stopStep == ASSUME IInv, stop PROVE IInv'
<1> USE DEF stop, setVars, lockVars, compacterVars, ghostVars, writerVars
<1>1. TypeOK' /\ LockInv' /\ CountInv'
  BY DEF IInv, TypeOK, LockInv, Version, CountInv, Appending, freed, WakeUps
<1>2. \A d \in Writers : Handed(d)' = Handed(d)
  BY DEF Handed
<1> QED BY <1>1, <1>2, SameStore DEF IInv

LEMMA quitStep == ASSUME IInv, quit PROVE IInv'
<1> USE DEF quit, setVars, lockVars, compacterVars, ghostVars, writerVars
<1>1. TypeOK' /\ LockInv' /\ CountInv'
  BY DEF IInv, TypeOK, LockInv, Version, CountInv, Appending, freed, WakeUps
<1>2. \A d \in Writers : Handed(d)' = Handed(d)
  BY DEF Handed
<1> QED BY <1>1, <1>2, SameStore DEF IInv

LEMMA BoundKept ==
  ASSUME NEW l \in Nat, NEW a \in Nat, NEW p \in Nat, NEW n \in Nat, NEW m \in Nat,
         NEW s \in Nat, l + a <= n + m - 1 + s, p <= m
  PROVE  l + p <= n + 2 * m - 1 + s
  OBVIOUS

LEMMA BoardcastStep == ASSUME IInv, Boardcast PROVE IInv'
<1> USE VersionSetAssumption DEF Boardcast, setVars, lockVars, compacterVars, ghostVars
<1>1. /\ TypeOK /\ \A w \in Writers : pc'[w] = IF w \in cond_ THEN "woken" ELSE pc[w]
      /\ pc' \in [Writers -> {"fill", "lock", "check", "wait", "asleep", "woken",
                              "append", "push", "count"}]
  BY DEF IInv, TypeOK
<1>2. TypeOK'
  BY <1>1 DEF TypeOK, Version
<1>3. LockInv'
  BY <1>1 DEF IInv, LockInv, Holding
<1>4. \A d \in Writers : Handed(d)' = Handed(d)
  BY <1>1 DEF IInv, LockInv, Handed
<1>5. CountInv'
  <2>1. /\ kMaxWriter \in Nat \ {0} /\ kMaxFrozenList \in Nat /\ spurious \in Nat
        /\ versions[current_].list_count_ \in Nat
    BY <1>1, Types
  <2>2. Cardinality(Appending) \in Nat
    BY AppendingCount DEF Appending
  <2>3. Cardinality(Appending') \in Nat /\ Cardinality(Appending') <= kMaxWriter
    <3>1. Appending' \in SUBSET Writers
      BY DEF Appending
    <3> QED BY <3>1, AppendingCount
  <2>4. /\ WakeUps = kMaxWriter /\ WakeUps' = 2 * kMaxWriter
        /\ UNCHANGED <<versions, current_, spurious>>
    BY DEF WakeUps
  <2>5. PICK p \in Nat : p = Cardinality(Appending')
    BY <2>3
  <2>6. ~freed(current_) =>
          versions[current_].list_count_ + p <= kMaxFrozenList + 2 * kMaxWriter - 1 + spurious
    <3>1. SUFFICES ASSUME ~freed(current_)
                   PROVE  versions[current_].list_count_ + p
                            <= kMaxFrozenList + 2 * kMaxWriter - 1 + spurious
      OBVIOUS
    <3>2. versions[current_].list_count_ + Cardinality(Appending)
            <= kMaxFrozenList + kMaxWriter - 1 + spurious
      BY <2>4, <3>1 DEF IInv, CountInv
    <3>3. kMaxWriter \in Nat /\ p <= kMaxWriter
      BY <2>1, <2>3, <2>5
    <3> HIDE DEF Boardcast, setVars, lockVars, compacterVars, ghostVars
    <3> QED BY <2>1, <2>2, <3>2, <3>3, BoundKept
  <2>7. \A v \in 1 .. Len(versions) :
          versions[v].list_count_ <= kMaxFrozenList + 2 * kMaxWriter - 1 + spurious
    BY DEF IInv, CountInv
  <2> QED BY <2>4, <2>5, <2>6, <2>7 DEF CountInv, freed
<1> QED BY <1>2, <1>3, <1>4, <1>5, SameStore DEF IInv

LEMMA pollStep == ASSUME IInv, poll PROVE IInv'
<1> USE VersionSetAssumption DEF poll, setVars, lockVars, writerVars, ghostVars
<1>1. TypeOK'
  <2>1. NoLists \in [Writers -> Seq(Ranks)]
    BY DEF NoLists
  <2>2. 1 \in 1 .. kMaxWriter + 1
    OBVIOUS
  <2> QED BY <2>1, <2>2 DEF IInv, TypeOK, Version
<1>2. LockInv' /\ CountInv'
  BY DEF IInv, LockInv, CountInv, Appending, freed, WakeUps
<1>3. ShapeInv'
  BY DEF IInv, ShapeInv, freed, full
<1>4. MergeInv'
  <2>1. \A w \in Writers : ~ (w < cidx')
    BY DEF Writers
  <2> QED BY <2>1 DEF MergeInv
<1>5. RefsMatch' /\ HistoryInv'
  BY SameHistory DEF Handed
<1> QED BY <1>1, <1>2, <1>3, <1>4, <1>5 DEF IInv

LEMMA mergeStep == ASSUME IInv, merge PROVE IInv'
<1> USE DEF merge, setVars, lockVars, writerVars, ghostVars
<1>1. /\ TypeOK /\ cidx \in Writers /\ cidx \in Nat /\ cidx' = cidx + 1
      /\ versions[current_].list_[cidx] \in Seq(Ranks)
      /\ cidx' \in 1 .. kMaxWriter + 1
  <2>1. cidx + 1 \in 1 .. kMaxWriter + 1 /\ cidx \in Nat
    BY VersionSetAssumption DEF Writers
  <2> QED BY <2>1, Types DEF IInv
<1>2. TypeOK'
  BY <1>1 DEF TypeOK, Version
<1>3. LockInv' /\ CountInv'
  BY DEF IInv, LockInv, CountInv, Appending, freed, WakeUps
<1>4. ShapeInv'
  BY DEF IInv, ShapeInv, freed, full
<1>5. MergeInv'
  <2> SUFFICES ASSUME NEW w \in Writers, w < cidx'
               PROVE  MergedOf(w)'
    BY DEF MergeInv
  <2>1. CASE w = cidx
    <3>1. merged'[w] = versions[current_].list_[w]
      BY <1>1, <2>1 DEF TypeOK
    <3>2. Len(versions[current_].list_[w]) \in Nat
      BY <1>1, <2>1, SeqFacts
    <3> QED BY <3>1, <3>2 DEF MergedOf
  <2>2. CASE w # cidx
    <3>1. w < cidx /\ merged'[w] = merged[w]
      BY <1>1, <2>2 DEF TypeOK, Writers
    <3>2. MergedOf(w)
      BY <3>1 DEF IInv, MergeInv
    <3> QED BY <3>1, <3>2 DEF MergedOf
  <2> QED BY <2>1, <2>2
<1>6. RefsMatch' /\ HistoryInv'
  BY SameHistory DEF Handed
<1> QED BY <1>2, <1>3, <1>4, <1>5, <1>6 DEF IInv

-----------------------------------------------------------------------------
(* Steps that change versions or tables.                                   *)

(* A version in the sequence of versions is replaced by another.           *)
LEMMA Replaced ==
  ASSUME TypeOK, NEW v \in 1 .. Len(versions), NEW e \in Version,
         versions' = [versions EXCEPT ![v] = e]
  PROVE  /\ versions' \in Seq(Version) /\ Len(versions') = Len(versions)
         /\ DOMAIN versions' = DOMAIN versions /\ versions'[v] = e
         /\ \A u \in DOMAIN versions : u # v => versions'[u] = versions[u]
<1>1. versions \in Seq(Version) /\ DOMAIN versions = 1 .. Len(versions)
  BY LenProperties DEF TypeOK
<1> QED BY <1>1, ExceptSeq, LenProperties

LEMMA AppendToFunction ==
  ASSUME NEW n \in Nat, NEW f \in [1 .. n -> Nat], NEW e \in Nat
  PROVE  /\ Append(f, e) \in [1 .. n + 1 -> Nat]
         /\ \A i \in 1 .. n : Append(f, e)[i] = f[i]
         /\ Append(f, e)[n + 1] = e
<1>1. f \in Seq(Nat)
  BY SMT
<1>2. Len(f) = n
  BY <1>1
<1>3. Append(f, e) \in Seq(Nat) /\ Len(Append(f, e)) = n + 1
  BY <1>1, <1>2, AppendProperties
<1>4. Append(f, e) \in [1 .. n + 1 -> Nat]
  BY <1>3, LenProperties
<1> QED BY <1>1, <1>2, <1>4, AppendProperties

LEMMA countAndUnlockStep == ASSUME IInv, NEW w \in Writers, countAndUnlock(w) PROVE IInv'
<1> DEFINE v == ptr[w]
<1>1. /\ TypeOK /\ LockInv /\ v \in 1 .. current_ /\ v \in 1 .. Len(versions)
      /\ pc[w] = "count" /\ filled[w] \in 1 .. MaxLists /\ filled[w] + 1 \in 1 .. MaxLists + 1
      /\ UNCHANGED <<current_, tables, fileRefs, cond_, ptr, cpc, cidx, merged, stopFLAG,
                     spurious, late>>
  <2>1. TypeOK /\ LockInv
    BY DEF IInv
  <2>2. /\ pc[w] = "count"
        /\ UNCHANGED <<current_, tables, fileRefs, cond_, ptr, cpc, cidx, merged, stopFLAG,
                       spurious, late>>
    BY DEF countAndUnlock, compacterVars, ghostVars
  <2>3. v \in 1 .. current_ /\ filled[w] <= MaxLists
    BY <2>1, <2>2 DEF LockInv
  <2>4. filled[w] \in Nat \ {0} /\ MaxLists \in Nat /\ current_ \in 1 .. Len(versions)
        /\ Len(versions) \in Nat /\ current_ \in Nat
    BY <2>1, Types
  <2> QED BY <2>1, <2>2, <2>3, <2>4
<1>2. /\ versions' \in Seq(Version) /\ Len(versions') = Len(versions)
      /\ DOMAIN versions' = DOMAIN versions
      /\ \A u \in DOMAIN versions : u # v => versions'[u] = versions[u]
      /\ \A u \in DOMAIN versions :
           /\ versions'[u].state = versions[u].state
           /\ versions'[u].files_ = versions[u].files_
           /\ versions'[u].list_ = versions[u].list_
           /\ versions'[u].list_count_ =
                IF u = v /\ ~freed(u) THEN versions[u].list_count_ + 1
                                      ELSE versions[u].list_count_
  <2> DEFINE e == [versions[v] EXCEPT !.list_count_ = @ + 1]
  <2>1. CASE freed(v)
    BY <1>1, <2>1, Types DEF countAndUnlock, TypeOK
  <2>2. CASE ~freed(v)
    <3>1. e \in Version /\ versions[v] \in Version
      <4>1. versions[v] \in Version
        BY <1>1, Types
      <4>2. versions[v].list_count_ \in Nat
        BY <1>1, Types
      <4>3. versions[v].list_count_ + 1 \in Nat
        BY <4>2
      <4> QED BY <4>1, <4>3 DEF Version
    <3>2. versions' = [versions EXCEPT ![v] = e]
      BY <1>1, <2>2 DEF countAndUnlock
    <3>3. /\ e.state = versions[v].state /\ e.files_ = versions[v].files_
          /\ e.list_ = versions[v].list_ /\ e.list_count_ = versions[v].list_count_ + 1
      BY <3>1 DEF Version
    <3> HIDE DEF e, v
    <3> QED BY <1>1, <2>2, <3>1, <3>2, <3>3, Replaced
  <2> QED BY <2>1, <2>2
<1> HIDE DEF v
<1>3. /\ pc' = [pc EXCEPT ![w] = "fill"] /\ filled' = [filled EXCEPT ![w] = @ + 1]
      /\ mutex_' = NoWriter
  BY DEF countAndUnlock
<1>4. TypeOK'
  BY <1>1, <1>2, <1>3 DEF TypeOK, Version
<1>5. LockInv'
  BY <1>1, <1>3 DEF LockInv, TypeOK, Holding
<1>6. \A d \in Writers : Handed(d)' = Handed(d)
  <2>1. filled[w] + 1 - 1 = filled[w]
    BY <1>1
  <2>2. Handed(w)' = filled[w] /\ Handed(w) = filled[w]
    BY <1>1, <1>3, <2>1 DEF Handed, TypeOK
  <2>3. \A d \in Writers : d # w => pc'[d] = pc[d] /\ filled'[d] = filled[d]
    BY <1>3
  <2> QED BY <2>2, <2>3 DEF Handed
<1>7. RefsMatch' /\ HistoryInv'
  BY <1>1, <1>2, <1>6, SameHistory
<1>8. full(current_) => full(current_)'
  <2>1. current_ \in DOMAIN versions /\ versions[current_].list_count_ \in Nat /\ kMaxFrozenList \in Nat
    BY <1>1, Types
  <2>2. full(current_) => /\ versions[current_].list_count_ >= kMaxFrozenList
                          /\ versions[current_].list_count_ + 1 >= kMaxFrozenList
    <3>1. \A c, n \in Nat : c >= n => c + 1 >= n
      OBVIOUS
    <3> QED BY <2>1, <3>1, Zenon DEF full
  <2>3. versions'[current_].list_count_
          \in {versions[current_].list_count_, versions[current_].list_count_ + 1}
    BY <1>2, <2>1
  <2>4. full(current_)' <=> versions'[current_].list_count_ >= kMaxFrozenList
    BY <1>1, Zenon DEF full
  <2> QED BY <2>2, <2>3, <2>4
<1>9. ShapeInv'
  <2>1. ShapeInv /\ current_ \in Nat \ {0} /\ DOMAIN versions = 1 .. Len(versions)
        /\ Len(versions) \in Nat /\ current_ \in DOMAIN versions
    BY Numbers DEF IInv
  <2>2. \A u \in 1 .. current_ - 1 : freed(u)'
    <3>1. \A u \in 1 .. current_ - 1 : freed(u)
      BY <2>1, Zenon DEF ShapeInv
    <3>2. \A u \in 1 .. current_ - 1 : u \in DOMAIN versions
      BY <2>1
    <3> QED BY <1>2, <3>1, <3>2, Zenon DEF freed
  <2>3. cpc \in {"unref", "install"} => versions'[current_ + 1] = versions[current_ + 1]
    <3>1. current_ + 1 # v
      BY <1>1, <2>1
    <3>2. cpc \in {"unref", "install"} => current_ + 1 \in DOMAIN versions
      BY <2>1 DEF ShapeInv
    <3> QED BY <1>2, <3>1, <3>2
  <2>4. /\ versions'[current_].state = versions[current_].state
        /\ versions'[current_].files_ = versions[current_].files_
    BY <1>2, <2>1
  <2>5. ShapeInv' <=>
          /\ \A u \in 1 .. current_ - 1 : freed(u)'
          /\ versions'[current_].state = IF cpc = "install" THEN "freed" ELSE "live"
          /\ IF cpc \in {"unref", "install"}
             THEN /\ Len(versions') = current_ + 1
                  /\ versions'[current_ + 1] =
                       NewVersion(Append(versions'[current_].files_, Len(tables)))
             ELSE Len(versions') = current_
          /\ cpc \in {"apply", "unref", "install"} =>
               Len(tables) > 0 /\ tables[Len(tables)].lists = merged
          /\ cpc \in {"apply", "unref"} => cidx = kMaxWriter + 1
          /\ cpc \in {"merge", "apply", "unref"} => full(current_)'
    BY <1>1 DEF ShapeInv, NewVersion
  <2> HIDE DEF NewVersion
  <2>6. NewVersion(Append(versions'[current_].files_, Len(tables)))
          = NewVersion(Append(versions[current_].files_, Len(tables)))
    BY <2>4
  <2>7. /\ versions[current_].state = IF cpc = "install" THEN "freed" ELSE "live"
        /\ IF cpc \in {"unref", "install"}
           THEN /\ Len(versions) = current_ + 1
                /\ versions[current_ + 1] =
                     NewVersion(Append(versions[current_].files_, Len(tables)))
           ELSE Len(versions) = current_
        /\ cpc \in {"apply", "unref", "install"} =>
             Len(tables) > 0 /\ tables[Len(tables)].lists = merged
        /\ cpc \in {"apply", "unref"} => cidx = kMaxWriter + 1
        /\ cpc \in {"merge", "apply", "unref"} => full(current_)
    BY <2>1, Zenon DEF ShapeInv
  <2>8. /\ versions'[current_].state = IF cpc = "install" THEN "freed" ELSE "live"
        /\ IF cpc \in {"unref", "install"}
           THEN /\ Len(versions') = current_ + 1
                /\ versions'[current_ + 1] =
                     NewVersion(Append(versions'[current_].files_, Len(tables)))
           ELSE Len(versions') = current_
    BY <1>2, <2>3, <2>4, <2>6, <2>7
  <2> QED BY <1>8, <2>2, <2>5, <2>7, <2>8
<1>10. MergeInv'
  <2>1. versions'[current_].list_ = versions[current_].list_
    BY <1>1, <1>2, Types
  <2> QED BY <1>1, <2>1 DEF IInv, MergeInv, MergedOf
<1>11. CountInv'
  <2>1. Appending \in SUBSET Writers /\ Appending' = Appending \ {w} /\ w \in Appending
    BY <1>1, <1>3 DEF Appending, TypeOK
  <2>2. /\ IsFiniteSet(Appending) /\ Cardinality(Appending) \in Nat
        /\ Cardinality(Appending') = Cardinality(Appending) - 1
        /\ Cardinality(Appending) - 1 \in Nat
    <3>1. IsFiniteSet(Appending) /\ Cardinality(Appending) \in Nat
      BY <2>1, AppendingCount
    <3>2. Cardinality(Appending \ {w}) = Cardinality(Appending) - 1
      BY <2>1, <3>1, FS_RemoveElement
    <3>3. Cardinality(Appending \ {w}) \in Nat
      BY <2>1, AppendingCount
    <3> QED BY <2>1, <3>1, <3>2, <3>3
  <2>3. /\ kMaxWriter \in Nat /\ kMaxFrozenList \in Nat /\ spurious \in Nat /\ current_ \in DOMAIN versions
        /\ \A u \in DOMAIN versions : versions[u].list_count_ \in Nat
        /\ DOMAIN versions = 1 .. Len(versions) /\ current_ \in Nat
    BY <1>1, Types
  <2>4. WakeUps' = WakeUps /\ WakeUps \in Nat /\ WakeUps <= 2 * kMaxWriter
    BY <1>1, <2>3 DEF WakeUps
  <2>5. ASSUME ~freed(current_)
        PROVE  versions[current_].list_count_ + 1 + (Cardinality(Appending) - 1)
                 <= kMaxFrozenList + WakeUps - 1 + spurious
    BY <2>2, <2>3, <2>4, <2>5 DEF IInv, CountInv
  <2>6. \A u \in DOMAIN versions : u = v /\ ~freed(u) => u = current_
    BY <1>1, <2>3 DEF IInv, ShapeInv
  <2>7. ASSUME NEW u \in DOMAIN versions
        PROVE  versions'[u].list_count_ <= kMaxFrozenList + 2 * kMaxWriter - 1 + spurious
    <3>1. CASE u = v /\ ~freed(u)
      <4>1. versions[u].list_count_ + 1 <= kMaxFrozenList + 2 * kMaxWriter - 1 + spurious
        BY <2>2, <2>3, <2>4, <2>5, <2>6, <3>1
      <4> QED BY <1>2, <3>1, <4>1
    <3>2. CASE ~ (u = v /\ ~freed(u))
      BY <1>2, <2>3, <3>2 DEF IInv, CountInv
    <3> QED BY <3>1, <3>2
  <2>8. ASSUME ~freed(current_)
        PROVE  versions'[current_].list_count_ + (Cardinality(Appending) - 1)
                 <= kMaxFrozenList + WakeUps - 1 + spurious
    <3>1. versions[current_].list_count_ + (Cardinality(Appending) - 1)
            <= kMaxFrozenList + WakeUps - 1 + spurious
      BY <2>2, <2>3, <2>4, <2>5, <2>8
    <3> QED BY <1>2, <2>3, <2>5, <2>8, <3>1
  <2>9. freed(current_)' = freed(current_)
    BY <1>1, <1>2, <2>3 DEF freed
  <2> QED BY <1>1, <1>2, <2>2, <2>3, <2>4, <2>7, <2>8, <2>9 DEF CountInv
<1> QED BY <1>4, <1>5, <1>7, <1>9, <1>10, <1>11 DEF IInv

(* The tables of a version as segments of a Writer's record.               *)
LEMMA OnDiskType ==
  ASSUME TypeOK, NEW v \in 1 .. Len(versions), NEW w \in Writers
  PROVE  /\ OnDisk(v, w) \in Seq(Seq(Ranks))
         /\ Len(OnDisk(v, w)) = Len(versions[v].files_)
         /\ DOMAIN OnDisk(v, w) = DOMAIN versions[v].files_
         /\ DOMAIN versions[v].files_ = 1 .. Len(versions[v].files_)
         /\ Len(versions[v].files_) \in Nat
<1> DEFINE n == Len(versions[v].files_)
<1>1. /\ versions[v].files_ \in Seq(DOMAIN tables)
      /\ \A f \in DOMAIN tables : tables[f].lists[w] \in Seq(Ranks)
  BY Types
<1>2. /\ DOMAIN versions[v].files_ = 1 .. n /\ n \in Nat
      /\ \A i \in 1 .. n : versions[v].files_[i] \in DOMAIN tables
  BY <1>1, SeqFacts
<1>3. <<>> \in Seq(Ranks)
  OBVIOUS
<1> HIDE DEF n
<1>4. OnDisk(v, w) \in [1 .. n -> Seq(Ranks)]
  BY <1>1, <1>2, <1>3 DEF OnDisk
<1>5. OnDisk(v, w) \in Seq(Seq(Ranks))
  BY <1>2, <1>4
<1>6. DOMAIN OnDisk(v, w) = 1 .. n
  BY <1>4
<1>7. Len(OnDisk(v, w)) = n
  BY <1>2, <1>5, <1>6
<1> QED BY <1>2, <1>5, <1>6, <1>7 DEF n

LEMMA pushBackStep == ASSUME IInv, NEW w \in Writers, pushBack(w) PROVE IInv'
<1> DEFINE v == ptr[w]
           n == filled[w]
<1>1. /\ TypeOK /\ LockInv /\ v \in 1 .. current_ /\ v \in 1 .. Len(versions)
      /\ pc[w] = "push" /\ pc' = [pc EXCEPT ![w] = "count"]
      /\ n \in 1 .. MaxLists /\ n \in Ranks /\ n \in Nat \ {0} /\ <<w, n>> \in Writers \X Ranks
      /\ late' = IF freed(v) \/ full(v) THEN late \cup {<<w, n>>} ELSE late
      /\ UNCHANGED <<current_, tables, fileRefs, mutex_, cond_, ptr, filled, cpc, cidx, merged,
                     stopFLAG, spurious>>
  <2>1. TypeOK /\ LockInv
    BY DEF IInv
  <2>2. /\ pc[w] = "push" /\ pc' = [pc EXCEPT ![w] = "count"]
        /\ late' = IF freed(v) \/ full(v) THEN late \cup {<<w, n>>} ELSE late
        /\ UNCHANGED <<current_, tables, fileRefs, mutex_, cond_, ptr, filled, cpc, cidx, merged,
                       stopFLAG, spurious>>
    BY DEF pushBack, lockVars, compacterVars
  <2>3. v \in 1 .. current_ /\ filled[w] <= MaxLists
    BY <2>1, <2>2 DEF LockInv
  <2>4. filled[w] \in Nat \ {0} /\ MaxLists \in Nat /\ current_ \in 1 .. Len(versions)
        /\ Len(versions) \in Nat /\ current_ \in Nat
    BY <2>1, Types
  <2>5. n \in 1 .. MaxLists
    BY <2>3, <2>4
  <2> QED BY <2>1, <2>2, <2>3, <2>4, <2>5 DEF Ranks
<1>2. ~freed(v) => v = current_
  BY <1>1, Types DEF IInv, ShapeInv
<1>3. /\ versions' \in Seq(Version) /\ Len(versions') = Len(versions)
      /\ DOMAIN versions' = DOMAIN versions
      /\ \A u \in DOMAIN versions : u # v => versions'[u] = versions[u]
      /\ \A u \in DOMAIN versions :
           /\ versions'[u].state = versions[u].state
           /\ versions'[u].files_ = versions[u].files_
           /\ versions'[u].list_count_ = versions[u].list_count_
           /\ \A d \in Writers :
                versions'[u].list_[d] =
                  IF u = v /\ d = w /\ ~freed(v) THEN Append(versions[u].list_[d], n)
                                               ELSE versions[u].list_[d]
  <2> DEFINE e == [versions[v] EXCEPT !.list_[w] = Append(versions[v].list_[w], n)]
  <2>1. CASE freed(v)
    BY <1>1, <2>1, Types DEF pushBack, TypeOK
  <2>2. CASE ~freed(v)
    <3>1. versions[v] \in Version /\ Append(versions[v].list_[w], n) \in Seq(Ranks)
      BY <1>1, Types, AppendProperties
    <3>2. e \in Version
      BY <3>1 DEF Version
    <3>3. versions' = [versions EXCEPT ![v] = e]
      BY <1>1, <2>2 DEF pushBack
    <3>4. /\ e.state = versions[v].state /\ e.files_ = versions[v].files_
          /\ e.list_count_ = versions[v].list_count_
          /\ \A d \in Writers :
               e.list_[d] = IF d = w THEN Append(versions[v].list_[d], n) ELSE versions[v].list_[d]
      BY <3>1 DEF Version
    <3> HIDE DEF e, v, n
    <3>5. /\ versions' \in Seq(Version) /\ Len(versions') = Len(versions)
          /\ DOMAIN versions' = DOMAIN versions /\ versions'[v] = e
          /\ \A u \in DOMAIN versions : u # v => versions'[u] = versions[u]
      BY <1>1, <3>2, <3>3, Replaced
    <3> QED BY <2>2, <3>4, <3>5
  <2> QED BY <2>1, <2>2
<1> HIDE DEF v, n
<1>4. TypeOK'
  BY <1>1, <1>3 DEF TypeOK, Version
<1>5. LockInv'
  BY <1>1 DEF LockInv, TypeOK, Holding, v
<1>6. /\ current_ \in DOMAIN versions /\ current_ \in Nat \ {0} /\ DOMAIN versions = 1 .. Len(versions)
      /\ Len(versions) \in Nat
  BY <1>1, Types
<1>7. ShapeInv'
  <2>1. \A u \in 1 .. current_ - 1 : freed(u)'
    BY <1>1, <1>3, <1>6 DEF IInv, ShapeInv, freed
  <2>2. cpc \in {"unref", "install"} => versions'[current_ + 1] = versions[current_ + 1]
    BY <1>1, <1>3, <1>6 DEF IInv, ShapeInv
  <2> QED BY <1>1, <1>3, <1>6, <2>1, <2>2 DEF IInv, ShapeInv, NewVersion, full
<1>8. CountInv'
  <2>1. Appending' = Appending
    BY <1>1 DEF Appending, TypeOK
  <2> QED BY <1>1, <1>3, <1>6, <2>1 DEF IInv, CountInv, freed, WakeUps
<1>9. RefsMatch'
  <2>1. \A f : {u \in DOMAIN versions' : ~freed(u)' /\ InFiles(f, versions'[u])}
                = {u \in DOMAIN versions : ~freed(u) /\ InFiles(f, versions[u])}
    BY <1>3 DEF freed, InFiles
  <2> QED BY <1>1, <2>1 DEF IInv, RefsMatch, freed, InFiles
<1>10. MergeInv'
  <2> SUFFICES ASSUME NEW d \in Writers,
                      (cpc = "merge" /\ d < cidx) \/ cpc \in {"apply", "unref"}
               PROVE  MergedOf(d)'
    BY <1>1 DEF MergeInv
  <2>1. MergedOf(d) /\ full(current_)
    BY DEF IInv, MergeInv, ShapeInv
  <2>2. CASE ~ (d = w /\ ~freed(v))
    <3>1. versions'[current_].list_[d] = versions[current_].list_[d] /\ late \subseteq late'
      BY <1>1, <1>3, <1>6, <2>2
    <3> QED BY <1>1, <2>1, <3>1 DEF MergedOf
  <2>3. CASE d = w /\ ~freed(v)
    <3> DEFINE l == versions[current_].list_[d]
    <3>1. /\ versions'[current_].list_[d] = Append(l, n)
          /\ late \subseteq late' /\ <<d, n>> \in late'
      BY <1>1, <1>2, <1>3, <1>6, <2>1, <2>3
    <3>2. l \in Seq(Ranks) /\ merged[d] \in Seq(Ranks)
      BY <1>1, <1>6, Types DEF TypeOK
    <3> HIDE DEF l
    <3>3. /\ Len(Append(l, n)) = Len(l) + 1 /\ Append(l, n)[Len(l) + 1] = n
          /\ \A p \in 1 .. Len(l) : Append(l, n)[p] = l[p]
          /\ Len(l) \in Nat /\ Len(merged[d]) \in Nat
      BY <1>1, <3>2, AppendProperties, LenProperties
    <3>4. /\ Len(merged[d]) <= Len(l)
          /\ \A p \in 1 .. Len(merged[d]) : merged[d][p] = l[p]
          /\ \A p \in Len(merged[d]) + 1 .. Len(l) : <<d, l[p]>> \in late
      BY <2>1 DEF MergedOf, l
    <3>5. /\ Len(merged[d]) <= Len(Append(l, n))
          /\ \A p \in 1 .. Len(merged[d]) : merged[d][p] = Append(l, n)[p]
          /\ \A p \in Len(merged[d]) + 1 .. Len(Append(l, n)) : <<d, Append(l, n)[p]>> \in late'
      BY <3>1, <3>3, <3>4
    <3> QED BY <1>1, <3>1, <3>5 DEF MergedOf
  <2> QED BY <2>2, <2>3
<1>11. HistoryInv'
  <2> SUFFICES ASSUME NEW d \in Writers PROVE Recorded(Shown(d), Handed(d), Excused(d))'
    BY DEF HistoryInv
  <2>1. Recorded(Shown(d), Handed(d), Excused(d))
    BY DEF IInv, HistoryInv
  <2>2. visible' = visible /\ visible \in DOMAIN versions /\ (~freed(v) => visible = current_)
    BY <1>1, <1>2, <1>3, <1>6 DEF visible, freed
  <2>3. OnDisk(visible, d)' = OnDisk(visible, d)
    BY <1>1, <1>3, <2>2 DEF OnDisk
  <2>4. Excused(d) \subseteq Excused(d)'
    BY <1>1 DEF Excused, Unsaved, Failed
  <2>5. CASE d # w
    <3>1. Shown(d)' = Shown(d)
      BY <1>3, <2>2, <2>3, <2>5 DEF Shown, Path
    <3>2. Handed(d)' = Handed(d)
      BY <1>1, <2>5 DEF Handed, TypeOK
    <3> QED BY <2>1, <2>4, <3>1, <3>2 DEF Recorded
  <2>6. CASE d = w
    <3>1. Handed(w) = n - 1 /\ Handed(w)' = n
      BY <1>1 DEF Handed, TypeOK, n
    <3>2. CASE freed(v)
      <4>1. Shown(d)' = Shown(d)
        BY <1>3, <2>2, <2>3, <3>2 DEF Shown, Path
      <4>2. Excused(d) \cup {n} \subseteq Excused(d)'
        BY <1>1, <2>4, <2>6, <3>2 DEF Excused
      <4>3. Recorded(Shown(d), n, Excused(d)')
        BY <1>1, <2>1, <2>6, <3>1, <4>2, RecordLost
      <4> QED BY <2>6, <3>1, <4>1, <4>3 DEF Recorded
    <3>3. CASE ~freed(v)
      <4> DEFINE k == OnDisk(visible, d)
                 l == versions[visible].list_[d]
      <4>1. k \in Seq(Seq(Ranks)) /\ l \in Seq(Ranks)
        BY <1>1, <1>6, <2>2, OnDiskType, Types
      <4>2. Shown(d) = Append(k, l)
        BY DEF Shown, Path
      <4>3. Shown(d)' = Append(k, Append(l, n))
        BY <1>2, <1>3, <2>2, <2>3, <2>6, <3>3 DEF Shown, Path
      <4> HIDE DEF k, l
      <4>4. Recorded(Append(k, Append(l, n)), n, Excused(d)')
        BY <1>1, <2>1, <2>4, <2>6, <3>1, <4>1, <4>2, RecordKept
      <4> QED BY <2>6, <3>1, <4>3, <4>4 DEF Recorded
    <3> QED BY <3>2, <3>3
  <2> QED BY <2>5, <2>6
<1> QED BY <1>4, <1>5, <1>7, <1>8, <1>9, <1>10, <1>11 DEF IInv

LEMMA BuildTableStep == ASSUME IInv, BuildTable PROVE IInv'
<1> DEFINE m == Len(tables)
<1>1. /\ TypeOK /\ cpc = "merge" /\ cpc' = "apply" /\ cidx = kMaxWriter + 1 /\ m \in Nat
      /\ DOMAIN tables = 1 .. m
      /\ UNCHANGED <<versions, current_, mutex_, cond_, pc, ptr, filled, cidx, merged, stopFLAG,
                     spurious, late>>
  <2>1. cidx \in 1 .. kMaxWriter + 1 /\ cidx \notin 1 .. kMaxWriter /\ kMaxWriter \in Nat
    BY VersionSetAssumption DEF IInv, TypeOK, BuildTable, Writers
  <2> QED BY <2>1, Types DEF BuildTable, lockVars, writerVars, ghostVars, IInv
<1>2. PICK whole \in BOOLEAN : tables' = Append(tables, [lists |-> merged, whole |-> whole])
  BY DEF BuildTable
<1> DEFINE e == [lists |-> merged, whole |-> whole]
<1>3. /\ tables' \in Seq([lists : [Writers -> Seq(Ranks)], whole : BOOLEAN])
      /\ Len(tables') = m + 1 /\ DOMAIN tables' = 1 .. m + 1
      /\ \A f \in 1 .. m : tables'[f] = tables[f]
      /\ tables'[m + 1] = e
  <2>1. e \in [lists : [Writers -> Seq(Ranks)], whole : BOOLEAN]
    BY <1>1 DEF TypeOK
  <2> HIDE DEF e
  <2> QED BY <1>1, <1>2, <2>1, AppendFacts DEF TypeOK, e
<1>4. /\ fileRefs' \in [1 .. m + 1 -> Nat] /\ \A f \in 1 .. m : fileRefs'[f] = fileRefs[f]
      /\ fileRefs'[m + 1] = 0
  <2>1. fileRefs \in [1 .. m -> Nat] /\ fileRefs' = Append(fileRefs, 0) /\ 0 \in Nat
    BY <1>1 DEF BuildTable, TypeOK
  <2>2. m \in Nat
    BY <1>1
  <2> HIDE DEF m
  <2>3. /\ Append(fileRefs, 0) \in [1 .. m + 1 -> Nat]
        /\ \A f \in 1 .. m : Append(fileRefs, 0)[f] = fileRefs[f]
        /\ Append(fileRefs, 0)[m + 1] = 0
    <3> DEFINE g == fileRefs
    <3>1. g \in [1 .. m -> Nat] /\ 0 \in Nat
      BY <2>1
    <3> HIDE DEF g
    <3>2. /\ Append(g, 0) \in [1 .. m + 1 -> Nat]
          /\ \A f \in 1 .. m : Append(g, 0)[f] = g[f]
          /\ Append(g, 0)[m + 1] = 0
      BY <2>2, <3>1, AppendToFunction
    <3> QED BY <3>2 DEF g
  <2> QED BY <2>1, <2>3
<1> HIDE DEF m, e
<1>5. 1 .. m \subseteq 1 .. m + 1
  BY <1>1
<1>6. TypeOK'
  <2>1. versions \in Seq(Version')
    <3>1. Version \subseteq Version'
      <4> SUFFICES ASSUME NEW v \in Version PROVE v \in Version'
        OBVIOUS
      <4>1. v.files_ \in Seq(1 .. m)
        BY <1>1 DEF Version
      <4>2. v.files_ \in Seq(1 .. m + 1)
        BY <1>5, <4>1, SeqMonotonic
      <4> QED BY <1>3, <4>2 DEF Version
    <3>2. versions \in Seq(Version)
      BY <1>1 DEF TypeOK
    <3> HIDE DEF Version
    <3> QED BY <3>1, <3>2, SeqMonotonic
  <2> QED BY <1>1, <1>3, <1>4, <2>1 DEF TypeOK
<1>7. LockInv' /\ CountInv'
  BY <1>1 DEF IInv, LockInv, CountInv, Appending, freed, WakeUps
<1>8. ShapeInv'
  <2>1. Len(tables') > 0 /\ tables'[Len(tables')].lists = merged
    BY <1>1, <1>3 DEF e
  <2> QED BY <1>1, <2>1 DEF IInv, ShapeInv, freed, full
<1>9. MergeInv'
  <2>1. \A w \in Writers : w < cidx
    BY <1>1, VersionSetAssumption DEF Writers
  <2> QED BY <1>1, <2>1 DEF IInv, MergeInv, MergedOf
<1>10. \A v \in DOMAIN versions : \A i \in DOMAIN versions[v].files_ : versions[v].files_[i] \in 1 .. m
  <2>1. \A v \in DOMAIN versions : versions[v].files_ \in Seq(1 .. m)
    BY <1>1, Types
  <2> QED BY <2>1, SeqFacts
<1>11. RefsMatch'
  <2> SUFFICES ASSUME NEW f \in 1 .. m + 1
               PROVE  fileRefs'[f] = Cardinality({v \in DOMAIN versions : ~freed(v) /\ InFiles(f, versions[v])})
    BY <1>1, <1>4 DEF RefsMatch, freed, InFiles
  <2>1. CASE f \in 1 .. m
    <3>1. fileRefs \in [1 .. m -> Nat]
      BY <1>1 DEF TypeOK
    <3> QED BY <1>4, <2>1, <3>1 DEF IInv, RefsMatch
  <2>2. CASE f = m + 1
    <3>1. \A v \in DOMAIN versions : ~ InFiles(f, versions[v])
      BY <1>1, <1>10, <2>2 DEF InFiles
    <3>2. {v \in DOMAIN versions : ~freed(v) /\ InFiles(f, versions[v])} = {}
      BY <3>1
    <3> QED BY <1>4, <2>2, <3>2, FS_EmptySet
  <2> QED BY <1>1, <2>1, <2>2
<1>12. HistoryInv'
  <2> SUFFICES ASSUME NEW w \in Writers PROVE Recorded(Shown(w), Handed(w), Excused(w))'
    BY DEF HistoryInv
  <2>1. Recorded(Shown(w), Handed(w), Excused(w))
    BY DEF IInv, HistoryInv
  <2>2. visible' = visible /\ visible \in DOMAIN versions
    BY <1>1, Types DEF visible, freed
  <2>3. OnDisk(visible, w)' = OnDisk(visible, w)
    BY <1>1, <1>3, <1>10, <2>2 DEF OnDisk
  <2>4. Shown(w)' = Shown(w)
    BY <1>1, <2>2, <2>3 DEF Shown, Path
  <2>5. Handed(w)' = Handed(w)
    BY <1>1 DEF Handed
  <2>6. Unsaved(w) \subseteq Unsaved(w)'
    <3>1. \A f \in Failed : f \in Failed' /\ tables'[f] = tables[f]
      BY <1>1, <1>3, <1>5 DEF Failed
    <3> QED BY <3>1 DEF Unsaved
  <2>7. Excused(w) \subseteq Excused(w)'
    BY <1>1, <2>6 DEF Excused
  <2> QED BY <2>1, <2>4, <2>5, <2>7 DEF Recorded
<1> QED BY <1>6, <1>7, <1>8, <1>9, <1>11, <1>12, AllParts

(* How the versions that hold a file are counted.                          *)
Holders(f) == {v \in DOMAIN versions : ~freed(v) /\ InFiles(f, versions[v])}

LEMMA HoldersFinite ==
  ASSUME TypeOK, NEW f
  PROVE  IsFiniteSet(Holders(f)) /\ Cardinality(Holders(f)) \in Nat
<1>1. Len(versions) \in Nat /\ DOMAIN versions = 1 .. Len(versions)
  BY Numbers
<1>2. Holders(f) \subseteq 1 .. Len(versions)
  BY <1>1 DEF Holders
<1>3. IsFiniteSet(1 .. Len(versions))
  BY <1>1, FS_Interval
<1> QED BY <1>2, <1>3, FS_Subset, FS_CardinalityType

LEMMA applyStep == ASSUME IInv, apply PROVE IInv'
<1> DEFINE n == Len(versions)
           m == Len(tables)
           e == NewVersion(Append(versions[current_].files_, m))
<1>1. /\ TypeOK /\ cpc = "apply" /\ cpc' = "unref" /\ n = current_ /\ n \in Nat \ {0}
      /\ DOMAIN versions = 1 .. n /\ m \in Nat \ {0} /\ DOMAIN tables = 1 .. m
      /\ versions' = Append(versions, e) /\ ~freed(current_)
      /\ fileRefs' = [f \in DOMAIN fileRefs |->
                        IF InFiles(f, e) THEN fileRefs[f] + 1 ELSE fileRefs[f]]
      /\ UNCHANGED <<current_, tables, mutex_, cond_, pc, ptr, filled, cidx, merged, stopFLAG,
                     spurious, late>>
  <2>1. TypeOK /\ ShapeInv /\ cpc = "apply"
    BY DEF IInv, apply
  <2>2. n = current_ /\ m > 0 /\ ~freed(current_)
    BY <2>1 DEF ShapeInv, freed
  <2> QED BY <2>1, <2>2, Types DEF apply, lockVars, writerVars, ghostVars
<1>2. /\ e = [list_ |-> NoLists, list_count_ |-> 0,
              files_ |-> Append(versions[current_].files_, m), state |-> "new"]
      /\ Append(versions[current_].files_, m) \in Seq(DOMAIN tables)
      /\ NoLists \in [Writers -> Seq(Ranks)]
  <2>1. versions[current_].files_ \in Seq(DOMAIN tables) /\ m \in DOMAIN tables
    BY <1>1, Types
  <2> QED BY <2>1, AppendProperties DEF NewVersion, NoLists
<1>3. /\ e \in Version /\ e.state = "new" /\ e.list_count_ = 0
  <2> HIDE DEF e, m
  <2> QED BY <1>2 DEF Version
<1> HIDE DEF e
<1>4. /\ versions' \in Seq(Version) /\ Len(versions') = n + 1 /\ DOMAIN versions' = 1 .. n + 1
      /\ \A v \in 1 .. n : versions'[v] = versions[v]
      /\ versions'[n + 1] = e
  BY <1>1, <1>3, AppendFacts DEF TypeOK
<1> HIDE DEF n, m
<1>5. TypeOK'
  <2>1. fileRefs \in [DOMAIN tables -> Nat]
    BY <1>1 DEF TypeOK
  <2>2. fileRefs' \in [DOMAIN tables -> Nat]
    BY <1>1, <2>1
  <2>3. current_ \in DOMAIN versions' /\ DOMAIN versions \subseteq DOMAIN versions'
    BY <1>1, <1>4
  <2> QED BY <1>1, <1>4, <2>2, <2>3 DEF TypeOK, Version
<1>6. LockInv'
  BY <1>1 DEF IInv, LockInv
<1>7. ShapeInv'
  <2>1. \A v \in 1 .. current_ : versions'[v] = versions[v]
    BY <1>1, <1>4
  <2>2. \A v \in 1 .. current_ - 1 : freed(v)'
    BY <1>1, <2>1 DEF IInv, ShapeInv, freed
  <2>3. versions'[current_] = versions[current_]
    BY <1>1, <2>1
  <2>4. versions'[current_ + 1] = NewVersion(Append(versions'[current_].files_, Len(tables)))
    BY <1>1, <1>4, <2>3 DEF e, m
  <2> QED BY <1>1, <1>4, <2>2, <2>3, <2>4 DEF IInv, ShapeInv, full
<1>8. CountInv'
  <2>1. 0 <= kMaxFrozenList + 2 * kMaxWriter - 1 + spurious
    <3>1. /\ kMaxWriter \in Nat \ {0} /\ kMaxFrozenList \in Nat \ {0} /\ spurious \in Nat
      BY <1>1, Numbers
    <3> QED BY <3>1
  <2>2. \A v \in 1 .. n + 1 : v = n + 1 \/ v \in 1 .. n
    BY <1>1
  <2>3. \A v \in 1 .. Len(versions') :
          versions'[v].list_count_ <= kMaxFrozenList + 2 * kMaxWriter - 1 + spurious
    BY <1>3, <1>4, <2>1, <2>2 DEF IInv, CountInv, n
  <2>4. versions'[current_] = versions[current_]
    BY <1>1, <1>4
  <2> QED BY <1>1, <2>3, <2>4 DEF IInv, CountInv, Appending, freed, WakeUps
<1>9. RefsMatch'
  <2> SUFFICES ASSUME NEW f \in DOMAIN fileRefs PROVE fileRefs'[f] = Cardinality(Holders(f)')
    BY <1>1 DEF RefsMatch, Holders, freed, InFiles
  <2>1. fileRefs[f] = Cardinality(Holders(f)) /\ IsFiniteSet(Holders(f))
    BY <1>1, HoldersFinite DEF IInv, RefsMatch, Holders
  <2>2. n + 1 \notin Holders(f)
    BY <1>1 DEF Holders
  <2>3. Holders(f)' = IF InFiles(f, e) THEN Holders(f) \cup {n + 1} ELSE Holders(f)
    <3>1. \A v \in 1 .. n + 1 : v = n + 1 \/ v \in 1 .. n
      BY <1>1
    <3>2. Holders(f)' = {v \in 1 .. n + 1 : versions'[v].state # "freed" /\ InFiles(f, versions'[v])}
      BY <1>4 DEF Holders, freed, InFiles
    <3>3. Holders(f) = {v \in 1 .. n : versions[v].state # "freed" /\ InFiles(f, versions[v])}
      BY <1>1 DEF Holders, freed
    <3>4. 1 .. n \subseteq 1 .. n + 1 /\ n + 1 \in 1 .. n + 1
      BY <1>1
    <3> QED BY <1>3, <1>4, <3>1, <3>2, <3>3, <3>4
  <2>4. fileRefs'[f] = IF InFiles(f, e) THEN fileRefs[f] + 1 ELSE fileRefs[f]
    BY <1>1
  <2>5. Cardinality(Holders(f) \cup {n + 1}) = Cardinality(Holders(f)) + 1
    BY <2>1, <2>2, FS_AddElement
  <2> QED BY <2>1, <2>3, <2>4, <2>5
<1>10. MergeInv'
  <2>1. versions'[current_] = versions[current_]
    BY <1>1, <1>4
  <2> QED BY <1>1, <2>1 DEF IInv, MergeInv, MergedOf
<1>11. HistoryInv'
  <2> SUFFICES ASSUME NEW w \in Writers PROVE Recorded(Shown(w), Handed(w), Excused(w))'
    BY DEF HistoryInv
  <2>1. Recorded(Shown(w), Handed(w), Excused(w))
    BY DEF IInv, HistoryInv
  <2>2. visible = current_ /\ visible' = current_ /\ versions'[current_] = versions[current_]
    BY <1>1, <1>4 DEF visible, freed
  <2>3. Shown(w)' = Shown(w)
    BY <1>1, <2>2 DEF Shown, Path, OnDisk
  <2>4. Handed(w)' = Handed(w) /\ Excused(w)' = Excused(w)
    BY <1>1 DEF Handed, Excused, Unsaved, Failed
  <2> QED BY <2>1, <2>3, <2>4 DEF Recorded
<1> QED BY <1>5, <1>6, <1>7, <1>8, <1>9, <1>10, <1>11, AllParts

(* What Unref leaves and changes.                                          *)
LEMMA UnrefFacts ==
  ASSUME IInv, Unref
  PROVE  /\ TypeOK /\ cpc = "unref" /\ cpc' = "install" /\ Len(versions) = current_ + 1
         /\ Len(versions) \in Nat \ {0} /\ current_ \in Nat \ {0} /\ current_ # Len(versions)
         /\ current_ \in DOMAIN versions /\ Len(versions) \in DOMAIN versions
         /\ DOMAIN versions = 1 .. Len(versions)
         /\ Len(tables) \in Nat \ {0} /\ DOMAIN tables = 1 .. Len(tables)
         /\ ~freed(current_) /\ freed(current_)'
         /\ versions[Len(versions)] =
              NewVersion(Append(versions[current_].files_, Len(tables)))
         /\ tables[Len(tables)].lists = merged
         /\ fileRefs' = [f \in DOMAIN fileRefs |->
                           IF InFiles(f, versions[current_]) THEN fileRefs[f] - 1 ELSE fileRefs[f]]
         /\ UNCHANGED <<current_, tables, mutex_, cond_, pc, ptr, filled, cidx, merged, stopFLAG,
                        spurious, late>>
         /\ versions' \in Seq(Version) /\ Len(versions') = Len(versions)
         /\ DOMAIN versions' = DOMAIN versions
         /\ \A v \in 1 .. Len(versions) :
              /\ versions'[v].list_count_ = versions[v].list_count_
              /\ versions'[v].files_ = versions[v].files_
              /\ versions'[v].list_ = versions[v].list_
              /\ v # current_ => versions'[v] = versions[v]
<1> DEFINE n == Len(versions)
           m == Len(tables)
           e == [versions[current_] EXCEPT !.state = "freed"]
<1>1. /\ TypeOK /\ cpc = "unref" /\ cpc' = "install" /\ n = current_ + 1 /\ n \in Nat \ {0}
      /\ current_ \in Nat \ {0} /\ current_ \in DOMAIN versions /\ n \in DOMAIN versions
      /\ DOMAIN versions = 1 .. n /\ m \in Nat \ {0} /\ DOMAIN tables = 1 .. m
      /\ versions' = [versions EXCEPT ![current_] = e] /\ ~freed(current_)
      /\ versions[n] = NewVersion(Append(versions[current_].files_, m))
      /\ tables[m].lists = merged
      /\ fileRefs' = [f \in DOMAIN fileRefs |->
                        IF InFiles(f, versions[current_]) THEN fileRefs[f] - 1 ELSE fileRefs[f]]
      /\ UNCHANGED <<current_, tables, mutex_, cond_, pc, ptr, filled, cidx, merged, stopFLAG,
                     spurious, late>>
  <2>1. TypeOK /\ ShapeInv /\ cpc = "unref"
    BY DEF IInv, Unref
  <2>2. /\ n = current_ + 1 /\ m > 0 /\ ~freed(current_) /\ tables[m].lists = merged
        /\ versions[current_ + 1] = NewVersion(Append(versions[current_].files_, m))
    BY <2>1 DEF ShapeInv, freed
  <2>3. UNCHANGED <<current_, tables, mutex_, cond_, pc, ptr, filled, cidx, merged, stopFLAG,
                    spurious, late>>
    BY DEF Unref, lockVars, writerVars, ghostVars
  <2>4. /\ n \in Nat \ {0} /\ current_ \in Nat \ {0} /\ current_ \in DOMAIN versions
        /\ DOMAIN versions = 1 .. n /\ m \in Nat \ {0} /\ DOMAIN tables = 1 .. m
    BY <2>1, <2>2, Types
  <2>5. n \in DOMAIN versions
    BY <2>4
  <2> QED BY <2>1, <2>2, <2>3, <2>4, <2>5 DEF Unref
<1>2. /\ e \in Version /\ e.state = "freed" /\ e.files_ = versions[current_].files_
      /\ e.list_count_ = versions[current_].list_count_ /\ e.list_ = versions[current_].list_
  <2>1. versions[current_] \in Version
    BY <1>1, Types
  <2> QED BY <2>1 DEF Version
<1> HIDE DEF e
<1>3. /\ versions' \in Seq(Version) /\ Len(versions') = n /\ DOMAIN versions' = 1 .. n
      /\ versions'[current_] = e
      /\ \A v \in 1 .. n : v # current_ => versions'[v] = versions[v]
  BY <1>1, <1>2, Replaced
<1> HIDE DEF n, m
<1>4. /\ \A v \in 1 .. n : /\ versions'[v].list_count_ = versions[v].list_count_
                          /\ versions'[v].files_ = versions[v].files_
                          /\ versions'[v].list_ = versions[v].list_
      /\ versions'[n] = versions[n] /\ freed(current_)' /\ n # current_
  BY <1>1, <1>2, <1>3 DEF freed
<1> QED BY <1>1, <1>2, <1>3, <1>4 DEF n, m

(* The table that was built is the last one of the version made last.      *)
LEMMA UnrefShown ==
  ASSUME IInv, Unref, NEW w \in Writers
  PROVE  /\ visible = current_ /\ visible' = Len(versions)
         /\ OnDisk(visible, w)' =
              Append(OnDisk(current_, w), IF tables[Len(tables)].whole THEN merged[w] ELSE <<>>)
         /\ versions'[visible'].list_[w] = <<>>
         /\ OnDisk(current_, w) \in Seq(Seq(Ranks)) /\ versions[current_].list_[w] \in Seq(Ranks)
         /\ merged[w] \in Seq(Ranks)
<1> DEFINE n == Len(versions)
           m == Len(tables)
           d == OnDisk(current_, w)
           l == versions[current_].list_[w]
           k == IF tables[m].whole THEN merged[w] ELSE <<>>
<1>1. visible = current_ /\ visible' = n /\ n # current_
  BY UnrefFacts DEF visible
<1>2. versions'[n].list_[w] = <<>>
  BY UnrefFacts DEF NewVersion, NoLists
<1>3. d \in Seq(Seq(Ranks)) /\ l \in Seq(Ranks)
  BY UnrefFacts, OnDiskType, Types
<1>4. merged[w] \in Seq(Ranks) /\ k \in Seq(Ranks)
  <2>1. merged[w] \in Seq(Ranks) /\ <<>> \in Seq(Ranks)
    BY UnrefFacts DEF TypeOK
  <2> QED BY <2>1
<1> DEFINE fs == versions[current_].files_
           g == [i \in DOMAIN versions'[n].files_ |->
                   LET table == tables[versions'[n].files_[i]]
                   IN IF table.whole THEN table.lists[w] ELSE <<>>]
<1>5. OnDisk(visible, w)' = g
  BY UnrefFacts, <1>1 DEF OnDisk
<1>6. versions'[n].files_ = Append(fs, m)
  BY UnrefFacts DEF NewVersion
<1>7. /\ DOMAIN Append(fs, m) = 1 .. Len(fs) + 1 /\ Len(fs) \in Nat
      /\ DOMAIN fs = 1 .. Len(fs)
      /\ \A i \in 1 .. Len(fs) : Append(fs, m)[i] = fs[i]
      /\ Append(fs, m)[Len(fs) + 1] = m
  <2>1. fs \in Seq(DOMAIN tables) /\ m \in DOMAIN tables
    BY UnrefFacts, Types
  <2> HIDE DEF fs
  <2> QED BY <2>1, AppendFacts
<1>8. g = [i \in 1 .. Len(fs) + 1 |-> IF i = Len(fs) + 1 THEN k ELSE d[i]]
  <2>1. \A i \in 1 .. Len(fs) + 1 : i = Len(fs) + 1 \/ i \in 1 .. Len(fs)
    BY <1>7
  <2>2. \A i \in 1 .. Len(fs) :
          d[i] = LET table == tables[fs[i]] IN IF table.whole THEN table.lists[w] ELSE <<>>
    BY <1>7 DEF OnDisk
  <2>3. DOMAIN versions'[n].files_ = 1 .. Len(fs) + 1
    BY <1>6, <1>7
  <2>4. ASSUME NEW i \in 1 .. Len(fs) + 1
        PROVE  (LET table == tables[versions'[n].files_[i]]
                IN IF table.whole THEN table.lists[w] ELSE <<>>)
               = IF i = Len(fs) + 1 THEN k ELSE d[i]
    <3>1. CASE i = Len(fs) + 1
      BY UnrefFacts, <1>6, <1>7, <3>1
    <3>2. CASE i \in 1 .. Len(fs)
      <4>1. i # Len(fs) + 1
        BY <1>7, <3>2
      <4> HIDE DEF d
      <4> QED BY <1>6, <1>7, <2>2, <3>2, <4>1
    <3> QED BY <2>1, <3>1, <3>2
  <2> HIDE DEF d, k, fs
  <2> QED BY <2>3, <2>4
<1>9. Len(d) = Len(fs)
  BY UnrefFacts, OnDiskType
<1> HIDE DEF g, fs, d, k, l
<1>10. /\ Append(d, k) \in Seq(Seq(Ranks)) /\ Len(Append(d, k)) = Len(d) + 1
       /\ Append(d, k)[Len(d) + 1] = k
       /\ \A i \in 1 .. Len(d) : Append(d, k)[i] = d[i]
       /\ \A i \in 1 .. Len(d) : d[i] \in Seq(Ranks)
  BY <1>3, <1>4, LastSegment
<1>11. g \in [1 .. Len(fs) + 1 -> Seq(Ranks)]
  BY <1>3, <1>4, <1>7, <1>8, <1>9, <1>10
<1>12. g \in Seq(Seq(Ranks)) /\ Len(g) = Len(fs) + 1
  <2>1. g \in Seq(Seq(Ranks))
    BY <1>7, <1>11
  <2>2. DOMAIN g = 1 .. Len(fs) + 1
    BY <1>11
  <2> QED BY <1>7, <2>1, <2>2
<1>13. \A i \in 1 .. Len(fs) + 1 : g[i] = Append(d, k)[i]
  <2>1. \A i \in 1 .. Len(fs) + 1 : i = Len(fs) + 1 \/ i \in 1 .. Len(fs)
    BY <1>7
  <2> QED BY <1>7, <1>8, <1>9, <1>10, <2>1
<1>14. g = Append(d, k)
  BY <1>9, <1>10, <1>12, <1>13, SeqEqual
<1> QED BY <1>1, <1>2, <1>3, <1>4, <1>5, <1>14 DEF d, k, l

LEMMA UnrefStep == ASSUME IInv, Unref PROVE IInv'
<1> DEFINE n == Len(versions)
           m == Len(tables)
<1>1. /\ TypeOK /\ cpc = "unref" /\ cpc' = "install" /\ n = current_ + 1 /\ n \in Nat \ {0}
      /\ current_ \in Nat \ {0} /\ current_ \in DOMAIN versions /\ n \in DOMAIN versions
      /\ DOMAIN versions = 1 .. n /\ m \in Nat \ {0} /\ DOMAIN tables = 1 .. m
      /\ ~freed(current_) /\ freed(current_)'
      /\ versions[n] = NewVersion(Append(versions[current_].files_, m))
      /\ tables[m].lists = merged
      /\ fileRefs' = [f \in DOMAIN fileRefs |->
                        IF InFiles(f, versions[current_]) THEN fileRefs[f] - 1 ELSE fileRefs[f]]
      /\ UNCHANGED <<current_, tables, mutex_, cond_, pc, ptr, filled, cidx, merged, stopFLAG,
                     spurious, late>>
  BY UnrefFacts
<1>2. /\ versions' \in Seq(Version) /\ Len(versions') = n /\ DOMAIN versions' = 1 .. n
      /\ \A v \in 1 .. n : v # current_ => versions'[v] = versions[v]
      /\ \A v \in 1 .. n : /\ versions'[v].list_count_ = versions[v].list_count_
                           /\ versions'[v].files_ = versions[v].files_
                           /\ versions'[v].list_ = versions[v].list_
      /\ n # current_
  BY UnrefFacts
<1> HIDE DEF n, m
<1>3. versions'[n] = versions[n] /\ versions'[current_].state = "freed"
  BY <1>1, <1>2 DEF freed
<1>5. \A f \in DOMAIN fileRefs : fileRefs'[f] = Cardinality(Holders(f)')
  <2> SUFFICES ASSUME NEW f \in DOMAIN fileRefs PROVE fileRefs'[f] = Cardinality(Holders(f)')
    OBVIOUS
  <2>1. fileRefs[f] = Cardinality(Holders(f)) /\ IsFiniteSet(Holders(f))
    BY <1>1, HoldersFinite DEF IInv, RefsMatch, Holders
  <2>2. fileRefs'[f] = IF InFiles(f, versions[current_]) THEN fileRefs[f] - 1 ELSE fileRefs[f]
    BY <1>1
  <2>3. Holders(f)' = Holders(f) \ {current_}
    <3>1. Holders(f)' = {v \in 1 .. n : versions'[v].state # "freed" /\ InFiles(f, versions'[v])}
      BY <1>2, <1>3 DEF Holders, freed, InFiles
    <3>2. Holders(f) = {v \in 1 .. n : versions[v].state # "freed" /\ InFiles(f, versions[v])}
      BY <1>1 DEF Holders, freed
    <3> QED BY <1>2, <1>3, <3>1, <3>2
  <2>4. current_ \in Holders(f) <=> InFiles(f, versions[current_])
    BY <1>1 DEF Holders
  <2>5. CASE InFiles(f, versions[current_])
    <3>1. Cardinality(Holders(f) \ {current_}) = Cardinality(Holders(f)) - 1
      BY <2>1, <2>4, <2>5, FS_RemoveElement
    <3> QED BY <2>1, <2>2, <2>3, <2>5, <3>1
  <2>6. CASE ~ InFiles(f, versions[current_])
    <3>1. Holders(f) \ {current_} = Holders(f)
      BY <2>4, <2>6
    <3> QED BY <2>1, <2>2, <2>3, <2>6, <3>1
  <2> QED BY <2>5, <2>6
<1>6. TypeOK'
  <2>1. fileRefs' \in [DOMAIN tables -> Nat]
    <3>1. DOMAIN fileRefs = DOMAIN tables /\ DOMAIN fileRefs' = DOMAIN tables
      BY <1>1 DEF TypeOK
    <3>2. \A f : Holders(f)' \in SUBSET (1 .. n)
      BY <1>2, <1>3 DEF Holders
    <3>3. \A f \in DOMAIN tables : fileRefs'[f] \in Nat
      <4> SUFFICES ASSUME NEW f \in DOMAIN tables PROVE fileRefs'[f] \in Nat
        OBVIOUS
      <4>1. IsFiniteSet(1 .. n)
        BY <1>1, FS_Interval
      <4>2. IsFiniteSet(Holders(f)')
        BY <3>2, <4>1, FS_Subset
      <4> QED BY <1>5, <3>1, <4>2, FS_CardinalityType
    <3>4. fileRefs' = [f \in DOMAIN fileRefs' |-> fileRefs'[f]]
      BY <1>1
    <3> QED BY <3>1, <3>3, <3>4
  <2> QED BY <1>1, <1>2, <1>3, <2>1 DEF TypeOK, Version
<1>7. LockInv'
  BY <1>1 DEF IInv, LockInv
<1>8. ShapeInv'
  <2>1. \A v \in 1 .. current_ - 1 : freed(v)'
    <3>1. \A v \in 1 .. current_ - 1 : freed(v) /\ v \in 1 .. n /\ v # current_
      BY <1>1 DEF IInv, ShapeInv
    <3> QED BY <1>2, <1>3, <3>1 DEF freed
  <2>2. versions'[current_ + 1] = NewVersion(Append(versions'[current_].files_, Len(tables)))
    BY <1>1, <1>2, <1>3 DEF m
  <2> QED BY <1>1, <1>2, <1>3, <2>1, <2>2 DEF IInv, ShapeInv, full
<1>9. CountInv'
  <2>1. \A v \in 1 .. n :
          versions'[v].list_count_ <= kMaxFrozenList + 2 * kMaxWriter - 1 + spurious
    BY <1>2, <1>3 DEF IInv, CountInv, n
  <2> QED BY <1>1, <1>2, <1>3, <2>1 DEF CountInv
<1>10. RefsMatch'
  <2> SUFFICES ASSUME NEW f \in DOMAIN fileRefs PROVE fileRefs'[f] = Cardinality(Holders(f)')
    BY <1>1 DEF RefsMatch, Holders, freed, InFiles
  <2> QED BY <1>5
<1>11. MergeInv'
  BY <1>1 DEF MergeInv
<1>12. HistoryInv'
  <2> SUFFICES ASSUME NEW w \in Writers PROVE Recorded(Shown(w), Handed(w), Excused(w))'
    BY DEF HistoryInv
  <2>1. Recorded(Shown(w), Handed(w), Excused(w))
    BY DEF IInv, HistoryInv
  <2> DEFINE d == OnDisk(current_, w)
             l == versions[current_].list_[w]
             k == IF tables[m].whole THEN merged[w] ELSE <<>>
  <2>2. Shown(w) = Append(d, l)
    BY <1>1 DEF Shown, Path, visible
  <2>3. d \in Seq(Seq(Ranks)) /\ l \in Seq(Ranks) /\ k \in Seq(Ranks)
    <3>1. merged[w] \in Seq(Ranks) /\ <<>> \in Seq(Ranks)
      BY <1>1 DEF TypeOK
    <3> QED BY <3>1, UnrefShown
  <2>4. Shown(w)' = Append(Append(d, k), <<>>)
    BY UnrefShown DEF Shown, Path, m
  <2>5. MergedOf(w)
    BY <1>1 DEF IInv, MergeInv
  <2>6. \A p \in Len(k) + 1 .. Len(l) : l[p] \in Excused(w)
    <3>1. CASE tables[m].whole
      <4>1. \A p \in Len(merged[w]) + 1 .. Len(l) : <<w, l[p]>> \in late
        BY <2>5 DEF MergedOf
      <4>2. late \subseteq Writers \X Ranks
        BY <1>1 DEF TypeOK
      <4> QED BY <3>1, <4>1, <4>2 DEF Excused
    <3>2. CASE ~tables[m].whole
      <4>1. m \in Failed
        BY <1>1, <3>2 DEF Failed
      <4>2. \A p \in DOMAIN merged[w] : merged[w][p] \in Unsaved(w)
        BY <1>1, <4>1 DEF Unsaved
      <4>3. /\ Len(merged[w]) <= Len(l)
            /\ \A p \in 1 .. Len(merged[w]) : merged[w][p] = l[p]
            /\ \A p \in Len(merged[w]) + 1 .. Len(l) : <<w, l[p]>> \in late
        BY <2>5 DEF MergedOf
      <4>4. /\ Len(merged[w]) \in Nat /\ DOMAIN merged[w] = 1 .. Len(merged[w])
            /\ Len(l) \in Nat /\ Len(k) = 0
            /\ late \subseteq Writers \X Ranks
        BY <1>1, <2>3, <3>2, SeqFacts DEF TypeOK
      <4> HIDE DEF l, k
      <4>5. \A p \in 1 .. Len(l) : p \in 1 .. Len(merged[w]) \/ p \in Len(merged[w]) + 1 .. Len(l)
        BY <4>4
      <4> QED BY <4>2, <4>3, <4>4, <4>5 DEF Excused
    <3> QED BY <3>1, <3>2
  <2>7. Len(k) <= Len(l) /\ \A p \in 1 .. Len(k) : k[p] = l[p]
    <3>1. CASE tables[m].whole
      BY <2>5, <3>1 DEF MergedOf
    <3>2. CASE ~tables[m].whole
      <4>1. k = <<>>
        BY <3>2
      <4>2. Len(l) \in Nat
        BY <2>3, SeqFacts
      <4> QED BY <4>1, <4>2
    <3> QED BY <3>1, <3>2
  <2>8. Handed(w)' = Handed(w) /\ Excused(w)' = Excused(w) /\ Handed(w) \in Nat
    <3>1. filled[w] \in Nat \ {0}
      BY <1>1, Types
    <3>2. Excused(w)' = Excused(w)
      BY <1>1 DEF Excused, Unsaved, Failed
    <3> QED BY <1>1, <3>1, <3>2 DEF Handed
  <2> HIDE DEF d, l, k
  <2>9. Recorded(Append(Append(d, k), <<>>), Handed(w), Excused(w))
    BY <2>1, <2>2, <2>3, <2>6, <2>7, <2>8, RecordMoved
  <2> QED BY <2>4, <2>8, <2>9 DEF Recorded
<1> QED BY <1>6, <1>7, <1>8, <1>9, <1>10, <1>11, <1>12, AllParts

LEMMA installStep == ASSUME IInv, install PROVE IInv'
<1> DEFINE n == Len(versions)
           e == [versions[n] EXCEPT !.state = "live"]
<1>1. /\ TypeOK /\ cpc = "install" /\ cpc' = "broadcast" /\ n = current_ + 1 /\ n \in Nat \ {0}
      /\ current_ \in Nat \ {0} /\ n \in DOMAIN versions /\ DOMAIN versions = 1 .. n
      /\ current_' = n /\ versions' = [versions EXCEPT ![n] = e] /\ freed(current_)
      /\ versions[n] = NewVersion(Append(versions[current_].files_, Len(tables)))
      /\ UNCHANGED <<tables, fileRefs, mutex_, cond_, pc, ptr, filled, cidx, merged, stopFLAG,
                     spurious, late>>
  <2>1. TypeOK /\ ShapeInv /\ cpc = "install"
    BY DEF IInv, install
  <2>2. /\ n = current_ + 1 /\ freed(current_)
        /\ versions[current_ + 1] = NewVersion(Append(versions[current_].files_, Len(tables)))
    BY <2>1 DEF ShapeInv, freed
  <2>3. UNCHANGED <<tables, fileRefs, mutex_, cond_, pc, ptr, filled, cidx, merged, stopFLAG,
                    spurious, late>>
    BY DEF install, lockVars, writerVars, ghostVars
  <2>4. n \in Nat \ {0} /\ current_ \in Nat \ {0} /\ DOMAIN versions = 1 .. n
    BY <2>1, <2>2, Types
  <2>5. n \in DOMAIN versions
    BY <2>4
  <2> QED BY <2>1, <2>2, <2>3, <2>4, <2>5 DEF install
<1>2. /\ e \in Version /\ e.state = "live" /\ e.files_ = versions[n].files_
      /\ e.list_count_ = versions[n].list_count_ /\ e.list_ = versions[n].list_
      /\ versions[n].list_count_ = 0 /\ versions[n].state = "new"
  <2>1. versions[n] \in Version
    BY <1>1, Types
  <2>2. versions[n].list_count_ = 0 /\ versions[n].state = "new"
    BY <1>1 DEF NewVersion
  <2> HIDE DEF n
  <2> QED BY <2>1, <2>2 DEF Version
<1> HIDE DEF e
<1>3. /\ versions' \in Seq(Version) /\ Len(versions') = n /\ DOMAIN versions' = 1 .. n
      /\ versions'[n] = e
      /\ \A v \in 1 .. n : v # n => versions'[v] = versions[v]
  BY <1>1, <1>2, Replaced
<1>0. n' = n
  BY <1>3
<1> HIDE DEF n
<1>4. \A v \in 1 .. n : /\ versions'[v].list_count_ = versions[v].list_count_
                        /\ versions'[v].files_ = versions[v].files_
                        /\ versions'[v].list_ = versions[v].list_
                        /\ (versions'[v].state = "freed" <=> versions[v].state = "freed")
  BY <1>1, <1>2, <1>3
<1>5. TypeOK'
  <2>1. DOMAIN versions' = DOMAIN versions /\ current_' \in DOMAIN versions'
    BY <1>1, <1>3
  <2> QED BY <1>1, <1>3, <2>1 DEF TypeOK, Version
<1>6. LockInv'
  <2>1. 1 .. current_ \subseteq 1 .. n
    BY <1>1
  <2> QED BY <1>1, <2>1 DEF IInv, LockInv
<1>7. ShapeInv'
  <2>1. \A v \in 1 .. n - 1 : v \in 1 .. n /\ (v = current_ \/ v \in 1 .. current_ - 1)
    BY <1>1
  <2>2. \A v \in 1 .. n - 1 : freed(v)
    BY <1>1, <2>1 DEF IInv, ShapeInv
  <2>3. \A v \in 1 .. n - 1 : freed(v)'
    BY <1>4, <2>1, <2>2 DEF freed
  <2> QED BY <1>1, <1>2, <1>3, <2>3 DEF ShapeInv
<1>8. CountInv'
  <2>1. \A v \in 1 .. n :
          versions'[v].list_count_ <= kMaxFrozenList + 2 * kMaxWriter - 1 + spurious
    BY <1>4 DEF IInv, CountInv, n
  <2>2. Cardinality(Appending) \in Nat /\ Cardinality(Appending) <= kMaxWriter
    <3>1. Appending \in SUBSET Writers
      BY DEF Appending
    <3> QED BY <3>1, AppendingCount
  <2>3. Appending' = Appending /\ WakeUps' = kMaxWriter
    BY <1>1 DEF Appending, WakeUps
  <2>4. 0 + Cardinality(Appending) <= kMaxFrozenList + kMaxWriter - 1 + spurious
    <3>1. /\ kMaxWriter \in Nat \ {0} /\ kMaxFrozenList \in Nat \ {0} /\ spurious \in Nat
      BY <1>1, Numbers
    <3> QED BY <2>2, <3>1
  <2> QED BY <1>1, <1>2, <1>3, <2>1, <2>3, <2>4 DEF CountInv
<1>9. RefsMatch'
  <2> SUFFICES ASSUME NEW f \in DOMAIN fileRefs
               PROVE  fileRefs[f] = Cardinality({v \in DOMAIN versions' :
                                                   ~freed(v)' /\ InFiles(f, versions'[v])})
    BY <1>1 DEF RefsMatch, freed, InFiles
  <2>1. DOMAIN versions' = DOMAIN versions /\ \A v \in DOMAIN versions : freed(v)' <=> freed(v)
    BY <1>1, <1>3, <1>4 DEF freed
  <2>2. \A v \in DOMAIN versions : InFiles(f, versions'[v]) <=> InFiles(f, versions[v])
    BY <1>1, <1>4 DEF InFiles
  <2>3. {v \in DOMAIN versions' : ~freed(v)' /\ InFiles(f, versions'[v])}
          = {v \in DOMAIN versions : ~freed(v) /\ InFiles(f, versions[v])}
    BY <2>1, <2>2, Zenon
  <2> QED BY <1>1, <2>3 DEF IInv, RefsMatch
<1>10. MergeInv'
  BY <1>1 DEF MergeInv
<1>11. HistoryInv'
  <2> SUFFICES ASSUME NEW w \in Writers PROVE Recorded(Shown(w), Handed(w), Excused(w))'
    BY DEF HistoryInv
  <2>1. Recorded(Shown(w), Handed(w), Excused(w))
    BY DEF IInv, HistoryInv
  <2>2. visible = n /\ visible' = n
    <3>1. ~freed(n)'
      BY <1>0, <1>2, <1>3 DEF freed
    <3>2. visible = n
      BY <1>1 DEF visible, n
    <3>3. visible' = IF freed(n)' THEN Len(versions') ELSE n
      BY <1>0, <1>1 DEF visible, freed
    <3> QED BY <3>1, <3>2, <3>3
  <2>3. Shown(w)' = Shown(w)
    <3>1. versions'[n].files_ = versions[n].files_ /\ versions'[n].list_ = versions[n].list_
      BY <1>1, <1>4
    <3>2. tables' = tables
      BY <1>1
    <3>3. Shown(w)' = Path(n, w)'
      BY <1>0, <2>2 DEF Shown, Path, OnDisk
    <3>4. Path(n, w)' = Path(n, w)
      BY <1>0, <3>1, <3>2 DEF Path, OnDisk
    <3> QED BY <2>2, <3>3, <3>4 DEF Shown
  <2>4. Handed(w)' = Handed(w) /\ Excused(w)' = Excused(w)
    BY <1>1 DEF Handed, Excused, Unsaved, Failed
  <2> QED BY <2>1, <2>3, <2>4 DEF Recorded
<1> QED BY <1>5, <1>6, <1>7, <1>8, <1>9, <1>10, <1>11, AllParts

-----------------------------------------------------------------------------
LEMMA NextIInv == ASSUME IInv, [Next]_vars PROVE IInv'
<1>1. ASSUME NEW w \in Writers, listFull(w) \/ AppendFrozenList(w) \/ wakeSpuriously(w)
      PROVE  IInv'
  BY <1>1, listFullStep, LockStep, checkFullStep, WaitStep, relockStep, readCurrentStep,
     pushBackStep, countAndUnlockStep, wakeSpuriouslyStep DEF AppendFrozenList
<1>2. CASE Compacter
  BY <1>2, pollStep, mergeStep, BuildTableStep, applyStep, UnrefStep, installStep,
     BoardcastStep, quitStep DEF Compacter
<1>3. CASE stop
  BY <1>3, stopStep
<1>4. CASE UNCHANGED vars
  <2>1. UNCHANGED <<versions, current_, tables, fileRefs, mutex_, cond_, pc, ptr, filled, cpc,
                    cidx, merged, stopFLAG, spurious, late>>
    BY <1>4 DEF vars, setVars, lockVars, writerVars, compacterVars, ghostVars
  <2>2. TypeOK' /\ LockInv' /\ CountInv'
    BY <2>1 DEF IInv, TypeOK, LockInv, Version, CountInv, Appending, freed, WakeUps
  <2>3. \A d \in Writers : Handed(d)' = Handed(d)
    BY <2>1 DEF Handed
  <2> QED BY <2>1, <2>2, <2>3, SameStore DEF IInv
<1> QED BY <1>1, <1>2, <1>3, <1>4 DEF Next

(* The invariant holds in every state the Writers and the Compacter reach. *)
THEOREM VersionsInductive == Spec => []IInv
<1>1. Init => IInv
  BY InitIInv
<1>2. IInv /\ [Next]_vars => IInv'
  BY NextIInv
<1> QED BY <1>1, <1>2, PTL DEF Spec

(* Versions, tables, references and locals keep their types; a Writer in   *)
(* the middle of AppendList always has a version to work on.               *)
THEOREM VersionsTypeCorrect == Spec => []TypeOK
<1>1. IInv => TypeOK
  BY DEF IInv
<1> QED BY <1>1, VersionsInductive, PTL

(* However many Writers are woken, and whenever, no version ever counts    *)
(* more lists than the limit, two for each Writer and one for each wake-up *)
(* without a broadcast.                                                    *)
THEOREM OverfillIsBounded == Spec => []OverfillBound
<1>1. IInv => OverfillBound
  BY Types DEF IInv, CountInv, OverfillBound
<1> QED BY <1>1, VersionsInductive, PTL

(* FileMetaData::refs is the number of versions that were not freed and    *)
(* list the file: ref and unref are never called once too often or once    *)
(* too seldom.                                                             *)
THEOREM RefsCorrect == Spec => []RefsMatch
<1>1. IInv => RefsMatch
  BY DEF IInv
<1> QED BY <1>1, VersionsInductive, PTL

(* Whatever the Compacter is doing, what a Writer handed over in time is   *)
(* in the current version's lists or tables, in the order it was filled    *)
(* and once, unless a table could not be written.                          *)
THEOREM HistoryCorrect == Spec => []HistoryKept
<1>1. ASSUME IInv PROVE HistoryKept
  <2> SUFFICES ASSUME ~freed(current_), NEW w \in Writers
               PROVE  /\ Ascending(Segments(w))
                      /\ \A n \in 1 .. filled[w] - 1 : <<w, n>> \notin late /\ n \notin Unsaved(w) =>
                           Has(Segments(w), n)
    BY DEF HistoryKept, Ascending, Has
  <2>1. Segments(w) = Shown(w)
    BY DEF Segments, Shown, Path, visible
  <2>2. Recorded(Shown(w), Handed(w), Excused(w))
    BY <1>1 DEF IInv, HistoryInv
  <2>3. \A n \in 1 .. filled[w] - 1 : n \in 1 .. Handed(w)
    BY <1>1, Types DEF IInv, Handed
  <2> QED BY <2>1, <2>2, <2>3 DEF Recorded, Excused
<1> QED BY <1>1, VersionsInductive, PTL
-----------------------------------------------------------------------------
(* FlattenSeq, whose result is computed from the first sequence on.        *)
Flattens(f, s, n) ==
  f = [i \in 1 .. n |-> IF i = 1 THEN s[i] ELSE f[i - 1] \o s[i]]

LEMMA FlattenIsChosen ==
  ASSUME NEW s, NEW n \in Nat \ {0}, Len(s) = n
  PROVE  FlattenSeq(s) = (CHOOSE f : Flattens(f, s, n))[n]
  BY DEF FlattenSeq, Flattens

(* Where they are computed from the same sequences, results agree.         *)
LEMMA FlattensAgree ==
  ASSUME NEW n \in Nat, NEW m \in Nat, n <= m, NEW s, NEW t, NEW f, NEW g,
         Flattens(f, s, n), Flattens(g, t, m), \A i \in 1 .. n : s[i] = t[i]
  PROVE  \A i \in 1 .. n : f[i] = g[i]
<1> DEFINE D == {i \in 1 .. n : f[i] # g[i]}
<1> SUFFICES ASSUME D # {} PROVE FALSE
  OBVIOUS
<1>1. D \in SUBSET Nat
  OBVIOUS
<1>2. PICK i \in D : \A j \in D : i <= j
  BY <1>1, LeastNumber
<1>3. i \in 1 .. n /\ i \in 1 .. m /\ i \in Nat /\ f[i] # g[i]
  OBVIOUS
<1>4. /\ f[i] = IF i = 1 THEN s[i] ELSE f[i - 1] \o s[i]
      /\ g[i] = IF i = 1 THEN t[i] ELSE g[i - 1] \o t[i]
  BY <1>3 DEF Flattens
<1>5. CASE i = 1
  BY <1>3, <1>4, <1>5
<1>6. CASE i # 1
  <2>1. i - 1 \in 1 .. n /\ ~ (i <= i - 1)
    BY <1>3, <1>6
  <2>2. f[i - 1] = g[i - 1]
    BY <1>2, <2>1
  <2> QED BY <1>3, <1>4, <1>6, <2>2
<1> QED BY <1>5, <1>6

LEMMA FlattensExists ==
  ASSUME NEW s, NEW n \in Nat
  PROVE  \E f : Flattens(f, s, n)
<1> DEFINE D == {k \in Nat : ~ \E f : Flattens(f, s, k)}
<1> SUFFICES ASSUME D # {} PROVE FALSE
  OBVIOUS
<1>1. PICK k \in D : \A j \in D : k <= j
  <2>1. D \in SUBSET Nat
    OBVIOUS
  <2> QED BY <2>1, LeastNumber
<1>2. k \in Nat /\ ~ \E f : Flattens(f, s, k)
  OBVIOUS
<1>3. k # 0
  <2> SUFFICES ASSUME k = 0 PROVE FALSE
    OBVIOUS
  <2>1. Flattens(<<>>, s, 0)
    BY DEF Flattens
  <2> QED BY <1>2, <2>1
<1>4. k - 1 \in Nat /\ ~ (k <= k - 1)
  BY <1>2, <1>3
<1>5. PICK f : Flattens(f, s, k - 1)
  BY <1>1, <1>4
<1> DEFINE g == [i \in 1 .. k |-> IF i = 1 THEN s[i] ELSE f[i - 1] \o s[i]]
<1>6. \A i \in 1 .. k - 1 : g[i] = f[i]
  <2>1. \A i \in 1 .. k - 1 : f[i] = IF i = 1 THEN s[i] ELSE f[i - 1] \o s[i]
    BY <1>5 DEF Flattens
  <2>2. 1 .. k - 1 \subseteq 1 .. k
    BY <1>2, <1>4
  <2> QED BY <2>1, <2>2
<1>7. \A i \in 1 .. k : i # 1 => i - 1 \in 1 .. k - 1
  BY <1>2
<1>8. \A i \in 1 .. k : i # 1 => f[i - 1] = g[i - 1]
  BY <1>6, <1>7
<1>9. g = [i \in 1 .. k |-> IF i = 1 THEN s[i] ELSE g[i - 1] \o s[i]]
  <2> DEFINE h == [i \in 1 .. k |-> IF i = 1 THEN s[i] ELSE g[i - 1] \o s[i]]
  <2>1. \A i \in 1 .. k : g[i] = h[i]
    BY <1>8
  <2>2. g = [i \in 1 .. k |-> g[i]] /\ h = [i \in 1 .. k |-> h[i]]
    OBVIOUS
  <2> HIDE DEF g, h
  <2>3. g = h
    BY <2>1, <2>2
  <2> QED BY <2>3 DEF h
<1>10. Flattens(g, s, k)
  <2> HIDE DEF g
  <2> QED BY <1>9 DEF Flattens
<1> QED BY <1>2, <1>10

LEMMA FlattenIs ==
  ASSUME NEW s, NEW n \in Nat \ {0}, Len(s) = n
  PROVE  \E f : Flattens(f, s, n) /\ FlattenSeq(s) = f[n]
<1> DEFINE f == CHOOSE g : Flattens(g, s, n)
<1>1. Flattens(f, s, n)
  BY FlattensExists
<1>2. FlattenSeq(s) = f[n]
  BY FlattenIsChosen
<1> QED BY <1>1, <1>2

LEMMA FlattenEmpty == FlattenSeq(<<>>) = <<>>
  BY DEF FlattenSeq

LEMMA FlattenType ==
  ASSUME NEW S, NEW s \in Seq(Seq(S))
  PROVE  FlattenSeq(s) \in Seq(S)
<1>1. CASE s = <<>>
  <2>1. <<>> \in Seq(S)
    OBVIOUS
  <2> QED BY <1>1, <2>1, FlattenEmpty
<1>2. CASE s # <<>>
  <2> DEFINE n == Len(s)
  <2>1. n \in Nat \ {0} /\ \A i \in 1 .. n : s[i] \in Seq(S)
    BY <1>2, ElementOfSeq, LenProperties, EmptySeq
  <2> HIDE DEF n
  <2>2. PICK f : Flattens(f, s, n) /\ FlattenSeq(s) = f[n]
    BY <2>1, FlattenIs DEF n
  <2> DEFINE D == {i \in 1 .. n : f[i] \notin Seq(S)}
  <2>3. D = {}
    <3> SUFFICES ASSUME D # {} PROVE FALSE
      OBVIOUS
    <3>1. PICK i \in D : \A j \in D : i <= j
      <4>1. D \in SUBSET Nat
        OBVIOUS
      <4> QED BY <4>1, LeastNumber
    <3>2. i \in 1 .. n /\ i \in Nat /\ f[i] \notin Seq(S)
      OBVIOUS
    <3>3. f[i] = IF i = 1 THEN s[i] ELSE f[i - 1] \o s[i]
      BY <2>2, <3>2 DEF Flattens
    <3>4. CASE i = 1
      BY <2>1, <3>2, <3>3, <3>4
    <3>5. CASE i # 1
      <4>1. i - 1 \in 1 .. n /\ ~ (i <= i - 1)
        BY <2>1, <3>2, <3>5
      <4>2. f[i - 1] \in Seq(S)
        BY <3>1, <4>1
      <4> HIDE DEF D
      <4> QED BY <2>1, <3>2, <3>3, <3>5, <4>2, ConcatProperties
    <3> QED BY <3>4, <3>5
  <2> QED BY <2>1, <2>2, <2>3
<1> QED BY <1>1, <1>2

LEMMA FlattenAppend ==
  ASSUME NEW S, NEW s \in Seq(Seq(S)), NEW x \in Seq(S)
  PROVE  FlattenSeq(Append(s, x)) = FlattenSeq(s) \o x
<1> DEFINE n == Len(s)
           t == Append(s, x)
<1>1. /\ n \in Nat /\ Len(t) = n + 1 /\ t[n + 1] = x /\ \A i \in 1 .. n : t[i] = s[i]
      /\ n + 1 \in Nat \ {0}
  BY AppendProperties, LenProperties
<1> HIDE DEF t
<1> DEFINE m == n + 1
<1>2. PICK g : Flattens(g, t, m) /\ FlattenSeq(t) = g[m]
  BY <1>1, FlattenIs
<1>3. m \in 1 .. m /\ m - 1 = n /\ (m = 1 <=> n = 0) /\ n <= m /\ m \in Nat
  BY <1>1
<1>4. t[m] = x /\ \A i \in 1 .. n : s[i] = t[i]
  BY <1>1
<1> HIDE DEF m
<1>5. g[m] = IF m = 1 THEN t[m] ELSE g[m - 1] \o t[m]
  BY <1>2, <1>3 DEF Flattens
<1>6. CASE n = 0
  <2>1. s = <<>>
    BY <1>6, EmptySeq
  <2>2. FlattenSeq(s) = <<>>
    BY <2>1, FlattenEmpty
  <2>3. FlattenSeq(t) = x
    BY <1>2, <1>3, <1>4, <1>5, <1>6
  <2> QED BY <2>2, <2>3, ConcatEmptySeq DEF t
<1>7. CASE n # 0
  <2>1. PICK f : Flattens(f, s, n) /\ FlattenSeq(s) = f[n]
    BY <1>1, <1>7, FlattenIs
  <2>2. n \in 1 .. n
    BY <1>1, <1>7
  <2> HIDE DEF n
  <2>3. \A i \in 1 .. n : f[i] = g[i]
    BY <1>1, <1>2, <1>3, <1>4, <2>1, FlattensAgree
  <2>4. f[n] = g[n]
    BY <2>2, <2>3
  <2> QED BY <1>2, <1>3, <1>4, <1>5, <1>7, <2>1, <2>4 DEF t
<1> QED BY <1>6, <1>7
-----------------------------------------------------------------------------
(* The abstract state, and its steps in terms of it.                       *)
Disk == [w \in Writers |-> FlattenSeq(OnDisk(visible, w))]
Memory == [w \in Writers |-> versions[visible].list_[w]]

LEMMA Stutter ==
  ASSUME Disk' = Disk, Memory' = Memory, late' = late
  PROVE  UNCHANGED Store!vars
  BY DEF Store!vars, Disk, Memory

LEMMA HandedOver ==
  ASSUME NEW w \in Writers, NEW n \in Ranks,
         \A i \in DOMAIN Disk[w] : Disk[w][i] < n,
         \A i \in DOMAIN Memory[w] : Memory[w][i] < n,
         Disk' = Disk, late' = late, Memory' = [Memory EXCEPT ![w] = Append(@, n)]
  PROVE  Store!Next
<1>1. Store!handOver(w, n)
  BY DEF Store!handOver, Store!Later, Disk, Memory
<1> QED BY <1>1 DEF Store!Next

LEMMA HandedOverLate ==
  ASSUME NEW w \in Writers, NEW n \in Ranks,
         \A i \in DOMAIN Disk[w] : Disk[w][i] < n,
         \A i \in DOMAIN Memory[w] : Memory[w][i] < n,
         Disk' = Disk, late' = late \cup {<<w, n>>},
         Memory' \in {Memory, [Memory EXCEPT ![w] = Append(@, n)]}
  PROVE  Store!Next
<1>1. Store!handOverLate(w, n)
  BY DEF Store!handOverLate, Store!Later, Disk, Memory
<1> QED BY <1>1 DEF Store!Next

LEMMA Compacted ==
  ASSUME Memory' = NoLists, late' = late,
         NEW saved \in [Writers -> 0 .. Cardinality(Ranks)],
         \A w \in Writers :
           /\ saved[w] <= Len(Memory[w])
           /\ \A i \in saved[w] + 1 .. Len(Memory[w]) : <<w, Memory[w][i]>> \in late,
         Disk' = [w \in Writers |-> Disk[w] \o SubSeq(Memory[w], 1, saved[w])]
  PROVE  Store!Next
<1>1. Store!Cardinality(Ranks) = Cardinality(Ranks)
  BY DEF Store!Cardinality, Cardinality
<1>2. Store!compact
  BY <1>1 DEF Store!compact, Store!Nothing, NoLists, Disk, Memory
<1> QED BY <1>2 DEF Store!Next

LEMMA CompactionFailed ==
  ASSUME Memory' = NoLists, late' = late, Disk' = Disk
  PROVE  Store!Next
<1>1. Store!compactionFails
  BY DEF Store!compactionFails, Store!Nothing, NoLists, Disk, Memory
<1> QED BY <1>1 DEF Store!Next

LEMMA StoreInit == ASSUME Init PROVE Store!Init
<1>1. versions[1] = [NewVersion(<<>>) EXCEPT !.state = "live"] /\ current_ = 1 /\ Len(versions) = 1
  BY DEF Init
<1>2. visible = 1
  BY <1>1 DEF visible, freed, NewVersion
<1>3. ASSUME NEW w \in Writers
      PROVE  FlattenSeq(OnDisk(visible, w)) = <<>> /\ versions[visible].list_[w] = <<>>
  <2>1. OnDisk(visible, w) = <<>>
    BY <1>1, <1>2 DEF OnDisk, NewVersion
  <2>2. versions[visible].list_[w] = <<>>
    BY <1>1, <1>2 DEF NewVersion, NoLists
  <2> QED BY <2>1, <2>2, FlattenEmpty
<1>4. late = {}
  BY DEF Init
<1> QED BY <1>3, <1>4 DEF Store!Init, Store!Nothing

-----------------------------------------------------------------------------
(* Steps that neither hand a list over nor free a version.                 *)
LEMMA SamePaths ==
  ASSUME IInv, visible' = visible, late' = late,
         \A f \in DOMAIN tables : tables'[f] = tables[f],
         versions'[visible].files_ = versions[visible].files_,
         versions'[visible].list_ = versions[visible].list_
  PROVE  UNCHANGED Store!vars
<1>1. visible \in 1 .. Len(versions)
  BY Types DEF IInv, ShapeInv, visible
<1>2. \A i \in DOMAIN versions[visible].files_ : versions[visible].files_[i] \in DOMAIN tables
  BY <1>1, Types, SeqFacts DEF IInv
<1>3. \A w \in Writers : OnDisk(visible, w)' = OnDisk(visible, w)
  BY <1>2 DEF OnDisk
<1>4. Disk' = Disk
  BY <1>3 DEF Disk
<1>5. Memory' = Memory
  BY DEF Memory
<1> QED BY <1>4, <1>5, Stutter

LEMMA SameVersions ==
  ASSUME IInv, UNCHANGED <<versions, current_, tables, late>>
  PROVE  UNCHANGED Store!vars
<1>1. visible' = visible
  BY DEF visible, freed
<1> QED BY <1>1, SamePaths

LEMMA countAndUnlockStutters ==
  ASSUME IInv, NEW w \in Writers, countAndUnlock(w) PROVE UNCHANGED Store!vars
<1>1. /\ DOMAIN versions = 1 .. Len(versions) /\ visible \in DOMAIN versions
      /\ current_ \in DOMAIN versions /\ \A v \in DOMAIN versions : versions[v] \in Version
  BY Types DEF IInv, visible
<1>2. \A u \in DOMAIN versions : /\ versions'[u].state = versions[u].state
                                 /\ versions'[u].files_ = versions[u].files_
                                 /\ versions'[u].list_ = versions[u].list_
  BY <1>1 DEF countAndUnlock, Version
<1>3. Len(versions') = Len(versions)
  <2>1. versions \in Seq(Version) /\ DOMAIN versions' = DOMAIN versions
    BY DEF countAndUnlock, IInv, TypeOK
  <2>2. PICK m \in Nat : m = Len(versions)
    BY <2>1, LenProperties
  <2> QED
    BY <2>1, <2>2
<1>4. visible' = visible
  BY <1>1, <1>2, <1>3 DEF countAndUnlock, visible, freed
<1> QED BY <1>1, <1>2, <1>4, SamePaths DEF countAndUnlock, ghostVars

LEMMA BuildTableStutters == ASSUME IInv, BuildTable PROVE UNCHANGED Store!vars
<1>1. \A f \in DOMAIN tables : tables'[f] = tables[f]
  <2>1. PICK t : tables' = Append(tables, t)
    BY DEF BuildTable
  <2>2. DOMAIN tables = 1 .. Len(tables) /\ tables \in Seq([lists : [Writers -> Seq(Ranks)], whole : BOOLEAN])
    BY Types DEF IInv, TypeOK
  <2> QED BY <2>1, <2>2
<1>2. visible' = visible /\ UNCHANGED <<versions, late>>
  BY DEF BuildTable, ghostVars, visible, freed
<1> QED BY <1>1, <1>2, SamePaths

LEMMA applyStutters == ASSUME IInv, apply PROVE UNCHANGED Store!vars
<1>1. /\ current_ \in DOMAIN versions /\ ~freed(current_)
      /\ UNCHANGED <<current_, tables, late>>
  BY Types DEF IInv, ShapeInv, freed, apply, ghostVars
<1>2. versions'[current_] = versions[current_]
  <2>1. PICK e : versions' = Append(versions, e)
    BY DEF apply
  <2>2. DOMAIN versions = 1 .. Len(versions) /\ versions \in Seq(Version)
    BY Types DEF IInv, TypeOK
  <2> QED BY <1>1, <2>1, <2>2
<1>3. visible = current_ /\ visible' = current_
  BY <1>1, <1>2 DEF visible, freed
<1> QED BY <1>1, <1>2, <1>3, SamePaths

LEMMA installStutters == ASSUME IInv, install PROVE UNCHANGED Store!vars
<1> DEFINE n == Len(versions)
           e == [versions[n] EXCEPT !.state = "live"]
<1>1. /\ TypeOK /\ n \in 1 .. Len(versions) /\ versions[n] \in Version /\ freed(current_)
      /\ versions' = [versions EXCEPT ![n] = e]
      /\ current_' = n /\ UNCHANGED <<tables, late>>
  BY Types DEF IInv, ShapeInv, freed, install, ghostVars
<1>2. e \in Version /\ e.state = "live" /\ e.files_ = versions[n].files_ /\ e.list_ = versions[n].list_
  <2> HIDE DEF n
  <2> QED BY <1>1 DEF Version
<1> HIDE DEF e
<1>3. versions'[n] = e /\ Len(versions') = n
  <2> HIDE DEF n
  <2>1. versions'[n] = e /\ Len(versions') = Len(versions)
    BY <1>1, <1>2, Replaced
  <2> QED BY <2>1 DEF n
<1>4. visible = n /\ visible' = n
  BY <1>1, <1>2, <1>3 DEF visible, freed
<1> QED BY <1>1, <1>2, <1>3, <1>4, SamePaths

-----------------------------------------------------------------------------
(* The two steps that do.                                                  *)
LEMMA SeqRestrict ==
  ASSUME NEW S, NEW T, NEW s \in Seq(S), \A i \in 1 .. Len(s) : s[i] \in T
  PROVE  s \in Seq(T)
  BY LenProperties, SMT

(* What a Writer hands over is later than what is there already.           *)
LEMMA LaterThanShown ==
  ASSUME IInv, NEW w \in Writers, NEW n \in Nat, Handed(w) = n - 1
  PROVE  /\ \A i \in DOMAIN Disk[w] : Disk[w][i] < n
         /\ \A i \in DOMAIN Memory[w] : Memory[w][i] < n
<1> DEFINE d == OnDisk(visible, w)
           l == versions[visible].list_[w]
           T == {m \in Nat : m < n}
<1>1. visible \in 1 .. Len(versions) /\ Ranks \subseteq Nat
  <2>1. visible \in 1 .. Len(versions)
    BY Types DEF IInv, visible
  <2> QED BY <2>1, VersionSetAssumption DEF Ranks
<1>2. d \in Seq(Seq(Ranks)) /\ l \in Seq(Ranks)
  BY <1>1, OnDiskType, Types DEF IInv
<1>3. \A m \in Nat : Has(Append(d, l), m) => m < n
  <2>1. \A m \in Nat : Has(Shown(w), m) => m <= n - 1
    BY DEF IInv, HistoryInv, Recorded
  <2>2. Shown(w) = Append(d, l)
    BY DEF Shown, Path
  <2> HIDE DEF d, l
  <2> QED BY <2>1, <2>2
<1> HIDE DEF d, l
<1>4. /\ Len(d) \in Nat
      /\ DOMAIN d = 1 .. Len(d) /\ DOMAIN Append(d, l) = 1 .. Len(d) + 1
      /\ \A i \in 1 .. Len(d) : Append(d, l)[i] = d[i] /\ d[i] \in Seq(Ranks)
      /\ Append(d, l)[Len(d) + 1] = l
      /\ Len(l) \in Nat /\ DOMAIN l = 1 .. Len(l)
      /\ \A p \in 1 .. Len(l) : l[p] \in Ranks
      /\ \A i \in 1 .. Len(d) : \A p \in DOMAIN d[i] : d[i][p] \in Ranks
  BY <1>2, LastSegment
<1>5. \A i \in 1 .. Len(d) : d[i] \in Seq(T)
  <2> SUFFICES ASSUME NEW i \in 1 .. Len(d) PROVE d[i] \in Seq(T)
    OBVIOUS
  <2>1. d[i] \in Seq(Ranks) /\ DOMAIN d[i] = 1 .. Len(d[i]) /\ i \in DOMAIN Append(d, l)
    BY <1>4, LenProperties
  <2>2. \A p \in 1 .. Len(d[i]) : d[i][p] \in T
    BY <1>1, <1>3, <1>4, <2>1 DEF Has
  <2> QED BY <2>1, <2>2, SeqRestrict
<1>6. d \in Seq(Seq(T))
  BY <1>2, <1>5, SeqRestrict
<1>7. FlattenSeq(d) \in Seq(T)
  BY <1>6, FlattenType
<1>8. \A i \in DOMAIN FlattenSeq(d) : FlattenSeq(d)[i] < n
  BY <1>7, SeqFacts
<1>9. \A p \in DOMAIN l : l[p] < n
  <2>1. Len(d) + 1 \in DOMAIN Append(d, l)
    BY <1>4
  <2> QED BY <1>1, <1>3, <1>4, <2>1 DEF Has
<1> QED BY <1>8, <1>9 DEF Disk, Memory, d, l

LEMMA pushBackHandsOver == ASSUME IInv, NEW w \in Writers, pushBack(w) PROVE Store!Next
<1> DEFINE v == ptr[w]
           n == filled[w]
<1>1. /\ TypeOK /\ pc[w] = "push" /\ v \in 1 .. current_ /\ n \in Ranks /\ n \in Nat
      /\ UNCHANGED <<current_, tables>>
      /\ late' = IF freed(v) \/ full(v) THEN late \cup {<<w, n>>} ELSE late
      /\ current_ \in 1 .. Len(versions) /\ DOMAIN versions = 1 .. Len(versions)
      /\ Len(versions) \in Nat /\ current_ \in Nat
  <2>1. TypeOK /\ LockInv /\ pc[w] = "push"
    BY DEF IInv, pushBack
  <2>2. n <= MaxLists /\ v \in 1 .. current_
    BY <2>1 DEF LockInv
  <2>3. n \in Ranks /\ n \in Nat
    BY <2>1, <2>2, Types DEF Ranks
  <2> QED BY <2>1, <2>2, <2>3, Types DEF pushBack
<1>2. \A i \in DOMAIN Disk[w] : Disk[w][i] < n
  BY <1>1, LaterThanShown DEF Handed
<1>3. \A i \in DOMAIN Memory[w] : Memory[w][i] < n
  BY <1>1, LaterThanShown DEF Handed
<1>4. CASE freed(v)
  <2>1. UNCHANGED <<versions, current_, tables>>
    BY <1>1, <1>4 DEF pushBack
  <2>2. Disk' = Disk /\ Memory' = Memory
    BY <2>1 DEF Disk, Memory, OnDisk, visible, freed
  <2> HIDE DEF n, v
  <2> QED BY <1>1, <1>2, <1>3, <1>4, <2>2, HandedOverLate
<1>5. CASE ~freed(v)
  <2>1. v = current_ /\ ~freed(current_)
    <3>1. \A u \in 1 .. current_ - 1 : freed(u)
      BY DEF IInv, ShapeInv
    <3>2. v = current_ \/ v \in 1 .. current_ - 1
      BY <1>1
    <3> QED BY <1>5, <3>1, <3>2
  <2> DEFINE e == [versions[v] EXCEPT !.list_[w] = Append(versions[v].list_[w], n)]
  <2>2. versions[v] \in Version /\ Append(versions[v].list_[w], n) \in Seq(Ranks)
    BY <1>1, <2>1, Types, AppendProperties
  <2>3. e \in Version /\ versions' = [versions EXCEPT ![v] = e]
    BY <1>5, <2>2 DEF Version, pushBack
  <2>4. /\ e.state = versions[v].state /\ e.files_ = versions[v].files_
        /\ e.list_ = [versions[v].list_ EXCEPT ![w] = Append(versions[v].list_[w], n)]
    BY <2>2 DEF Version
  <2>5. versions[v].list_ \in [Writers -> Seq(Ranks)]
    BY <2>2 DEF Version
  <2> HIDE DEF e, v, n
  <2>6. versions'[v] = e
    BY <1>1, <2>1, <2>3, Replaced
  <2>7. visible = v /\ visible' = v
    BY <1>1, <2>1, <2>4, <2>6 DEF visible, freed
  <2>8. Disk' = Disk
    BY <1>1, <2>4, <2>6, <2>7 DEF Disk, OnDisk
  <2>9. Memory' = [Memory EXCEPT ![w] = Append(@, n)]
    <3>1. Memory = versions[v].list_
      BY <2>5, <2>7 DEF Memory
    <3>2. Memory' = e.list_
      BY <2>4, <2>5, <2>6, <2>7 DEF Memory
    <3> QED BY <2>4, <3>1, <3>2
  <2>10. CASE full(v)
    BY <1>1, <1>2, <1>3, <1>5, <2>8, <2>9, <2>10, HandedOverLate
  <2>11. CASE ~full(v)
    BY <1>1, <1>2, <1>3, <1>5, <2>8, <2>9, <2>11, HandedOver
  <2> QED BY <2>10, <2>11
<1> QED BY <1>4, <1>5

(* A Writer's lists have different ranks: no more of them are merged than  *)
(* there are ranks.                                                        *)
LEMMA MergedFits ==
  ASSUME IInv, Unref, NEW w \in Writers
  PROVE  Len(merged[w]) \in 0 .. Cardinality(Ranks)
<1> DEFINE m == merged[w]
           l == versions[current_].list_[w]
           d == OnDisk(current_, w)
<1>1. /\ m \in Seq(Ranks) /\ l \in Seq(Ranks) /\ d \in Seq(Seq(Ranks)) /\ Ranks \subseteq Nat
      /\ visible = current_
  BY UnrefShown DEF Ranks
<1>2. Len(m) <= Len(l) /\ \A p \in 1 .. Len(m) : m[p] = l[p]
  BY UnrefFacts DEF IInv, MergeInv, MergedOf
<1>3. Ascending(Append(d, l))
  BY <1>1 DEF IInv, HistoryInv, Recorded, Shown, Path
<1> HIDE DEF d, l, m
<1>4. Len(m) \in Nat /\ Len(l) \in Nat /\ \A p \in 1 .. Len(m) : m[p] \in Ranks
  BY <1>1, SeqFacts
<1>5. \A p, q \in 1 .. Len(l) : p < q => l[p] < l[q]
  <2>1. /\ Len(d) + 1 \in DOMAIN Append(d, l) /\ Append(d, l)[Len(d) + 1] = l
        /\ DOMAIN l = 1 .. Len(l)
    <3>1. /\ Len(d) \in Nat /\ DOMAIN Append(d, l) = 1 .. Len(d) + 1
          /\ Append(d, l)[Len(d) + 1] = l /\ DOMAIN l = 1 .. Len(l)
      BY <1>1, LastSegment
    <3> QED BY <3>1
  <2> QED BY <1>3, <2>1 DEF Ascending
<1>6. \A p, q \in 1 .. Len(m) : p # q => m[p] # m[q]
  <2>1. \A p, q \in 1 .. Len(m) : p < q => m[p] < m[q]
    BY <1>2, <1>4, <1>5
  <2>2. \A p \in 1 .. Len(m) : m[p] \in Nat
    BY <1>1, <1>4
  <2>3. \A p, q \in 1 .. Len(m) : p # q => p < q \/ q < p
    BY <1>4
  <2> QED BY <2>1, <2>2, <2>3
<1>7. [p \in 1 .. Len(m) |-> m[p]] \in Injection(1 .. Len(m), Ranks)
  BY <1>4, <1>6 DEF Injection, IsInjective
<1>8. IsFiniteSet(Ranks) /\ Cardinality(Ranks) \in Nat
  BY FS_Interval, FS_CardinalityType, VersionSetAssumption DEF Ranks
<1>9. Cardinality(1 .. Len(m)) = Len(m)
  <2>1. PICK k \in Nat : k = Len(m)
    BY <1>4
  <2>2. Cardinality(1 .. k) = IF 1 > k THEN 0 ELSE k - 1 + 1
    BY FS_Interval
  <2> QED BY <2>1, <2>2
<1>10. Cardinality(1 .. Len(m)) <= Cardinality(Ranks)
  BY <1>7, <1>8, FS_Injection
<1> QED BY <1>4, <1>8, <1>9, <1>10 DEF m

LEMMA UnrefCompacts == ASSUME IInv, Unref PROVE Store!Next
<1> DEFINE m == Len(tables)
           saved == [w \in Writers |-> Len(merged[w])]
<1>1. visible = current_ /\ visible' = Len(versions) /\ late' = late /\ Memory = [w \in Writers |-> versions[current_].list_[w]]
  <2>1. visible = current_ /\ visible' = Len(versions)
    BY UnrefFacts DEF visible
  <2> QED BY <2>1, UnrefFacts DEF Memory
<1>2. Memory' = NoLists
  BY UnrefShown DEF Memory, NoLists
<1>3. saved \in [Writers -> 0 .. Cardinality(Ranks)]
  BY MergedFits
<1>4. \A w \in Writers : MergedOf(w)
  BY UnrefFacts DEF IInv, MergeInv
<1>5. CASE tables[m].whole
  <2>1. ASSUME NEW w \in Writers
        PROVE  /\ saved[w] <= Len(Memory[w])
               /\ \A i \in saved[w] + 1 .. Len(Memory[w]) : <<w, Memory[w][i]>> \in late
    BY <1>1, <1>4 DEF MergedOf
  <2>2. ASSUME NEW w \in Writers
        PROVE  FlattenSeq(OnDisk(visible, w))' = Disk[w] \o SubSeq(Memory[w], 1, saved[w])
    <3> DEFINE d == OnDisk(current_, w)
               l == versions[current_].list_[w]
               k == merged[w]
    <3>1. OnDisk(visible, w)' = Append(d, k)
      BY <1>5, UnrefShown
    <3>2. d \in Seq(Seq(Ranks)) /\ l \in Seq(Ranks) /\ k \in Seq(Ranks)
      BY UnrefShown
    <3>3. Len(k) <= Len(l) /\ \A p \in 1 .. Len(k) : k[p] = l[p]
      BY <1>4 DEF MergedOf
    <3>4. Disk[w] = FlattenSeq(d) /\ Memory[w] = l /\ saved[w] = Len(k)
      BY <1>1 DEF Disk
    <3> HIDE DEF d, l, k, saved
    <3>5. FlattenSeq(Append(d, k)) = FlattenSeq(d) \o k
      BY <3>2, FlattenAppend
    <3>6. k = SubSeq(l, 1, Len(k))
      <4>1. Len(k) \in Nat /\ Len(l) \in Nat
        BY <3>2, LenProperties
      <4>2. /\ SubSeq(l, 1, Len(k)) \in Seq(Ranks) /\ Len(SubSeq(l, 1, Len(k))) = Len(k)
            /\ \A i \in 1 .. Len(k) : SubSeq(l, 1, Len(k))[i] = l[i]
        BY <3>2, <3>3, <4>1, SMT
      <4> QED BY <3>2, <3>3, <4>2, SeqEqual
    <3> QED BY <3>1, <3>4, <3>5, <3>6
  <2>3. Disk' = [w \in Writers |-> Disk[w] \o SubSeq(Memory[w], 1, saved[w])]
    BY <2>2 DEF Disk
  <2> HIDE DEF saved
  <2> QED BY <1>1, <1>2, <1>3, <2>1, <2>3, Compacted
<1>6. CASE ~tables[m].whole
  <2>1. ASSUME NEW w \in Writers
        PROVE  FlattenSeq(OnDisk(visible, w))' = FlattenSeq(OnDisk(visible, w))
    <3> DEFINE d == OnDisk(current_, w)
    <3>1. OnDisk(visible, w)' = Append(d, <<>>) /\ d \in Seq(Seq(Ranks)) /\ <<>> \in Seq(Ranks)
      BY <1>6, UnrefShown
    <3>2. OnDisk(visible, w) = d
      BY <1>1
    <3> HIDE DEF d
    <3>3. FlattenSeq(Append(d, <<>>)) = FlattenSeq(d) \o <<>>
      BY <3>1, FlattenAppend
    <3>4. FlattenSeq(d) \o <<>> = FlattenSeq(d)
      BY <3>1, FlattenType, ConcatEmptySeq
    <3> QED BY <3>1, <3>2, <3>3, <3>4
  <2>2. Disk' = Disk
    BY <2>1 DEF Disk
  <2> QED BY <1>1, <1>2, <2>2, CompactionFailed
<1> QED BY <1>5, <1>6

-----------------------------------------------------------------------------
LEMMA NextStore == ASSUME IInv, [Next]_vars PROVE [Store!Next]_Store!vars
<1>1. ASSUME NEW w \in Writers,
             \/ listFull(w) \/ Lock(w) \/ checkFull(w) \/ Wait(w) \/ relock(w) \/ readCurrent(w)
             \/ wakeSpuriously(w)
      PROVE  UNCHANGED Store!vars
  BY <1>1, SameVersions
     DEF listFull, Lock, checkFull, Wait, relock, readCurrent, wakeSpuriously, setVars, ghostVars
<1>2. ASSUME NEW w \in Writers, pushBack(w) \/ countAndUnlock(w)
      PROVE  [Store!Next]_Store!vars
  BY <1>2, pushBackHandsOver, countAndUnlockStutters
<1>3. CASE poll \/ merge \/ Boardcast \/ quit \/ stop \/ UNCHANGED vars
  BY <1>3, SameVersions DEF poll, merge, Boardcast, quit, stop, vars, setVars, ghostVars
<1>4. CASE BuildTable \/ apply \/ Unref \/ install
  BY <1>4, BuildTableStutters, applyStutters, UnrefCompacts, installStutters
<1> QED BY <1>1, <1>2, <1>3, <1>4 DEF Next, AppendFrozenList, Compacter

(* Seen through what is on disk and in memory of the version that counts,  *)
(* every step of the Writers, of the Compacter and of the two between each *)
(* other is a hand-over, one whole compaction, or nothing at all.          *)
THEOREM CompactionImplementsStore == Spec => CompactionIsAtomic
<1>1. Init => Store!Init
  BY StoreInit
<1>2. IInv /\ [Next]_vars => [Store!Next]_Store!vars
  BY NextStore
<1> QED BY <1>1, <1>2, VersionsInductive, PTL DEF Spec, CompactionIsAtomic, Store!Spec
=============================================================================
