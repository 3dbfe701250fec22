------------------------- MODULE WritableFileProofs -------------------------
(***************************************************************************)
(* Proofs about WritableFile for every size of the buffer, of an Append    *)
(* and of a file, whatever write(2) takes or refuses and whenever the      *)
(* process dies or the power fails.                                        *)
(***************************************************************************)
EXTENDS WritableFile, SequenceTheorems, TLAPS

-----------------------------------------------------------------------------
(* The inductive invariant.                                                *)

(* s holds bytes in order, the one numbered a before it.                   *)
Consecutive(s, a) == \A i \in 1 .. Len(s) : s[i] = a + i

(* While nothing failed, what is in the file and behind it in the buffer,  *)
(* or during a call in what is still to be written, is all there is.       *)
FlowInv ==
  /\ Consecutive(disk, 0)
  /\ fd_ = "open" /\ status = "ok" /\ call = "none" =>
       Len(disk) + Len(buf_) = total /\ Consecutive(buf_, Len(disk))
  /\ fd_ = "open" /\ call # "none" /\ status = "ok" =>
       /\ Len(disk) + Len(pending) + Len(data) = total
       /\ Consecutive(pending, Len(disk))
       /\ Consecutive(data, Len(disk) + Len(pending))
  /\ call # "Append" => data = <<>>

(* After a failure there is nothing more to write, and only the Close of a *)
(* table is still called.                                                  *)
FailureInv ==
  /\ status = "error" => buf_ = <<>> /\ pending = <<>> /\ data = <<>>
  /\ status = "error" => call \in {"none", "Close"}
  /\ status = "error" /\ kind = "log" => fd_ # "open"
  /\ fd_ # "open" => buf_ = <<>> /\ call = "none"
  /\ call = "none" => pending = <<>>
  /\ fd_ = "closed" => kind = "table" /\ (status = "ok" => Len(disk) = total)

(* Which part of AddRecord a log is in; between two records its buffer is  *)
(* empty, which is why AppendSize need not look at the room that is left.  *)
RecordInv ==
  /\ kind = "table" => nextCall = "any"
  /\ kind = "log" =>
       /\ nextCall \in {"AppendSize", "Append", "Flush"}
       /\ call \in {"none", "Append", "AppendRest", "Flush"}
       /\ call = "Flush" => nextCall = "Flush"
       /\ call \in {"Append", "AppendRest"} => nextCall = "Append"
       /\ nextCall = "AppendSize" => buf_ = <<>>

SyncInv == synced <= durable

IInv == FileTypeOK /\ FlowInv /\ FailureInv /\ RecordInv /\ SyncInv

-----------------------------------------------------------------------------
(* Sequences of consecutive bytes.                                         *)

LEMMA Joined ==
  ASSUME NEW S, NEW s \in Seq(S), NEW t \in Seq(S)
  PROVE  /\ s \o t \in Seq(S) /\ Len(s \o t) = Len(s) + Len(t)
         /\ Len(s) \in Nat /\ Len(t) \in Nat
         /\ \A a \in Nat : Consecutive(s, a) /\ Consecutive(t, a + Len(s)) =>
              Consecutive(s \o t, a)
<1>1. /\ s \o t \in Seq(S) /\ Len(s \o t) = Len(s) + Len(t)
      /\ \A i \in 1 .. Len(s) + Len(t) :
           (s \o t)[i] = IF i <= Len(s) THEN s[i] ELSE t[i - Len(s)]
  BY ConcatProperties
<1>2. Len(s) \in Nat /\ Len(t) \in Nat
  BY LenProperties
<1>3. ASSUME NEW a \in Nat, Consecutive(s, a), Consecutive(t, a + Len(s)),
             NEW i \in 1 .. Len(s) + Len(t)
      PROVE  (s \o t)[i] = a + i
  <2>1. CASE i <= Len(s)
    BY <1>1, <1>2, <1>3, <2>1 DEF Consecutive
  <2>2. CASE ~ (i <= Len(s))
    <3>1. i - Len(s) \in 1 .. Len(t)
      BY <1>2, <2>2
    <3>2. t[i - Len(s)] = a + Len(s) + (i - Len(s))
      BY <1>3, <3>1 DEF Consecutive
    <3> QED BY <1>1, <1>2, <2>2, <3>2
  <2> QED BY <2>1, <2>2
<1> QED BY <1>1, <1>2, <1>3 DEF Consecutive

LEMMA Cut ==
  ASSUME NEW S, NEW s \in Seq(S), NEW n \in 0 .. Len(s)
  PROVE  /\ Len(s) \in Nat
         /\ SubSeq(s, 1, n) \in Seq(S) /\ Len(SubSeq(s, 1, n)) = n
         /\ SubSeq(s, n + 1, Len(s)) \in Seq(S)
         /\ Len(SubSeq(s, n + 1, Len(s))) = Len(s) - n
         /\ \A a \in Nat : Consecutive(s, a) =>
              /\ Consecutive(SubSeq(s, 1, n), a)
              /\ Consecutive(SubSeq(s, n + 1, Len(s)), a + n)
<1>1. Len(s) \in Nat
  BY LenProperties
<1>2. /\ SubSeq(s, 1, n) \in Seq(S) /\ Len(SubSeq(s, 1, n)) = n
      /\ \A i \in 1 .. n : SubSeq(s, 1, n)[i] = s[i]
  BY <1>1, SMT
<1>3. /\ SubSeq(s, n + 1, Len(s)) \in Seq(S)
      /\ Len(SubSeq(s, n + 1, Len(s))) = Len(s) - n
      /\ \A i \in 1 .. Len(s) - n : SubSeq(s, n + 1, Len(s))[i] = s[n + i]
  BY <1>1, SMT
<1>4. ASSUME NEW a \in Nat, Consecutive(s, a)
      PROVE  /\ Consecutive(SubSeq(s, 1, n), a)
             /\ Consecutive(SubSeq(s, n + 1, Len(s)), a + n)
  <2>1. \A i \in 1 .. n : s[i] = a + i
    BY <1>1, <1>4 DEF Consecutive
  <2>2. \A i \in 1 .. Len(s) - n : n + i \in 1 .. Len(s)
    BY <1>1
  <2>3. \A i \in 1 .. Len(s) - n : s[n + i] = a + n + i
    BY <1>1, <1>4, <2>2 DEF Consecutive
  <2> QED BY <1>2, <1>3, <2>1, <2>3 DEF Consecutive
<1> QED BY <1>1, <1>2, <1>3, <1>4

LEMMA BytesAre ==
  ASSUME total \in Nat, NEW n \in Nat
  PROVE  /\ Bytes(n) \in Seq(1 .. total + n) /\ Len(Bytes(n)) = n
         /\ Consecutive(Bytes(n), total)
<1>1. \A i \in 1 .. n : total + i \in 1 .. total + n
  OBVIOUS
<1>2. Bytes(n) \in [1 .. n -> 1 .. total + n]
  BY <1>1 DEF Bytes
<1>3. Bytes(n) \in Seq(1 .. total + n)
  BY <1>2
<1>4. Len(Bytes(n)) = n
  <2>1. DOMAIN Bytes(n) = 1 .. n
    BY <1>2
  <2> QED BY <1>3, <2>1, LenProperties
<1>5. Consecutive(Bytes(n), total)
  BY <1>4 DEF Consecutive, Bytes
<1> QED BY <1>3, <1>4, <1>5

LEMMA EmptyIs == <<>> \in Seq(1 .. total) /\ Len(<<>>) = 0 /\ \A a : Consecutive(<<>>, a)
  BY DEF Consecutive

LEMMA Grows ==
  ASSUME NEW t \in Nat, NEW u \in Nat, t <= u
  PROVE  \A s \in Seq(1 .. t) : s \in Seq(1 .. u)
<1>1. 1 .. t \subseteq 1 .. u
  OBVIOUS
<1> QED BY <1>1, SeqMonotonic

LEMMA Types ==
  ASSUME FileTypeOK
  PROVE  /\ total \in Nat /\ Len(buf_) \in Nat /\ Len(disk) \in Nat
         /\ Len(pending) \in Nat /\ Len(data) \in Nat
         /\ durable \in Nat /\ synced \in Nat /\ durable <= Len(disk)
         /\ kWritableFileBufferSize \in Nat /\ SizeBytes \in Nat
         /\ SizeBytes <= kWritableFileBufferSize
<1>1. /\ Len(buf_) \in Nat /\ Len(disk) \in Nat
      /\ Len(pending) \in Nat /\ Len(data) \in Nat
  BY LenProperties DEF FileTypeOK
<1>2. kWritableFileBufferSize \in Nat /\ SizeBytes \in Nat /\ SizeBytes <= kWritableFileBufferSize
  BY WritableFileAssumption
<1>3. total \in Nat /\ durable \in Nat /\ synced \in Nat /\ durable <= Len(disk)
  BY <1>1, WritableFileAssumption DEF FileTypeOK
<1> QED BY <1>1, <1>2, <1>3

LEMMA InitIInv == ASSUME Init PROVE IInv
<1> USE DEF Init
<1>1. FileTypeOK
  BY EmptyIs, WritableFileAssumption DEF FileTypeOK
<1>2. FlowInv
  BY EmptyIs DEF FlowInv
<1> QED BY <1>1, <1>2 DEF IInv, FailureInv, RecordInv, SyncInv

-----------------------------------------------------------------------------
(* The calls.                                                              *)

LEMMA AppendSizeStep == ASSUME IInv, AppendSize PROVE IInv'
<1> DEFINE t == total + SizeBytes
           b == buf_ \o Bytes(SizeBytes)
<1>1. /\ FileTypeOK /\ FlowInv /\ kind = "log" /\ nextCall = "AppendSize" /\ status = "ok"
      /\ fd_ = "open" /\ call = "none" /\ buf_ = <<>> /\ pending = <<>> /\ data = <<>>
      /\ t <= MaxBytes /\ Len(disk) = total
      /\ buf_' = b /\ total' = t /\ nextCall' = "Append"
      /\ UNCHANGED <<kind, durable, synced, disk, fd_, call, pending, data, status>>
  <2>1. /\ FileTypeOK /\ FlowInv /\ kind = "log" /\ nextCall = "AppendSize" /\ status = "ok"
        /\ fd_ = "open" /\ call = "none" /\ buf_ = <<>> /\ pending = <<>> /\ data = <<>>
    BY DEF IInv, FileTypeOK, FlowInv, FailureInv, RecordInv, AppendSize, Idle
  <2>2. Len(disk) = total
    BY <2>1, Types DEF FlowInv
  <2> QED BY <2>1, <2>2 DEF AppendSize, followedBy, AddRecord, syncVars
<1>2. /\ t \in Nat /\ total \in Nat /\ total <= t /\ durable \in Nat /\ synced \in Nat
      /\ SizeBytes \in Nat /\ SizeBytes <= kWritableFileBufferSize
  BY <1>1, Types
<1>3. b \in Seq(1 .. t) /\ Len(b) = SizeBytes /\ Consecutive(b, total)
  <2>1. /\ Bytes(SizeBytes) \in Seq(1 .. t) /\ Len(Bytes(SizeBytes)) = SizeBytes
        /\ Consecutive(Bytes(SizeBytes), total)
    BY <1>2, BytesAre
  <2>2. b = Bytes(SizeBytes)
    BY <1>1, <2>1, ConcatEmptySeq
  <2> QED BY <2>1, <2>2
<1> HIDE DEF b
<1>4. disk \in Seq(1 .. t) /\ pending \in Seq(1 .. t) /\ data \in Seq(1 .. t)
  <2> HIDE DEF t
  <2> QED BY <1>1, <1>2, Grows DEF FileTypeOK
<1>5. FileTypeOK'
  <2>1. t \in 0 .. MaxBytes /\ synced \in 0 .. t
    BY <1>1, <1>2, WritableFileAssumption DEF FileTypeOK
  <2> HIDE DEF t
  <2> QED BY <1>1, <1>2, <1>3, <1>4, <2>1 DEF FileTypeOK
<1>6. FlowInv'
  BY <1>1, <1>2, <1>3 DEF FlowInv, Consecutive
<1> QED BY <1>1, <1>5, <1>6 DEF IInv, FailureInv, RecordInv, SyncInv

LEMMA AppendStep == ASSUME IInv, NEW n \in 1 .. MaxAppend, AppendSlice(n) PROVE IInv'
<1> DEFINE t == total + n
           room == kWritableFileBufferSize - Len(buf_)
           k == IF n <= room THEN n ELSE room
           head == SubSeq(Bytes(n), 1, k)
           rest == SubSeq(Bytes(n), k + 1, n)
           b == buf_ \o head
<1>1. /\ FileTypeOK /\ FlowInv /\ RecordInv /\ status = "ok" /\ nextCall \in {"Append", "any"}
      /\ fd_ = "open" /\ call = "none" /\ pending = <<>> /\ data = <<>>
      /\ t <= MaxBytes /\ Len(disk) + Len(buf_) = total /\ Consecutive(buf_, Len(disk))
      /\ buf_' = b /\ total' = t
      /\ \/ k = n /\ nextCall' = followedBy("Append") /\ UNCHANGED <<call, pending, data>>
         \/ k < n /\ call' = "Append" /\ pending' = b /\ data' = rest /\ UNCHANGED nextCall
      /\ UNCHANGED <<kind, durable, synced, disk, fd_, status>>
  <2>1. /\ FileTypeOK /\ FlowInv /\ RecordInv /\ status = "ok" /\ nextCall \in {"Append", "any"}
        /\ fd_ = "open" /\ call = "none" /\ pending = <<>> /\ data = <<>>
    BY DEF IInv, FlowInv, FailureInv, AppendSlice, Idle
  <2> QED BY <2>1 DEF AppendSlice, syncVars, FlowInv
<1>2. /\ t \in Nat /\ total \in Nat /\ total <= t /\ durable \in Nat /\ synced \in Nat
      /\ n \in Nat /\ Len(buf_) \in Nat /\ Len(disk) \in Nat
      /\ kWritableFileBufferSize \in Nat /\ room \in Nat /\ k \in 0 .. n /\ k <= room
  <2>1. n \in Nat /\ Len(buf_) <= kWritableFileBufferSize
    BY <1>1, WritableFileAssumption DEF FileTypeOK
  <2> QED BY SMTT(30), <1>1, <2>1, Types
<1>3. /\ buf_ \in Seq(1 .. t) /\ disk \in Seq(1 .. t) /\ pending \in Seq(1 .. t)
      /\ data \in Seq(1 .. t)
  <2> HIDE DEF t
  <2> QED BY <1>1, <1>2, Grows DEF FileTypeOK
<1>4. /\ Bytes(n) \in Seq(1 .. t) /\ Len(Bytes(n)) = n /\ Consecutive(Bytes(n), total)
  BY <1>2, BytesAre
<1>5. /\ head \in Seq(1 .. t) /\ Len(head) = k /\ Consecutive(head, total)
      /\ rest \in Seq(1 .. t) /\ Len(rest) = n - k /\ Consecutive(rest, total + k)
  <2> DEFINE x == Bytes(n)
  <2>1. x \in Seq(1 .. t) /\ Len(x) = n /\ Consecutive(x, total) /\ k \in 0 .. Len(x) /\ total \in Nat
    BY <1>2, <1>4
  <2> HIDE DEF k, t, x
  <2>2. /\ SubSeq(x, 1, k) \in Seq(1 .. t) /\ Len(SubSeq(x, 1, k)) = k
        /\ SubSeq(x, k + 1, Len(x)) \in Seq(1 .. t)
        /\ Len(SubSeq(x, k + 1, Len(x))) = Len(x) - k
        /\ Consecutive(SubSeq(x, 1, k), total)
        /\ Consecutive(SubSeq(x, k + 1, Len(x)), total + k)
    BY ZenonT(40), <2>1, Cut
  <2> QED BY <2>1, <2>2 DEF x
<1>6. /\ b \in Seq(1 .. t) /\ Len(b) = Len(buf_) + k /\ Consecutive(b, Len(disk))
  <2>1. Len(disk) + Len(buf_) = total
    BY <1>1
  <2> HIDE DEF head, t, k
  <2>2. Consecutive(buf_, Len(disk)) /\ Consecutive(head, Len(disk) + Len(buf_))
    BY <1>1, <1>5, <2>1
  <2>3. buf_ \in Seq(1 .. t) /\ head \in Seq(1 .. t) /\ Len(head) = k /\ Len(disk) \in Nat
    BY <1>2, <1>3, <1>5
  <2>4. /\ buf_ \o head \in Seq(1 .. t) /\ Len(buf_ \o head) = Len(buf_) + Len(head)
        /\ Consecutive(buf_ \o head, Len(disk))
    <3> DEFINE S == 1 .. t
               x == buf_
               y == head
               a == Len(disk)
    <3>1. x \in Seq(S) /\ y \in Seq(S) /\ a \in Nat /\ Consecutive(x, a) /\ Consecutive(y, a + Len(x))
      BY <2>2, <2>3
    <3> HIDE DEF b, rest, room, S, x, y, a
    <3>2. x \o y \in Seq(S) /\ Len(x \o y) = Len(x) + Len(y) /\ Consecutive(x \o y, a)
      BY <3>1, Joined
    <3> QED BY <3>2 DEF S, x, y, a
  <2> QED BY <2>3, <2>4
<1> HIDE DEF b, rest, head
<1>7. /\ Len(b) \in Nat /\ Len(b) <= kWritableFileBufferSize /\ Len(disk) + Len(b) = total + k
      /\ Len(disk) + Len(b) + Len(rest) = t
  <2>1. Len(disk) + Len(buf_) = total
    BY <1>1
  <2>2. Len(b) = Len(buf_) + k /\ Len(rest) = n - k
    BY <1>5, <1>6
  <2>3. k <= kWritableFileBufferSize - Len(buf_) /\ k \in Nat
    BY <1>2
  <2> HIDE DEF k
  <2> QED BY <1>2, <2>1, <2>2, <2>3
<1>8. FileTypeOK'
  <2>1. t \in 0 .. MaxBytes /\ synced \in 0 .. t
    BY <1>1, <1>2, WritableFileAssumption DEF FileTypeOK
  <2>2. buf_' \in Seq(1 .. t) /\ Len(buf_') <= kWritableFileBufferSize
    BY <1>1, <1>6, <1>7
  <2>3. pending' \in Seq(1 .. t) /\ data' \in Seq(1 .. t)
    <3> HIDE DEF t, k
    <3> QED BY <1>1, <1>3, <1>5, <1>6
  <2>4. /\ nextCall' \in {"AppendSize", "Append", "Flush", "any"}
        /\ call' \in {"none", "Append"}
    BY <1>1 DEF followedBy, AddRecord
  <2> HIDE DEF t, k
  <2> QED BY <1>1, <1>3, <2>1, <2>2, <2>3, <2>4 DEF FileTypeOK
<1>9. FlowInv'
  <2>1. CASE k = n /\ UNCHANGED <<call, pending, data>>
    <3>1. Len(disk) + Len(b) = t
      BY <1>7, <2>1
    <3> HIDE DEF t, k
    <3> QED BY <1>1, <1>6, <2>1, <3>1 DEF FlowInv, Consecutive
  <2>2. CASE call' = "Append" /\ pending' = b /\ data' = rest
    <3>1. Consecutive(rest, Len(disk) + Len(b))
      BY <1>5, <1>7
    <3> HIDE DEF t, k
    <3> QED BY <1>1, <1>6, <1>7, <2>2, <3>1 DEF FlowInv, Consecutive
  <2> QED BY <1>1, <2>1, <2>2
<1>10. RecordInv' /\ FailureInv'
  <2>1. kind = "log" => nextCall = "Append"
    BY <1>1 DEF RecordInv
  <2> HIDE DEF t, k
  <2> QED BY <1>1, <2>1 DEF FileTypeOK, RecordInv, FailureInv, followedBy, AddRecord
<1> QED BY <1>1, <1>8, <1>9, <1>10 DEF IInv, SyncInv

LEMMA FlushBufferStep ==
  ASSUME IInv, NEW c \in {"Flush", "Sync", "Close"}, Idle, FlushBuffer(c),
         c # "Close" => status = "ok",
         c = "Flush" => nextCall \in {"Flush", "any"},
         c = "Sync" => nextCall = "any",
         c = "Close" => kind = "table"
  PROVE  IInv'
<1>1. /\ FileTypeOK /\ FlowInv /\ fd_ = "open" /\ call = "none" /\ pending = <<>> /\ data = <<>>
      /\ call' = c /\ pending' = buf_
      /\ UNCHANGED <<kind, durable, synced, total, buf_, disk, fd_, data, status, nextCall>>
  BY DEF IInv, FlowInv, FailureInv, Idle, FlushBuffer, syncVars
<1>2. FileTypeOK'
  BY <1>1 DEF FileTypeOK
<1>3. FlowInv'
  <2>1. Len(<<>>) = 0 /\ Len(buf_) \in Nat /\ Len(disk) \in Nat
    BY <1>1, Types
  <2> QED BY <1>1, <2>1 DEF FlowInv, Consecutive
<1>4. FailureInv' /\ RecordInv'
  BY <1>1 DEF IInv, FileTypeOK, FailureInv, RecordInv
<1> QED BY <1>1, <1>2, <1>3, <1>4 DEF IInv, SyncInv

LEMMA writeStep == ASSUME IInv, write PROVE IInv'
<1>1. /\ FileTypeOK /\ FlowInv /\ fd_ = "open" /\ call # "none" /\ pending # <<>> /\ status = "ok"
      /\ Len(disk) + Len(pending) + Len(data) = total /\ Consecutive(disk, 0)
      /\ Consecutive(pending, Len(disk)) /\ Consecutive(data, Len(disk) + Len(pending))
      /\ UNCHANGED <<kind, durable, synced, total, buf_, fd_, call, data, status, nextCall>>
  BY DEF IInv, FileTypeOK, FlowInv, FailureInv, write, syncVars
<1>2. PICK n \in 1 .. Len(pending) :
        /\ disk' = disk \o SubSeq(pending, 1, n)
        /\ pending' = SubSeq(pending, n + 1, Len(pending))
  BY DEF write
<1> DEFINE head == SubSeq(pending, 1, n)
           rest == SubSeq(pending, n + 1, Len(pending))
           d == disk \o head
<1>3. /\ Len(disk) \in Nat /\ Len(pending) \in Nat /\ Len(data) \in Nat /\ n \in 0 .. Len(pending)
      /\ n \in Nat /\ durable \in Nat /\ synced \in Nat /\ durable <= Len(disk) /\ total \in Nat
  BY <1>1, Types
<1>4. /\ head \in Seq(1 .. total) /\ Len(head) = n /\ Consecutive(head, Len(disk))
      /\ rest \in Seq(1 .. total) /\ Len(rest) = Len(pending) - n
      /\ Consecutive(rest, Len(disk) + n)
  <2>1. pending \in Seq(1 .. total) /\ n \in 0 .. Len(pending) /\ Consecutive(pending, Len(disk))
        /\ Len(disk) \in Nat
    BY <1>1, <1>3 DEF FileTypeOK
  <2> HIDE DEF d
  <2> QED BY ZenonT(40), <2>1, Cut
<1> HIDE DEF head, rest
<1>5. d \in Seq(1 .. total) /\ Len(d) = Len(disk) + n /\ Consecutive(d, 0)
  <2>1. Consecutive(head, 0 + Len(disk)) /\ 0 \in Nat
    BY <1>3, <1>4
  <2>2. disk \in Seq(1 .. total) /\ head \in Seq(1 .. total) /\ Len(head) = n /\ Consecutive(disk, 0)
    BY <1>1, <1>4 DEF FileTypeOK
  <2> QED BY <2>1, <2>2, Joined
<1> HIDE DEF d
<1>6. /\ Len(d) + Len(rest) = Len(disk) + Len(pending) /\ durable \in 0 .. Len(d)
      /\ Consecutive(rest, Len(d)) /\ Consecutive(data, Len(d) + Len(rest))
      /\ Len(d) + Len(rest) + Len(data) = total
  <2>1. Len(d) = Len(disk) + n /\ Len(rest) = Len(pending) - n
    BY <1>4, <1>5
  <2>2. /\ Len(d) + Len(rest) = Len(disk) + Len(pending) /\ durable \in 0 .. Len(d)
    BY <1>3, <2>1
  <2> QED BY <1>1, <1>4, <2>1, <2>2
<1>7. disk' = d /\ pending' = rest
  BY <1>2 DEF d, head, rest
<1>8. FileTypeOK'
  BY <1>1, <1>4, <1>5, <1>6, <1>7 DEF FileTypeOK
<1>9. FlowInv'
  BY <1>1, <1>5, <1>6, <1>7 DEF FlowInv, Consecutive
<1> QED BY <1>1, <1>8, <1>9 DEF IInv, FailureInv, RecordInv, SyncInv

LEMMA writeErrorStep == ASSUME IInv, writeError PROVE IInv'
<1>1. /\ FileTypeOK /\ FlowInv /\ fd_ = "open" /\ call # "none"
      /\ status' = "error" /\ buf_' = <<>> /\ call' = "none" /\ pending' = <<>> /\ data' = <<>>
      /\ fd_' = IF call = "Close" THEN "closed" ELSE IF kind = "log" THEN "dead" ELSE "open"
      /\ UNCHANGED <<kind, durable, synced, total, disk, nextCall>>
  BY DEF IInv, writeError, syncVars
<1>2. FileTypeOK'
  BY <1>1, EmptyIs, WritableFileAssumption DEF FileTypeOK
<1>3. FlowInv' /\ FailureInv' /\ RecordInv'
  BY <1>1 DEF IInv, FileTypeOK, FlowInv, FailureInv, RecordInv, Consecutive
<1> QED BY <1>1, <1>2, <1>3 DEF IInv, SyncInv

LEMMA restToBufferStep == ASSUME IInv, restToBuffer PROVE IInv'
<1>1. /\ FileTypeOK /\ FlowInv /\ fd_ = "open" /\ call = "Append" /\ status = "ok" /\ pending = <<>>
      /\ Len(data) < kWritableFileBufferSize
      /\ buf_' = data /\ data' = <<>> /\ call' = "none" /\ nextCall' = followedBy("Append")
      /\ UNCHANGED <<kind, durable, synced, total, disk, fd_, pending, status>>
  BY DEF IInv, FileTypeOK, FailureInv, restToBuffer, Written, Return, syncVars
<1>2. FileTypeOK'
  BY <1>1, EmptyIs, Types DEF FileTypeOK, followedBy, AddRecord
<1>3. FlowInv'
  <2>1. Len(<<>>) = 0 /\ Len(data) \in Nat /\ Len(disk) \in Nat
    BY <1>1, Types
  <2>2. Len(disk) + Len(data) = total /\ Consecutive(data, Len(disk))
    BY <1>1, <2>1 DEF FlowInv
  <2> QED BY <1>1, <2>1, <2>2 DEF FlowInv, Consecutive
<1>4. FailureInv' /\ RecordInv'
  BY <1>1 DEF IInv, FileTypeOK, FailureInv, RecordInv, followedBy, AddRecord
<1> QED BY <1>1, <1>2, <1>3, <1>4 DEF IInv, SyncInv

LEMMA restUnbufferedStep == ASSUME IInv, restUnbuffered PROVE IInv'
<1>1. /\ FileTypeOK /\ FlowInv /\ fd_ = "open" /\ call = "Append" /\ status = "ok" /\ pending = <<>>
      /\ buf_' = <<>> /\ pending' = data /\ data' = <<>> /\ call' = "AppendRest"
      /\ UNCHANGED <<kind, durable, synced, total, disk, fd_, status, nextCall>>
  BY DEF IInv, FileTypeOK, FailureInv, restUnbuffered, Written, syncVars
<1>2. FileTypeOK'
  BY <1>1, EmptyIs, WritableFileAssumption DEF FileTypeOK
<1>3. FlowInv'
  <2>1. Len(<<>>) = 0 /\ Len(data) \in Nat /\ Len(disk) \in Nat
    BY <1>1, Types
  <2>2. Len(disk) + Len(data) = total /\ Consecutive(data, Len(disk))
    BY <1>1, <2>1 DEF FlowInv
  <2> QED BY <1>1, <2>1, <2>2 DEF FlowInv, Consecutive
<1>4. FailureInv' /\ RecordInv'
  BY <1>1 DEF IInv, FileTypeOK, FailureInv, RecordInv
<1> QED BY <1>1, <1>2, <1>3, <1>4 DEF IInv, SyncInv

(* What the end of a call that wrote everything leaves.                    *)
LEMMA AllWritten ==
  ASSUME IInv, Written, call # "Append"
  PROVE  /\ FileTypeOK /\ FlowInv /\ FailureInv /\ RecordInv /\ data = <<>> /\ pending = <<>>
         /\ status = "ok" => Len(disk) + Len(<<>>) = total
         /\ Len(<<>>) = 0
<1>1. /\ FileTypeOK /\ FlowInv /\ FailureInv /\ RecordInv /\ data = <<>> /\ pending = <<>>
      /\ status = "ok" => Len(disk) + Len(<<>>) + Len(<<>>) = total
  BY DEF IInv, FlowInv, Written
<1>2. Len(disk) \in Nat /\ Len(<<>>) = 0
  BY <1>1, Types
<1> QED BY <1>1, <1>2

LEMMA endOfCallStep == ASSUME IInv, endOfCall PROVE IInv'
<1>1. /\ FileTypeOK /\ FlowInv /\ data = <<>> /\ pending = <<>> /\ Len(<<>>) = 0
      /\ status = "ok" => Len(disk) + Len(<<>>) = total
      /\ fd_ = "open" /\ call \in {"AppendRest", "Flush"} /\ buf_' = <<>> /\ call' = "none"
      /\ nextCall' = followedBy(IF call = "Flush" THEN "Flush" ELSE "Append")
      /\ UNCHANGED <<kind, durable, synced, total, disk, fd_, pending, data, status>>
  BY AllWritten DEF endOfCall, Written, Return, syncVars
<1>2. FileTypeOK'
  BY <1>1, EmptyIs, WritableFileAssumption DEF FileTypeOK, followedBy, AddRecord
<1>3. FlowInv' /\ FailureInv' /\ RecordInv'
  BY <1>1 DEF IInv, FileTypeOK, FlowInv, FailureInv, RecordInv, Consecutive, followedBy, AddRecord
<1> QED BY <1>1, <1>2, <1>3 DEF IInv, SyncInv

LEMMA fdatasyncStep == ASSUME IInv, fdatasync PROVE IInv'
<1>1. /\ FileTypeOK /\ FlowInv /\ data = <<>> /\ pending = <<>> /\ Len(<<>>) = 0
      /\ status = "ok" => Len(disk) + Len(<<>>) = total
      /\ fd_ = "open" /\ call = "Sync" /\ kind = "table" /\ status = "ok"
      /\ buf_' = <<>> /\ call' = "none" /\ nextCall' = "any"
      /\ \/ durable' = Len(disk) /\ synced' = total /\ UNCHANGED status
         \/ status' = "error" /\ UNCHANGED <<durable, synced>>
      /\ UNCHANGED <<kind, total, disk, fd_, pending, data>>
  BY AllWritten DEF fdatasync, Written, Return, syncVars, FileTypeOK, FailureInv, RecordInv, followedBy
<1>2. Len(disk) \in Nat /\ total \in Nat /\ Len(disk) = total
  BY <1>1, Types
<1>3. FileTypeOK'
  BY <1>1, <1>2, EmptyIs, WritableFileAssumption DEF FileTypeOK
<1>4. FlowInv' /\ FailureInv' /\ RecordInv'
  BY <1>1 DEF IInv, FileTypeOK, FlowInv, FailureInv, RecordInv, Consecutive
<1>5. SyncInv'
  BY <1>1, <1>2 DEF IInv, SyncInv
<1> QED BY <1>3, <1>4, <1>5 DEF IInv

LEMMA closeStep == ASSUME IInv, close PROVE IInv'
<1>1. /\ FileTypeOK /\ FlowInv /\ data = <<>> /\ pending = <<>> /\ Len(<<>>) = 0
      /\ status = "ok" => Len(disk) + Len(<<>>) = total
      /\ fd_ = "open" /\ call = "Close" /\ kind = "table"
      /\ buf_' = <<>> /\ call' = "none" /\ nextCall' = "any" /\ fd_' = "closed"
      /\ status' \in {status, "error"}
      /\ UNCHANGED <<kind, durable, synced, total, disk, pending, data>>
  BY AllWritten DEF close, Written, Return, syncVars, FileTypeOK, RecordInv, followedBy
<1>2. Len(disk) \in Nat /\ (status = "ok" => Len(disk) = total)
  BY <1>1, Types
<1>3. FileTypeOK'
  BY <1>1, EmptyIs, WritableFileAssumption DEF FileTypeOK
<1>4. FlowInv' /\ FailureInv' /\ RecordInv'
  BY <1>1, <1>2 DEF IInv, FileTypeOK, FlowInv, FailureInv, RecordInv, Consecutive
<1> QED BY <1>1, <1>3, <1>4 DEF IInv, SyncInv

LEMMA crashStep == ASSUME IInv, crash PROVE IInv'
<1>1. /\ FileTypeOK /\ FlowInv /\ fd_' = "dead" /\ buf_' = <<>> /\ call' = "none"
      /\ pending' = <<>> /\ data' = <<>>
      /\ UNCHANGED <<kind, durable, synced, total, disk, status, nextCall>>
  BY DEF IInv, crash, syncVars
<1>2. FileTypeOK'
  BY <1>1, EmptyIs, WritableFileAssumption DEF FileTypeOK
<1>3. FlowInv' /\ FailureInv' /\ RecordInv'
  BY <1>1 DEF IInv, FileTypeOK, FlowInv, FailureInv, RecordInv, Consecutive
<1> QED BY <1>1, <1>2, <1>3 DEF IInv, SyncInv

LEMMA powerLossStep == ASSUME IInv, powerLoss PROVE IInv'
<1>1. /\ FileTypeOK /\ FlowInv /\ fd_' = "off" /\ buf_' = <<>> /\ call' = "none"
      /\ pending' = <<>> /\ data' = <<>>
      /\ UNCHANGED <<kind, durable, synced, total, status, nextCall>>
  BY DEF IInv, powerLoss, syncVars
<1>2. PICK n \in durable .. Len(disk) : disk' = SubSeq(disk, 1, n)
  BY DEF powerLoss
<1> DEFINE d == SubSeq(disk, 1, n)
<1>3. /\ durable \in Nat /\ Len(disk) \in Nat /\ n \in 0 .. Len(disk) /\ durable <= n /\ n \in Nat
  <2>1. durable \in Nat /\ Len(disk) \in Nat
    BY <1>1, Types
  <2> QED BY <2>1
<1>4. d \in Seq(1 .. total) /\ Len(d) = n /\ Consecutive(d, 0)
  <2>1. disk \in Seq(1 .. total) /\ Consecutive(disk, 0) /\ 0 \in Nat
    BY <1>1 DEF FileTypeOK, FlowInv
  <2> QED BY ZenonT(40), <1>3, <2>1, Cut
<1> HIDE DEF d
<1>5. disk' = d
  BY <1>2 DEF d
<1>6. FileTypeOK'
  BY <1>1, <1>3, <1>4, <1>5, EmptyIs, WritableFileAssumption DEF FileTypeOK
<1>7. FlowInv' /\ FailureInv' /\ RecordInv'
  BY <1>1, <1>4, <1>5 DEF IInv, FileTypeOK, FlowInv, FailureInv, RecordInv, Consecutive
<1> QED BY <1>1, <1>6, <1>7 DEF IInv, SyncInv

LEMMA NextIInv == ASSUME IInv, [Next]_vars PROVE IInv'
<1>1. CASE AppendSize
  BY <1>1, AppendSizeStep
<1>2. CASE \E n \in 1 .. MaxAppend : AppendSlice(n)
  BY <1>2, AppendStep
<1>3. CASE Flush
  BY <1>3, FlushBufferStep DEF Flush
<1>4. CASE Sync
  BY <1>4, FlushBufferStep DEF Sync
<1>5. CASE Close
  BY <1>5, FlushBufferStep DEF Close
<1>6. CASE write
  BY <1>6, writeStep
<1>7. CASE writeError
  BY <1>7, writeErrorStep
<1>8. CASE restToBuffer
  BY <1>8, restToBufferStep
<1>9. CASE restUnbuffered
  BY <1>9, restUnbufferedStep
<1>10. CASE endOfCall
  BY <1>10, endOfCallStep
<1>11. CASE fdatasync
  BY <1>11, fdatasyncStep
<1>12. CASE close
  BY <1>12, closeStep
<1>13. CASE crash
  BY <1>13, crashStep
<1>14. CASE powerLoss
  BY <1>14, powerLossStep
<1>15. CASE UNCHANGED vars
  BY <1>15 DEF vars, syncVars, IInv, FileTypeOK, FlowInv, FailureInv, RecordInv, SyncInv, Consecutive
<1> QED BY <1>1, <1>2, <1>3, <1>4, <1>5, <1>6, <1>7, <1>8, <1>9, <1>10, <1>11,
           <1>12, <1>13, <1>14, <1>15 DEF Next

-----------------------------------------------------------------------------
(* The invariant is inductive: where each byte handed over is, through     *)
(* every call, partial write, failure, death and power failure.            *)
THEOREM FileInductive == Spec => []IInv
<1>1. Init => IInv
  BY InitIInv
<1>2. IInv /\ [Next]_vars => IInv'
  BY NextIInv
<1> QED BY <1>1, <1>2, PTL DEF Spec

(* The copies into the buffer of WritableFile stay inside it, AppendSize's *)
(* unchecked one too: AddRecord's flush has emptied the buffer.            *)
THEOREM FileTypeCorrect == Spec => []FileTypeOK
<1>1. IInv => FileTypeOK
  BY DEF IInv
<1> QED BY <1>1, FileInductive, PTL

(* A log or a table is at every moment a prefix of what was handed to it,  *)
(* after a failed write, the death of the process or a power failure too.  *)
THEOREM PrefixCorrect == Spec => []FileIsPrefix
<1>1. IInv => FileIsPrefix
  <2> SUFFICES ASSUME IInv, NEW i \in 1 .. Len(disk)
               PROVE  disk[i] = i
    BY DEF FileIsPrefix
  <2>1. FileTypeOK /\ disk[i] = 0 + i
    BY DEF IInv, FlowInv, Consecutive
  <2> QED BY <2>1, Types
<1> QED BY <1>1, FileInductive, PTL

(* Between calls that succeeded no byte is missing; between two records of *)
(* a log, and in a file closed without an error, all are in the file.      *)
THEOREM LossCorrect == Spec => []NothingLost
<1>1. IInv => NothingLost
  <2> SUFFICES ASSUME IInv, fd_ \in {"open", "closed"}, call = "none", status = "ok"
               PROVE  /\ Len(disk) + Len(buf_) = total
                      /\ \A i \in 1 .. Len(buf_) : buf_[i] = Len(disk) + i
                      /\ fd_ = "closed" \/ nextCall = "AppendSize" => Len(disk) = total
    BY DEF NothingLost
  <2>1. FileTypeOK /\ FlowInv /\ FailureInv /\ RecordInv
    BY DEF IInv
  <2>2. Len(disk) \in Nat /\ Len(buf_) \in Nat /\ Len(<<>>) = 0
    BY <2>1, Types
  <2>3. CASE fd_ = "open"
    <3>1. Len(disk) + Len(buf_) = total /\ Consecutive(buf_, Len(disk))
      BY <2>1, <2>3 DEF FlowInv
    <3>2. nextCall = "AppendSize" => buf_ = <<>>
      BY <2>1 DEF RecordInv, FileTypeOK
    <3> QED BY <2>2, <2>3, <3>1, <3>2 DEF Consecutive
  <2>4. CASE fd_ = "closed"
    BY <2>1, <2>2, <2>4 DEF FailureInv
  <2> QED BY <2>3, <2>4
<1> QED BY <1>1, FileInductive, PTL

(* What a Sync that succeeded covered is in the file ever after.           *)
THEOREM SyncCorrect == Spec => []SyncedIsKept
<1>1. IInv => SyncedIsKept
  <2> SUFFICES ASSUME IInv PROVE Len(disk) >= synced
    BY DEF SyncedIsKept
  <2>1. FileTypeOK /\ synced <= durable
    BY DEF IInv, SyncInv
  <2> QED BY <2>1, Types
<1> QED BY <1>1, FileInductive, PTL
=============================================================================
