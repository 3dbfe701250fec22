---------------------------- MODULE WritableFile ----------------------------
(***************************************************************************)
(* The buffered file under the logs and the tables (utils/env.cpp), one    *)
(* write(2) a step: a write may take fewer bytes than asked or fail, and   *)
(* the process may die before the next one.  Bytes are numbered in the     *)
(* order they are handed to the file, so byte i belongs at position i.     *)
(* The power may fail too: of what fdatasync has not confirmed, the disk   *)
(* then holds a first part.                                                *)
(* A log is written by log::Writer::AddRecord alone, a table by            *)
(* TableBuilder and BuildTable, which make no further call but the         *)
(* destructor's Close once a call has failed; AddRecord asserts.           *)
(***************************************************************************)
EXTENDS Integers, Sequences

CONSTANTS
  kWritableFileBufferSize,
  SizeBytes,    \* bytes of the size_t before each log record
  MaxAppend,    \* bound on the bytes of one Append
  MaxBytes      \* bound on the bytes handed to one file

ASSUME WritableFileAssumption ==
  /\ kWritableFileBufferSize \in Nat /\ SizeBytes \in 1 .. kWritableFileBufferSize
  /\ MaxAppend \in Nat /\ MaxBytes \in Nat

VARIABLES
  kind,      \* "log" or "table"
  total,     \* bytes handed to the file
  buf_,      \* buf_[0 .. pos_ - 1]
  disk,      \* what write(2) has taken
  durable,   \* how much of it an fdatasync has confirmed
  synced,    \* bytes handed over when a Sync last succeeded
  fd_,       \* "open", "closed", "dead" with the process, or "off"
  call,      \* the call in progress
  pending,   \* what WriteUnbuffered has still to write
  data,      \* what Append keeps for after FlushBuffer
  status,    \* "error" once a call has failed
  nextCall   \* for a log: which part of AddRecord comes next

syncVars == <<durable, synced>>
vars == <<kind, total, buf_, disk, syncVars, fd_, call, pending, data, status, nextCall>>

(* The next n bytes a caller hands over.                                   *)
Bytes(n) == [i \in 1 .. n |-> total + i]
Idle == fd_ = "open" /\ call = "none"

Init ==
  /\ kind \in {"log", "table"}
  /\ total = 0
  /\ buf_ = <<>> /\ disk = <<>> /\ durable = 0 /\ synced = 0
  /\ fd_ = "open"
  /\ call = "none" /\ pending = <<>> /\ data = <<>>
  /\ status = "ok"
  /\ nextCall = IF kind = "log" THEN "AppendSize" ELSE "any"
-----------------------------------------------------------------------------
(* AddRecord calls AppendSize, Append and Flush: the call that follows c;  *)
(* a variant of it leaves the flush to the buffer.                         *)
AddRecordUnflushed(c) == IF c = "AppendSize" THEN "Append" ELSE "AppendSize"
AddRecord(c) == CASE c = "AppendSize" -> "Append"
                  [] c = "Append" -> "Flush"
                  [] c = "Flush" -> "AppendSize"

followedBy(c) == IF kind = "log" THEN AddRecord(c) ELSE "any"

(* AppendSize copies without looking at the room that is left.             *)
AppendSize ==
  /\ Idle /\ nextCall = "AppendSize" /\ total + SizeBytes <= MaxBytes
  /\ buf_' = buf_ \o Bytes(SizeBytes)
  /\ total' = total + SizeBytes
  /\ nextCall' = followedBy("AppendSize")
  /\ UNCHANGED <<kind, syncVars, disk, fd_, call, pending, data, status>>

(* Append: what fits goes to the buffer; otherwise that is filled up and   *)
(* flushed, and the rest follows.                                          *)
AppendSlice(n) ==
  /\ Idle /\ status = "ok" /\ nextCall \in {"Append", "any"}
  /\ total + n <= MaxBytes
  /\ total' = total + n
  /\ LET room == kWritableFileBufferSize - Len(buf_)
         copy_size == IF n <= room THEN n ELSE room
     IN /\ buf_' = buf_ \o SubSeq(Bytes(n), 1, copy_size)
        /\ \/ /\ copy_size = n
              /\ nextCall' = followedBy("Append")
              /\ UNCHANGED <<call, pending, data>>
           \/ /\ copy_size < n
              /\ call' = "Append"
              /\ pending' = buf_'
              /\ data' = SubSeq(Bytes(n), copy_size + 1, n)
              /\ UNCHANGED nextCall
  /\ UNCHANGED <<kind, syncVars, disk, fd_, status>>

(* Flush, Sync and Close begin with FlushBuffer.                           *)
FlushBuffer(c) ==
  /\ call' = c
  /\ pending' = buf_
  /\ UNCHANGED <<kind, syncVars, total, buf_, disk, fd_, data, status, nextCall>>

Flush == Idle /\ status = "ok" /\ nextCall \in {"Flush", "any"} /\ FlushBuffer("Flush")
(* Variant that syncs what is in the file without flushing.                *)
SyncUnflushed ==
  /\ Idle /\ status = "ok" /\ nextCall = "any"
  /\ call' = "Sync"
  /\ UNCHANGED <<kind, syncVars, total, buf_, disk, fd_, pending, data, status, nextCall>>

Sync == Idle /\ status = "ok" /\ nextCall = "any" /\ FlushBuffer("Sync")
Close == Idle /\ kind = "table" /\ FlushBuffer("Close")

(* One ::write of WriteUnbuffered; one interrupted by a signal is retried  *)
(* and changes nothing.                                                    *)
write ==
  /\ fd_ = "open" /\ call # "none" /\ pending # <<>>
  /\ \E n \in 1 .. Len(pending) :
       /\ disk' = disk \o SubSeq(pending, 1, n)
       /\ pending' = SubSeq(pending, n + 1, Len(pending))
  /\ UNCHANGED <<kind, syncVars, total, buf_, fd_, call, data, status, nextCall>>

(* A failed write ends the call.  FlushBuffer empties the buffer all the   *)
(* same (a variant does not); Close closes all the same; AddRecord's       *)
(* assert kills the process.                                               *)
writeErrorKeepingBuffer ==
  /\ fd_ = "open" /\ call # "none" /\ pending # <<>>
  /\ status' = "error"
  /\ call' = "none" /\ pending' = <<>> /\ data' = <<>>
  /\ fd_' = IF call = "Close" THEN "closed" ELSE IF kind = "log" THEN "dead" ELSE "open"
  /\ UNCHANGED <<kind, syncVars, total, buf_, disk, nextCall>>

writeError ==
  /\ fd_ = "open" /\ call # "none" /\ pending # <<>>
  /\ status' = "error"
  /\ buf_' = <<>>
  /\ call' = "none" /\ pending' = <<>> /\ data' = <<>>
  /\ fd_' = IF call = "Close" THEN "closed" ELSE IF kind = "log" THEN "dead" ELSE "open"
  /\ UNCHANGED <<kind, syncVars, total, disk, nextCall>>

(* All of pending is written and the call goes on.                         *)
Written == fd_ = "open" /\ call # "none" /\ pending = <<>>
Return(c) == call' = "none" /\ nextCall' = followedBy(c)

(* Append after FlushBuffer: a small rest to the buffer, a large one       *)
(* written directly.                                                       *)
restToBuffer ==
  /\ Written /\ call = "Append"
  /\ Len(data) < kWritableFileBufferSize
  /\ buf_' = data /\ data' = <<>>
  /\ Return("Append")
  /\ UNCHANGED <<kind, syncVars, total, disk, fd_, pending, status>>

restUnbuffered ==
  /\ Written /\ call = "Append"
  /\ Len(data) >= kWritableFileBufferSize
  /\ buf_' = <<>>
  /\ pending' = data /\ data' = <<>>
  /\ call' = "AppendRest"
  /\ UNCHANGED <<kind, syncVars, total, disk, fd_, status, nextCall>>

(* Variant of the return of FlushBuffer that forgets pos_ = 0.             *)
endOfCallKeeping ==
  /\ Written /\ call \in {"AppendRest", "Flush"}
  /\ Return(IF call = "Flush" THEN "Flush" ELSE "Append")
  /\ UNCHANGED <<kind, syncVars, total, buf_, disk, fd_, pending, data, status>>

endOfCall ==
  /\ Written /\ call \in {"AppendRest", "Flush"}
  /\ buf_' = <<>>
  /\ Return(IF call = "Flush" THEN "Flush" ELSE "Append")
  /\ UNCHANGED <<kind, syncVars, total, disk, fd_, pending, data, status>>

(* fdatasync and close can fail after all was written.                     *)
fdatasync ==
  /\ Written /\ call = "Sync"
  /\ buf_' = <<>>
  /\ \/ durable' = Len(disk) /\ synced' = total /\ UNCHANGED status
     \/ status' = "error" /\ UNCHANGED syncVars
  /\ Return("Sync")
  /\ UNCHANGED <<kind, total, disk, fd_, pending, data>>

close ==
  /\ Written /\ call = "Close"
  /\ buf_' = <<>>
  /\ status' \in {status, "error"}
  /\ fd_' = "closed"
  /\ Return("Close")
  /\ UNCHANGED <<kind, syncVars, total, disk, pending, data>>

crash ==
  /\ fd_ = "open"
  /\ fd_' = "dead"
  /\ buf_' = <<>>
  /\ call' = "none" /\ pending' = <<>> /\ data' = <<>>
  /\ UNCHANGED <<kind, syncVars, total, disk, status, nextCall>>

powerLoss ==
  /\ fd_ # "off"
  /\ fd_' = "off"
  /\ \E n \in durable .. Len(disk) : disk' = SubSeq(disk, 1, n)
  /\ buf_' = <<>>
  /\ call' = "none" /\ pending' = <<>> /\ data' = <<>>
  /\ UNCHANGED <<kind, syncVars, total, status, nextCall>>

Next == \/ AppendSize \/ (\E n \in 1 .. MaxAppend : AppendSlice(n))
        \/ Flush \/ Sync \/ Close
        \/ write \/ writeError \/ restToBuffer \/ restUnbuffered
        \/ endOfCall \/ fdatasync \/ close \/ crash \/ powerLoss

Spec == Init /\ [][Next]_vars
-----------------------------------------------------------------------------
(* The copies into buf_ stay inside it, AppendSize's unchecked one too.    *)
FileTypeOK ==
  /\ kind \in {"log", "table"}
  /\ total \in 0 .. MaxBytes
  /\ buf_ \in Seq(1 .. total) /\ Len(buf_) <= kWritableFileBufferSize
  /\ disk \in Seq(1 .. total) /\ pending \in Seq(1 .. total) /\ data \in Seq(1 .. total)
  /\ durable \in 0 .. Len(disk) /\ synced \in 0 .. total
  /\ fd_ \in {"open", "closed", "dead", "off"}
  /\ call \in {"none", "Append", "AppendRest", "Flush", "Sync", "Close"}
  /\ status \in {"ok", "error"}
  /\ nextCall \in {"AppendSize", "Append", "Flush", "any"}

(* Whatever fails and whenever the process dies or the power fails, the    *)
(* file is a prefix of what was handed over: no gap, no byte twice, at     *)
(* most the last record of a log torn.                                     *)
FileIsPrefix == \A i \in 1 .. Len(disk) : disk[i] = i

(* Between two calls that succeeded, and once the file was closed without  *)
(* an error, every byte is in the file or, behind it, in the buffer;       *)
(* between two records of a log all are in the file.                       *)
NothingLost ==
  fd_ \in {"open", "closed"} /\ call = "none" /\ status = "ok" =>
    /\ Len(disk) + Len(buf_) = total
    /\ \A i \in 1 .. Len(buf_) : buf_[i] = Len(disk) + i
    /\ fd_ = "closed" \/ nextCall = "AppendSize" => Len(disk) = total

(* What was handed over when a Sync succeeded is in the file for good,     *)
(* whatever fails later: the table of a compaction, if its Sync succeeded, *)
(* may stand for the lists that are freed.                                 *)
SyncedIsKept == Len(disk) >= synced
=============================================================================
