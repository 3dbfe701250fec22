---------------------------- MODULE ClientStrings ----------------------------
(***************************************************************************)
(* Whose memory a queued entry is made of.  setKey builds its MemEntry     *)
(* from Slices of the caller's strings (utils/dbformat.h, utils/slice.h)   *)
(* and push copies the Slices, not the bytes, into the ring.  The log      *)
(* record is written inside the call; the Writer encodes the entry for its *)
(* list later, from whatever the caller's string holds by then, and the    *)
(* caller was told the set is done.  Module MessageQueue is this system    *)
(* with callers that leave their strings alone.                            *)
(*                                                                         *)
(* A string that is destroyed instead of reused would be read after it was *)
(* freed; here strings live on and only their contents change.             *)
(***************************************************************************)
EXTENDS MessageQueue

VARIABLES
  string,   \* what each client's key string holds
  owner,    \* per number, the client whose string the entry points into
  listed    \* entries as SkipList::insert found them, oldest first

stringVars == <<string, owner, listed>>

StringsInit ==
  /\ Init
  /\ string \in [Clients -> Keys]
  /\ owner = [n \in 1 .. MaxSets |-> NoClient]
  /\ listed = <<>>
-----------------------------------------------------------------------------
set(c, del) ==
  /\ setKey(c, string[c], del)
  /\ owner' = [owner EXCEPT ![idx_] = c]
  /\ UNCHANGED <<string, listed>>

(* Between two calls a client reads the next key into its string.          *)
reuse(c, k) ==
  /\ pc[c] = "idle"
  /\ string' = [string EXCEPT ![c] = k]
  /\ UNCHANGED <<vars, owner, listed>>

(* The key of the entry in the ring, followed to its string.               *)
borrowed(e) == [e EXCEPT !.key = string[owner[e.seq_num]]]

insert ==
  /\ insertFront
  /\ listed' = Append(listed, borrowed(queue_[Slot(r_ptr)]))
  /\ UNCHANGED <<string, owner>>

StringsNext ==
  \/ \E c \in Clients, del \in DelFlags : set(c, del)
  \/ \E c \in Clients, k \in Keys : reuse(c, k)
  \/ insert
  \/ /\ setElsewhere \/ (\E c \in Clients : push(c))
          \/ workRound \/ wrlock \/ mayInsertMessage \/ pop
          \/ AppendFrozenList \/ stop
     /\ UNCHANGED stringVars

StringsSpec == StringsInit /\ [][StringsNext]_<<vars, stringVars>>
-----------------------------------------------------------------------------
(* "Set finished!" (main/test.cpp:87): once setKey has returned, the store *)
(* lists the entry under the key that was set, the key of its log record.  *)
ListedAsLogged ==
  \A i \in DOMAIN listed : listed[i] = log_[i]
=============================================================================
