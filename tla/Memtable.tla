------------------------------ MODULE Memtable ------------------------------
(***************************************************************************)
(* The memtable of src/lsm-tree/src/memtable/mod.rs (the copy in           *)
(* src/src/memtable/mod.rs has the same get and insert): a SkipMap from    *)
(* ParsedInternalKey (user_key, seqno, value_type) to the user value.      *)
(*                                                                         *)
(* Entries are ordered by user key, then by seqno descending, as the       *)
(* comment in get() describes (the Ord of ParsedInternalKey is not under   *)
(* src/).  A user key is a sequence of bytes, here of letters, so that     *)
(* one key can be a prefix of another; values are abstracted to the       *)
(* value type.  The map is `items`: <<user_key, seqno>> -> value_type.     *)
(* Writers insert concurrently; each insert is atomic in the SkipMap, and *)
(* they may arrive in any seqno order.  A reader's get() is a range scan   *)
(* that moves from entry to entry while the inserts go on: each step takes *)
(* the least entry after the cursor in the map as it is at that moment,   *)
(* which is what a SkipMap range iterator sees (a node linked ahead of the *)
(* cursor is visited, one linked behind it is not).                        *)
(*                                                                         *)
(* Seqnos come from the keyspace counter (outside src/): a writer takes    *)
(* one, then inserts its single key under it, so inserts land in any      *)
(* seqno order.  A restart rebuilds the memtable from the journal and      *)
(* resumes the counter at get_next_seqno() (spec 4.1); writes that held a  *)
(* seqno but had not reached the memtable never returned and are lost.     *)
(***************************************************************************)
EXTENDS Naturals, Sequences, SequencesExt, FiniteSets

CONSTANTS
  Keys,          \* user keys: finite sequences of letters
  SeqNos,        \* the seqnos writers use
  ValueTypes,    \* Value / Tombstone
  MaxItems,      \* bound on the number of entries
  MaxRestarts,   \* bound on the number of restarts
  NoSeqNo,       \* get(key, None)
  NoEntry        \* get() returned None

VARIABLES
  items,         \* the SkipMap
  rpc,           \* the reader: "idle", "scan" (inside get), "done"
  rkey,          \* get's key
  rseq,          \* get's seqno: a number or NoSeqNo
  cursor,        \* the last entry the range iterator yielded
  result,        \* what the last get returned
  seen,          \* history: the exact-key answers at each moment of the get
  counter,       \* the keyspace's next seqno
  pending,       \* seqnos taken by writers that have not inserted yet
  restarts,      \* restarts so far
  written        \* history: every insert that returned, as a record

vars == <<items, rpc, rkey, rseq, cursor, result, seen,
          counter, pending, restarts, written>>
memVars == <<items, rpc, rkey, rseq, cursor, result, seen>>

(* Byte-wise lexicographic order of user keys. *)
RECURSIVE KeyLess(_, _)
KeyLess(a, b) ==
  IF a = <<>> THEN b # <<>>
  ELSE IF b = <<>> THEN FALSE
  ELSE IF Head(a) # Head(b) THEN Head(a) < Head(b)
  ELSE KeyLess(Tail(a), Tail(b))

(* The SkipMap order on internal keys: user key, then Reverse(seqno). *)
EntryLess(e, f) ==
  \/ KeyLess(e[1], f[1])
  \/ e[1] = f[1] /\ e[2] > f[2]

(* ParsedInternalKey::new(prefix, SeqNo::MAX, Tombstone): before every   *)
(* entry of the key, after every entry of a smaller key.                  *)
RangeStart(key) == <<key, Max(SeqNos) + 1>>

(* The next item of the range iterator: the least entry after c. *)
After(m, c) == {e \in DOMAIN m : EntryLess(c, e)}

Least(S) == CHOOSE e \in S : \A f \in S \ {e} : EntryLess(e, f)

(* Mutant: the seqno check written `key.seqno <= seqno`. *)
ReturnsInclusive(e, seqno) == seqno = NoSeqNo \/ e[2] <= seqno

(* Lines 49-56: with Some(seqno) the entry is returned if its seqno is    *)
(* below; with None the first entry of the key is returned.              *)
Returns(e, seqno) == seqno = NoSeqNo \/ e[2] < seqno

(* Mutant: the value is built from the range's start key, SeqNo::MAX,   *)
(* instead of the entry's key.                                            *)
AsValueOfRangeStart(m, e) == [key |-> e[1], seqno |-> Max(SeqNos) + 1, type |-> m[e]]

AsValue(m, e) == [key |-> e[1], seqno |-> e[2], type |-> m[e]]

(* Mutant: the highest seqno itself, without the + 1. *)
NextSeqNoWithoutIncrement(m) ==
  IF DOMAIN m = {} THEN 0
  ELSE CHOOSE s \in {e[2] : e \in DOMAIN m} : \A e \in DOMAIN m : e[2] <= s

(* get_next_seqno() / get_lsn(): the highest seqno plus one, 0 if empty. *)
NextSeqNo(m) ==
  IF DOMAIN m = {} THEN 0
  ELSE 1 + (CHOOSE s \in {e[2] : e \in DOMAIN m} :
              \A e \in DOMAIN m : e[2] <= s)

(* What get() promises (spec 4.1): the newest version of exactly `key`,   *)
(* among those with seqno < s when a snapshot seqno is given.             *)
NewestVisible(m, key, seqno) ==
  LET vis == {e \in DOMAIN m : e[1] = key /\ (seqno = NoSeqNo \/ e[2] < seqno)}
  IN  IF vis = {} THEN NoEntry
      ELSE LET e == CHOOSE x \in vis : \A y \in vis : y[2] <= x[2]
           IN  [key |-> e[1], seqno |-> e[2], type |-> m[e]]

ReadSeqNos == SeqNos \cup {NoSeqNo} \cup {s + 1 : s \in SeqNos}

Init ==
  /\ items = [e \in {} |-> CHOOSE v \in ValueTypes : TRUE]
  /\ rpc = "idle"
  /\ rkey = CHOOSE k \in Keys : TRUE
  /\ rseq = NoSeqNo
  /\ cursor = RangeStart(rkey)
  /\ result = NoEntry
  /\ seen = {}
  /\ counter = 0
  /\ pending = {}
  /\ restarts = 0
  /\ written = {}

(* The reader's view of an insert: while it scans, the answer the exact-  *)
(* key definition gives after the insert is one it may linearise at.      *)
Observed(m) ==
  seen' = IF rpc = "scan" THEN seen \cup {NewestVisible(m, rkey, rseq)} ELSE seen

(* insert(): SkipMap::insert of the internal key, replacing an entry with *)
(* the same key and seqno, by a writer holding that seqno.                *)
Insert(key, seqno, type) ==
  /\ seqno \in pending
  /\ Cardinality(DOMAIN items) < MaxItems
  /\ items' = (<<key, seqno>> :> type) @@ items
  /\ Observed(items')
  /\ pending' = pending \ {seqno}
  /\ written' = written \cup {[key |-> key, seqno |-> seqno, type |-> type]}
  /\ UNCHANGED <<rpc, rkey, rseq, cursor, result, counter, restarts>>

(* A writer takes the next seqno from the counter (fetch_add). *)
Reserve ==
  /\ counter \in SeqNos
  /\ counter' = counter + 1
  /\ pending' = pending \cup {counter}
  /\ UNCHANGED <<memVars, restarts, written>>

(* A restart: the memtable rebuilt from the journal holds what it held;   *)
(* an unfinished get and the writers that had not inserted are gone, and  *)
(* the counter resumes at get_next_seqno() / get_lsn().                   *)
Restart ==
  /\ restarts < MaxRestarts
  /\ restarts' = restarts + 1
  /\ counter' = NextSeqNo(items)
  /\ pending' = {}
  /\ rpc' = "idle"
  /\ UNCHANGED <<items, rkey, rseq, cursor, result, seen, written>>

(* get(key, seqno), lines 20-41: the range iterator is set up at         *)
(* RangeStart(key).                                                       *)
GetBegin(key, seqno) ==
  /\ rpc # "scan"
  /\ rpc' = "scan"
  /\ rkey' = key
  /\ rseq' = seqno
  /\ cursor' = RangeStart(key)
  /\ seen' = {NewestVisible(items, key, seqno)}
  /\ UNCHANGED <<items, result, counter, pending, restarts, written>>

(* One turn of the loop, lines 41-59: take the next entry; past the key's *)
(* prefix, return None; if it passes the seqno check, return it; at the   *)
(* end of the range, return None.                                         *)
GetStep ==
  /\ rpc = "scan"
  /\ LET next == After(items, cursor)
         e == Least(next)
     IN  IF next = {} \/ ~IsPrefix(rkey, e[1]) \/ Returns(e, rseq)
           THEN /\ rpc' = "done"
                /\ result' = IF next = {} \/ ~IsPrefix(rkey, e[1])
                               THEN NoEntry ELSE AsValue(items, e)
                /\ UNCHANGED cursor
           ELSE /\ cursor' = e
                /\ UNCHANGED <<rpc, result>>
  /\ UNCHANGED <<items, rkey, rseq, seen, counter, pending, restarts, written>>

Next ==
  \/ \E k \in Keys, s \in SeqNos, t \in ValueTypes : Insert(k, s, t)
  \/ \E k \in Keys, s \in ReadSeqNos : GetBegin(k, s)
  \/ GetStep
  \/ Reserve
  \/ Restart

Spec == Init /\ [][Next]_vars

-----------------------------------------------------------------------------

TypeOK ==
  /\ DOMAIN items \subseteq Keys \X SeqNos
  /\ \A e \in DOMAIN items : items[e] \in ValueTypes
  /\ rpc \in {"idle", "scan", "done"}
  /\ rkey \in Keys /\ rseq \in ReadSeqNos
  /\ pending \subseteq SeqNos /\ restarts \in 0 .. MaxRestarts
  /\ result \in {NoEntry} \cup [key : Keys, seqno : SeqNos, type : ValueTypes]

(* Point reads are linearizable under concurrent inserts (spec 4.1 and  *)
(* property 2): get() returns what the exact-key definition gives at some *)
(* moment of the call, whatever longer keys share its prefix and whatever *)
(* writers insert, in any seqno order, while the range scan runs.  The    *)
(* one exception is the wrong-key answer of memtable_prefix, possible     *)
(* only at a moment when the key had no visible version.                  *)
GetLinearizable ==
  rpc = "done" =>
    \/ result \in seen
    \/ NoEntry \in seen /\ result # NoEntry /\ result.key # rkey

(* get() never answers with another key's entry. *)
GetReturnsRequestedKey ==
  rpc = "done" /\ result # NoEntry => result.key = rkey

(* No write ever replaces another's version.  SkipMap::insert replaces an *)
(* equal internal key, so this holds only if, across restarts, the counter *)
(* resumed from get_next_seqno() never hands out a seqno that a recovered  *)
(* entry holds: every insert that returned is still in the memtable with  *)
(* its value type, whatever writers were lost in a restart.               *)
VersionsNeverReplaced ==
  \A w \in written :
    <<w.key, w.seqno>> \in DOMAIN items /\ items[<<w.key, w.seqno>>] = w.type
=============================================================================
