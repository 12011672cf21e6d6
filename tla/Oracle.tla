------------------------------- MODULE Oracle -------------------------------
(***************************************************************************)
(* Optimistic transactions over the oracle of src/src/tx/oracle.rs and the *)
(* snapshot tracker of src/src/snapshot_tracker.rs.                        *)
(*                                                                         *)
(* A transaction takes a read instant from the shared seqno counter, opens *)
(* it in the snapshot tracker, reads and writes, then commits through      *)
(* Oracle::with_commit: under write_serialize_lock it checks its reads     *)
(* against the writers committed after its instant, closes its snapshot,   *)
(* prunes the committed log below the GC watermark, runs the apply closure *)
(* and, if that succeeds, records its conflict checker at seqno.get().     *)
(*                                                                         *)
(* The transaction layer (begin, the ConflictChecker and the apply closure)*)
(* is not under src/; it is modelled from spec.md sections 4.5 and 5.      *)
(* Values are abstracted away: a conflict checker is its read and write    *)
(* key sets.                                                               *)
(***************************************************************************)
EXTENDS Naturals, FiniteSets, SnapshotTracker

CONSTANTS
  Txns,          \* transaction handles; each runs again after it finishes
  Keys,          \* user keys
  WriteSets,     \* the write sets a transaction may buffer
  InitSeqNo,     \* the counter when the keyspace is opened (0 when fresh)
  MaxSeqNo,      \* no transaction begins once the counter reaches it
  NoTxn

ASSUME WriteSets \subseteq SUBSET Keys
ASSUME InitSeqNo \in Nat /\ MaxSeqNo \in Nat
ASSUME SeqNoModulus > MaxSeqNo + Cardinality(Txns) + SafetyGap

VARIABLES
  seqno,         \* Oracle.seqno, the keyspace-wide SequenceNumberCounter
  committed,     \* write_serialize_lock's BTreeMap: commit ts -> writes
  lockHolder,    \* who holds write_serialize_lock across apply()
  pc,            \* per transaction: "idle", "began", "active", "applying"
  instant,       \* the read instant of each transaction
  reads,         \* keys each transaction read (its ConflictChecker)
  writes,        \* keys each transaction wrote (its ConflictChecker)
  missed,        \* history: keys written by Ok commits after t took its instant
  overtaken,     \* history: the watermark was already past t's instant when
                 \* t opened its snapshot
  lockPoisoned   \* a panic in apply() poisoned write_serialize_lock

vars == <<data, lowestFreed, seqno, committed, lockHolder, pc, instant,
          reads, writes, missed, overtaken, lockPoisoned>>

Live == {"began", "active", "applying"}

(* ConflictChecker::has_conflict: a key this transaction read was written *)
(* by the other one.                                                      *)
HasConflict(t, otherWrites) == reads[t] \cap otherWrites # {}

Init ==
  /\ TrackerInit
  /\ seqno = InitSeqNo
  /\ committed = [ts \in {} |-> {}]
  /\ lockHolder = NoTxn
  /\ pc = [t \in Txns |-> "idle"]
  /\ instant = [t \in Txns |-> 0]
  /\ reads = [t \in Txns |-> {}]
  /\ writes = [t \in Txns |-> {}]
  /\ missed = [t \in Txns |-> {}]
  /\ overtaken = [t \in Txns |-> FALSE]
  /\ lockPoisoned = FALSE

(* Begin: instant <- next read seqno.  The keys the transaction will read *)
(* and buffer are fixed here; only the sets matter to the conflict check. *)
Begin(t) ==
  /\ pc[t] = "idle"
  /\ seqno < MaxSeqNo
  /\ instant' = [instant EXCEPT ![t] = seqno]
  /\ seqno' = seqno + 1
  /\ \E r \in SUBSET Keys, w \in WriteSets :
       /\ reads' = [reads EXCEPT ![t] = r]
       /\ writes' = [writes EXCEPT ![t] = w]
  /\ pc' = [pc EXCEPT ![t] = "began"]
  /\ missed' = [missed EXCEPT ![t] = {}]
  /\ UNCHANGED <<data, lowestFreed, committed, lockHolder, overtaken, lockPoisoned>>

(* Begin, second half: snapshot_tracker.open(instant). *)
OpenSnapshot(t) ==
  /\ pc[t] = "began"
  /\ Open(instant[t])
  /\ pc' = [pc EXCEPT ![t] = "active"]
  /\ overtaken' = [overtaken EXCEPT ![t] = lowestFreed > instant[t]]
  /\ UNCHANGED <<seqno, committed, lockHolder, instant, reads, writes,
                 missed, lockPoisoned>>

(* The forward check of with_commit: any writer recorded at a ts of at   *)
(* least instant + 1 whose writes this transaction read.                 *)
ConflictsWithCommitted(t) ==
  \E ts \in DOMAIN committed :
    ts >= instant[t] + 1 /\ HasConflict(t, committed[ts])

(* committed_txns.retain(|ts, _| *ts > safe_to_gc) *)
PrunedLog(log, safeToGc) ==
  [ts \in {x \in DOMAIN log : x > safeToGc} |-> log[ts]]

(* A handle whose commit returned is idle again, its buffers dropped. *)
Finished(t) ==
  /\ pc' = [pc EXCEPT ![t] = "idle"]
  /\ instant' = [instant EXCEPT ![t] = 0]
  /\ reads' = [reads EXCEPT ![t] = {}]
  /\ writes' = [writes EXCEPT ![t] = {}]
  /\ missed' = [missed EXCEPT ![t] = {}]
  /\ overtaken' = [overtaken EXCEPT ![t] = FALSE]

(* Mutant: the early return on a conflict is missing. *)
CommitValidateIgnoringConflict(t) ==
  /\ pc[t] = "active"
  /\ lockHolder = NoTxn
  /\ ~lockPoisoned
  /\ \E r \in ClosedOutcomes(data, lowestFreed, instant[t]) :
       /\ data' = r.data
       /\ lowestFreed' = r.lowestFreed
       /\ committed' = PrunedLog(committed, r.lowestFreed)
  /\ pc' = [pc EXCEPT ![t] = "applying"]
  /\ lockHolder' = t
  /\ UNCHANGED <<seqno, instant, reads, writes, missed, overtaken, lockPoisoned>>

(* Mutant: with_commit goes on although lock() reported a poisoned mutex *)
(* (the `?` on line 33 dropped, as with into_inner()).                   *)
CommitValidateOnPoisonedLock(t) ==
  /\ pc[t] = "active"
  /\ lockHolder = NoTxn
  /\ LET conflicted == ConflictsWithCommitted(t)
     IN  /\ \E r \in ClosedOutcomes(data, lowestFreed, instant[t]) :
              /\ data' = r.data
              /\ lowestFreed' = r.lowestFreed
              /\ committed' = PrunedLog(committed, r.lowestFreed)
         /\ IF conflicted
              THEN /\ Finished(t)
                   /\ UNCHANGED lockHolder
              ELSE /\ pc' = [pc EXCEPT ![t] = "applying"]
                   /\ lockHolder' = t
                   /\ UNCHANGED <<instant, reads, writes, missed, overtaken>>
  /\ UNCHANGED <<seqno, lockPoisoned>>

(* with_commit up to the apply closure: lock, conflict check against the   *)
(* writers with ts >= instant + 1, snapshot close (and its gc), pruning of *)
(* the committed log at the new watermark.  A conflict unlocks and returns *)
(* Conflicted; otherwise the lock stays held while apply() runs.          *)
CommitValidate(t) ==
  /\ pc[t] = "active"
  /\ lockHolder = NoTxn
  /\ ~lockPoisoned
  /\ LET conflicted == ConflictsWithCommitted(t)
     IN  /\ \E r \in ClosedOutcomes(data, lowestFreed, instant[t]) :
              /\ data' = r.data
              /\ lowestFreed' = r.lowestFreed
              /\ committed' = PrunedLog(committed, r.lowestFreed)
         /\ IF conflicted
              THEN /\ Finished(t)
                   /\ UNCHANGED lockHolder
              ELSE /\ pc' = [pc EXCEPT ![t] = "applying"]
                   /\ lockHolder' = t
                   /\ UNCHANGED <<instant, reads, writes, missed, overtaken>>
  /\ UNCHANGED <<seqno, lockPoisoned>>

(* apply() fails: Aborted, nothing recorded, the lock is released. *)
CommitAbort(t) ==
  /\ pc[t] = "applying"
  /\ Finished(t)
  /\ lockHolder' = NoTxn
  /\ UNCHANGED <<data, lowestFreed, seqno, committed, lockPoisoned>>

(* The history after t's write batch became visible: every other live   *)
(* transaction has now missed t's writes.                                 *)
MissedAfter(t) ==
  [o \in Txns |-> IF o = t THEN {}
                 ELSE IF pc[o] \in Live THEN missed[o] \cup writes[t]
                 ELSE missed[o]]

(* apply() succeeds: the write batch takes one seqno (none when empty),   *)
(* then the checker is inserted at seqno.get() and the lock released.     *)
CommitApply(t) ==
  /\ pc[t] = "applying"
  /\ LET ts == IF writes[t] = {} THEN seqno ELSE seqno + 1
     IN  /\ seqno' = ts
         /\ committed' = (ts :> writes[t]) @@ committed
  /\ pc' = [pc EXCEPT ![t] = "idle"]
  /\ instant' = [instant EXCEPT ![t] = 0]
  /\ reads' = [reads EXCEPT ![t] = {}]
  /\ writes' = [writes EXCEPT ![t] = {}]
  /\ missed' = MissedAfter(t)
  /\ overtaken' = [overtaken EXCEPT ![t] = FALSE]
  /\ lockHolder' = NoTxn
  /\ UNCHANGED <<data, lowestFreed, lockPoisoned>>

(* apply() panics while write_serialize_lock is held: the MutexGuard is    *)
(* dropped during unwinding, which poisons the mutex.  The panic may come  *)
(* before the write batch took its seqno, or after the batch was applied   *)
(* (its writes visible) but before insert() recorded the checker.          *)
CommitPanic(t) ==
  /\ pc[t] = "applying"
  /\ lockPoisoned' = TRUE
  /\ lockHolder' = NoTxn
  /\ \/ /\ UNCHANGED seqno
        /\ missed' = [missed EXCEPT ![t] = {}]
     \/ /\ seqno' = IF writes[t] = {} THEN seqno ELSE seqno + 1
        /\ missed' = MissedAfter(t)
  /\ pc' = [pc EXCEPT ![t] = "idle"]
  /\ instant' = [instant EXCEPT ![t] = 0]
  /\ reads' = [reads EXCEPT ![t] = {}]
  /\ writes' = [writes EXCEPT ![t] = {}]
  /\ overtaken' = [overtaken EXCEPT ![t] = FALSE]
  /\ UNCHANGED <<data, lowestFreed, committed>>

(* with_commit on a poisoned write_serialize_lock: lock() fails and the    *)
(* `?` returns Err(Poisoned) before the conflict check and before          *)
(* close(instant), so the transaction's snapshot stays open.              *)
CommitPoisoned(t) ==
  /\ pc[t] = "active"
  /\ lockHolder = NoTxn
  /\ lockPoisoned
  /\ Finished(t)
  /\ UNCHANGED <<data, lowestFreed, seqno, committed, lockHolder, lockPoisoned>>

Next ==
  \E t \in Txns :
    \/ Begin(t)
    \/ OpenSnapshot(t)
    \/ CommitValidate(t)
    \/ CommitAbort(t)
    \/ CommitApply(t)
    \/ CommitPanic(t)
    \/ CommitPoisoned(t)

Spec == Init /\ [][Next]_vars

-----------------------------------------------------------------------------

TypeOK ==
  /\ TrackerTypeOK
  /\ seqno \in Nat
  /\ DOMAIN committed \subseteq Nat
  /\ \A ts \in DOMAIN committed : committed[ts] \subseteq Keys
  /\ lockHolder \in Txns \cup {NoTxn}
  /\ pc \in [Txns -> {"idle"} \cup Live]
  /\ instant \in [Txns -> Nat]
  /\ reads \in [Txns -> SUBSET Keys]
  /\ writes \in [Txns -> SUBSET Keys]
  /\ missed \in [Txns -> SUBSET Keys]
  /\ overtaken \in [Txns -> BOOLEAN]
  /\ lockPoisoned \in BOOLEAN

(* Serializable commit validation (spec 4.5, property 11): a transaction   *)
(* that with_commit lets through to apply() read no key that another       *)
(* transaction wrote and committed between this one's begin and now.  It   *)
(* is about the conflict check of with_commit together with the pruning   *)
(* of committed_txns at the snapshot tracker's watermark and the insertion *)
(* at seqno.get().  (No other commit can happen while one is applying: it  *)
(* holds write_serialize_lock.)                                            *)
Serializable ==
  \A t \in Txns : pc[t] = "applying" => missed[t] \cap reads[t] = {}

(* The same, for the transactions whose snapshot was opened while the     *)
(* watermark was not yet past their instant.  Begin reads the instant and  *)
(* opens it in two steps; a gc in between can overtake the instant (see    *)
(* Serializable).  For every other transaction, validation must be exact.  *)
SerializableUnlessOvertaken ==
  \A t \in Txns :
    pc[t] = "applying" /\ ~overtaken[t] => missed[t] \cap reads[t] = {}

(* GC watermark safety (spec 4.4): once a snapshot is open with            *)
(* lowest_freed_instant not past its instant, no gc run by another         *)
(* transaction's close moves the watermark past it, so with_commit never   *)
(* prunes a committed writer that the open transaction must be checked     *)
(* against (it keeps ts > watermark and needs ts >= instant + 1).          *)
OpenSnapshotProtected ==
  \A t \in Txns :
    pc[t] = "active" /\ ~overtaken[t] => lowestFreed <= instant[t]

(* A step of with_commit's close that runs gc: t leaves "active" through a  *)
(* lock that is not poisoned, and its instant is a multiple of safety_gap *)
(* (close, lines 54-56).                                                  *)
GcStep(t) ==
  /\ pc[t] = "active" /\ pc'[t] # "active" /\ ~lockPoisoned
  /\ instant[t] % SafetyGap = 0

(* Every snapshot at or below s is closed after the step. *)
ClosedUpTo(s) == \A k \in DOMAIN data' : k <= s => data'[k] = 0

(* Watermark progress (spec property 9, in the stronger form the code     *)
(* gives): when gc runs with watermark w and every snapshot at or below   *)
(* s <= w - safety_gap is closed, get_seqno_safe_to_gc() is at least s    *)
(* afterwards (the spec promises s - safety_gap).  It is about gc's       *)
(* threshold, the 0-as-none fold of lowest_retained, and the -1.          *)
WatermarkCatchesUp ==
  [][\A t \in Txns :
       GcStep(t) =>
         \A s \in 0 .. instant[t] - SafetyGap : ClosedUpTo(s) => lowestFreed' >= s]_vars
=============================================================================
