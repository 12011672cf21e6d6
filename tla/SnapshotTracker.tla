--------------------------- MODULE SnapshotTracker ---------------------------
(***************************************************************************)
(* The snapshot tracker of src/src/snapshot_tracker.rs: a reference count  *)
(* per open read instant and the "safe to GC" watermark                    *)
(* lowest_freed_instant that compaction and the oracle prune below.        *)
(*                                                                         *)
(* data is the DashMap<Instant, usize>: a function whose domain is the set *)
(* of instants present in the map.  gc() visits the map in DashMap order,  *)
(* which is an unspecified hash order; the model takes every order.        *)
(***************************************************************************)
EXTENDS Naturals, FiniteSets, TLC

CONSTANTS
  SafetyGap,     \* safety_gap: 100 by default, 5 in the unit tests
  SeqNoModulus   \* 2^64 as far as the model can tell: above every instant + gap

ASSUME SafetyGap \in Nat \ {0}
ASSUME SeqNoModulus \in Nat /\ SeqNoModulus > SafetyGap

VARIABLES
  data,          \* instant -> reference count (DashMap entries)
  lowestFreed    \* lowest_freed_instant (behind an RwLock)

trackerVars == <<data, lowestFreed>>

(* u64 subtraction as the release build computes it: wrapping. *)
SubU64(a, b) == (a - b) % SeqNoModulus

TrackerInit ==
  /\ data = [i \in {} |-> 0]
  /\ lowestFreed = 0

(* Mutant: open() inserts a new entry with count 0 instead of 1. *)
OpenedDataZero(d, s) ==
  IF s \in DOMAIN d THEN [d EXCEPT ![s] = @ + 1] ELSE d @@ (s :> 0)

(* open(): entry(seqno).and_modify(+1).or_insert(1) *)
OpenedData(d, s) ==
  IF s \in DOMAIN d THEN [d EXCEPT ![s] = @ + 1] ELSE d @@ (s :> 1)

(* One step of the closure in gc(): lowest_retained uses 0 as "none yet". *)
LowestStep(lo, k) == IF lo = 0 THEN k ELSE IF k < lo THEN k ELSE lo

(* Every value lowest_retained can end with, over all visiting orders. *)
RECURSIVE LowestRetainedOutcomes(_, _)
LowestRetainedOutcomes(lo, S) ==
  IF S = {} THEN {lo}
  ELSE UNION {LowestRetainedOutcomes(LowestStep(lo, k), S \ {k}) : k \in S}

(* Mutant: the threshold comparison is >= instead of >. *)
RetainedAtThreshold(d, watermark) ==
  LET threshold == SubU64(watermark, SafetyGap)
  IN  {k \in DOMAIN d : d[k] > 0 \/ k >= threshold}

(* Mutant: gc forgets that a referenced entry must be kept. *)
RetainedIgnoringRefs(d, watermark) ==
  {k \in DOMAIN d : k > SubU64(watermark, SafetyGap)}

(* The entries gc(watermark) keeps: still referenced or above the threshold. *)
Retained(d, watermark) ==
  LET threshold == SubU64(watermark, SafetyGap)
  IN  {k \in DOMAIN d : d[k] > 0 \/ k > threshold}

(* The new lowest_freed_instant for a given lowest_retained. *)
FreedAfter(lf, lowestRetained) ==
  LET below == IF lowestRetained = 0 THEN 0 ELSE lowestRetained - 1
  IN  IF lf = 0 THEN below ELSE IF below > lf THEN below ELSE lf

(* gc(watermark) applied to map d and mark lf: every outcome it can have, *)
(* as a set of records.                                                   *)
GcOutcomes(d, lf, watermark) ==
  LET kept == Retained(d, watermark)
  IN  { [data |-> [k \in kept |-> d[k]], lowestFreed |-> FreedAfter(lf, lo)] :
          lo \in LowestRetainedOutcomes(0, kept) }

(* close(): decrement, then gc(seqno) when seqno is a multiple of the gap. *)
ClosedOutcomes(d, lf, s) ==
  LET dec == IF s \in DOMAIN d THEN [d EXCEPT ![s] = @ - 1] ELSE d
  IN  IF s % SafetyGap = 0
        THEN GcOutcomes(dec, lf, s)
        ELSE {[data |-> dec, lowestFreed |-> lf]}

Open(s) ==
  /\ data' = OpenedData(data, s)
  /\ UNCHANGED lowestFreed

Close(s) ==
  \E r \in ClosedOutcomes(data, lowestFreed, s) :
    /\ data' = r.data
    /\ lowestFreed' = r.lowestFreed

TrackerTypeOK ==
  /\ DOMAIN data \subseteq Nat
  /\ \A k \in DOMAIN data : data[k] \in Nat
  /\ lowestFreed \in Nat
=============================================================================
