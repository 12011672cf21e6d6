------------------------------ MODULE SortedRun ------------------------------
(***************************************************************************)
(* What a segment MultiWriter promises (spec.md 4.2, property 4): it takes *)
(* a sorted stream of values one at a time and makes them readable, in     *)
(* order, each exactly once, dropping tombstones when evict_tombstones is  *)
(* set.  It either finishes, with everything it took readable, or fails.   *)
(* SegmentWriter refines it.                                               *)
(***************************************************************************)
EXTENDS Sequences

CONSTANT Inputs   \* the sorted streams a writer may be given

VARIABLES
  pending,  \* the values not yet handed to the writer
  out,      \* the values made readable so far
  status,   \* "open", "done" or "failed"
  evict     \* evict_tombstones, fixed when the writer is set up

Kept(v) == IF v.tomb /\ evict THEN <<>> ELSE <<v>>

Init ==
  /\ pending \in Inputs
  /\ out = <<>>
  /\ status = "open"
  /\ evict \in BOOLEAN

Take ==
  /\ status = "open"
  /\ pending # <<>>
  /\ out' = out \o Kept(Head(pending))
  /\ pending' = Tail(pending)
  /\ UNCHANGED <<status, evict>>

Done ==
  /\ status = "open"
  /\ pending = <<>>
  /\ status' = "done"
  /\ UNCHANGED <<pending, out, evict>>

(* A failed writer promises nothing about what it left readable. *)
Fail ==
  /\ status = "open"
  /\ status' = "failed"
  /\ UNCHANGED <<pending, evict>>

Spec == Init /\ [][Take \/ Done \/ Fail]_<<pending, out, status, evict>>
=============================================================================
