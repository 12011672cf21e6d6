--------------------------- MODULE MCSegmentWriter ---------------------------
(* Model-checking instance of SegmentWriter, with the id format of        *)
(* SegmentId.                                                             *)
EXTENDS SegmentWriter, SegmentId

(* 0..80 covers one and two digits and the carry at 36; the rest sit at  *)
(* the boundaries of three and four digits.                               *)
MCBase36Inputs == (0 .. 80) \cup {1295, 1296, 1297, 46655, 46656}

(* to_base36 (id.rs 6-20) is positional notation on the numbers above and *)
(* on every id number the run has generated so far: digits in 0..35, no  *)
(* leading zero, denoting the number.  It is about the digit loop and     *)
(* the final reversal that generate_segment_id relies on for each field.  *)
ToBase36Correct == Base36Exact(MCBase36Inputs \cup (1 .. nextId))
=============================================================================
