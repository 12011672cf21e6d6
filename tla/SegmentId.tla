------------------------------ MODULE SegmentId ------------------------------
(***************************************************************************)
(* Segment ids of src/src/id.rs.  A string is a sequence of ASCII codes.   *)
(***************************************************************************)
EXTENDS Naturals, Sequences, SequencesExt

(* Mutant: the digits are collected least significant first and never    *)
(* reversed.                                                              *)
RECURSIVE ToBase36Unreversed(_)
ToBase36Unreversed(x) ==
  IF x < 36 THEN <<x>> ELSE <<x % 36>> \o ToBase36Unreversed(x \div 36)

(* to_base36: the digit values, most significant first.  The loop pushes *)
(* x % 36 and divides until x is 0 (so 0 gives one digit), then reverses. *)
RECURSIVE ToBase36(_)
ToBase36(x) ==
  IF x < 36 THEN <<x>> ELSE ToBase36(x \div 36) \o <<x % 36>>

(* Reference: the number a digit sequence denotes in base 36. *)
FromBase36(d) == FoldLeft(LAMBDA acc, m : acc * 36 + m, 0, d)

-----------------------------------------------------------------------------

(* to_base36 is positional notation on every number of S: digits in     *)
(* 0..35, no leading zero, and they denote the number.                    *)
Base36Exact(S) ==
  \A x \in S :
    LET d == ToBase36(x)
    IN  /\ \A i \in DOMAIN d : d[i] \in 0 .. 35
        /\ Len(d) > 1 => d[1] # 0
        /\ FromBase36(d) = x
=============================================================================
