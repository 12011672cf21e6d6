------------------------- MODULE MCDescriptorTable -------------------------
(* Model-checking instance of DescriptorTable. *)
EXTENDS DescriptorTable

CONSTANTS s1, s2, s3, r1, r2

MCIds == {s1, s2, s3}
MCThreads == {r1, r2}

(* One reader: what the table does without any race. *)
MCOneThread == {r1}

(* Reader threads are interchangeable. *)
ThreadSymmetry == Permutations(MCThreads)
=============================================================================
