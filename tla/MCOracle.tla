------------------------------ MODULE MCOracle ------------------------------
(* Model-checking instance of Oracle: three transaction handles, two keys. *)
EXTENDS Oracle

CONSTANTS t1, t2, t3

MCTxns == {t1, t2, t3}
MCKeys == {"k1", "k2"}

(* Transaction handles are interchangeable. *)
TxnSymmetry == Permutations(MCTxns)

(* Every transaction buffers at least one write. *)
NonEmptyWriteSets == SUBSET MCKeys \ {{}}

(* Transactions may also commit with nothing buffered. *)
AnyWriteSets == SUBSET MCKeys

MCSeqNoModulus == 2^16
=============================================================================
