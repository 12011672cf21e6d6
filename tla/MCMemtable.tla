------------------------------ MODULE MCMemtable ------------------------------
(* Model-checking instance of Memtable: "a" is a prefix of "aa"; "b" is  *)
(* an unrelated key.                                                      *)
EXTENDS Memtable

MCKeys == {<<1>>, <<1, 1>>, <<2>>}
MCSeqNos == 0 .. 3
=============================================================================
