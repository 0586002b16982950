----------------------------- MODULE MCTempfs -----------------------------
(* Instances of Tempfs: two files of a few bytes.                          *)
EXTENDS Tempfs

MCWrites == {<<>>, <<1>>, <<1, 2>>}

MCOffsets == {-2, 1}

=============================================================================
