---------------------------- MODULE MCVirtioBlk ----------------------------
(* Two sectors, two frames a request can be in, one answer that is owed    *)
(* when a read begins; indices that wrap soon.                             *)
EXTENDS VirtioBlk

CONSTANTS s1, s2, f1, f2
=============================================================================
