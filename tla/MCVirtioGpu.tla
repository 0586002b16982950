---------------------------- MODULE MCVirtioGpu ----------------------------
(* Two threads that refresh a display through four descriptors, two for    *)
(* each command under way.                                                 *)
EXTENDS VirtioGpu

CONSTANTS t1, t2
=============================================================================
