---------------------------- MODULE MCPageAlloc ----------------------------
(* One 16KB page: 16 kilobytes of memory.                                  *)
EXTENDS PageAlloc
=============================================================================
