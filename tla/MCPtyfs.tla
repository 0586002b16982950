------------------------------ MODULE MCPtyfs ------------------------------
(* Instances of Ptyfs with a few ptys.                                     *)
EXTENDS Ptyfs
=============================================================================
