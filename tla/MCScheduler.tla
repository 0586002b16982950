---------------------------- MODULE MCScheduler ----------------------------
(* Three threads on a table of three slots.                                *)
EXTENDS Scheduler

CONSTANTS t1, t2, t3
=============================================================================
