-------------------------------- MODULE MCVm -------------------------------
(* Two processes; a heap of two slots, whose second slot needs a level 2   *)
(* table that older root tables do not have.  One device has registers of  *)
(* one page, in its middle, the other of two.  A program of one page of    *)
(* the user's, and one that also wants a page of the heap's last slot.     *)
(* The framebuffer is mapped below the stack, among the peripherals, in    *)
(* both slots of the heap or in a section.                                 *)
EXTENDS Vm

CONSTANTS p1, p2

MCProcs == {p1, p2}
MCSymmetry == Permutations(MCProcs)
MCRegisters == {<<1, 1>>, <<0, 3>>}
MCSbrkSizes == {-4, 2, 4}
MCPrograms == {<<1>>, <<1, HeapEnd - 1>>}
MCMmapVas ==
    {StackPages[1] - 1, HeapStart - 1, HeapStart + 1, HeapEnd - 2, HeapEnd}
=============================================================================
