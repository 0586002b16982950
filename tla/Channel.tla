------------------------------ MODULE Channel ------------------------------
(***************************************************************************)
(* What a pipe promises: the bytes its writers were told are written come  *)
(* out once each and in order, at most Capacity of them are under way.     *)
(***************************************************************************)
EXTENDS Naturals, Sequences

CONSTANTS Capacity, Values

VARIABLES sent, received

Init == sent = <<>> /\ received = <<>>

Put(v) ==
    /\ Len(sent) - Len(received) < Capacity
    /\ sent' = Append(sent, v)
    /\ UNCHANGED received

Get ==
    /\ Len(received) < Len(sent)
    /\ received' = Append(received, sent[Len(received) + 1])
    /\ UNCHANGED sent

Next == Get \/ \E v \in Values : Put(v)

Spec == Init /\ [][Next]_<<sent, received>>
=============================================================================
