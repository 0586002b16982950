------------------------------- MODULE Files -------------------------------
(***************************************************************************)
(* What programs expect of the files in a directory: each has a content,   *)
(* which a write changes from a position on, without a gap, and a read     *)
(* returns.  A call may be refused, which changes nothing.                 *)
(***************************************************************************)
EXTENDS Integers, Sequences

CONSTANTS
    Names,
    Writes      \* byte sequences that are written

VARIABLES
    contents,   \* function from the files that exist to their bytes
    result      \* what the last call returned: [rc, bytes]

vars == <<contents, result>>

Refused == [rc |-> -1, bytes |-> <<>>]
Done == [rc |-> 0, bytes |-> <<>>]

Init == contents = <<>> /\ result = Done

\* A file may exist although the call that made it was refused.
Create(n) ==
    /\ n \notin DOMAIN contents
    /\ contents' = [m \in DOMAIN contents \cup {n} |->
                      IF m = n THEN <<>> ELSE contents[m]]
    /\ result' \in {Refused, Done}

\* s with t written over it from position p on.
Overwrite(s, p, t) ==
    [k \in 1 .. IF p + Len(t) > Len(s) THEN p + Len(t) ELSE Len(s) |->
       IF k \in p + 1 .. p + Len(t) THEN t[k - p] ELSE s[k]]

Write(n, p, t) ==
    /\ contents' = [contents EXCEPT ![n] = Overwrite(@, p, t)]
    /\ result' = [rc |-> Len(t), bytes |-> <<>>]

Read(n, p, q) ==
    /\ result' = [rc |-> q - p, bytes |-> SubSeq(contents[n], p + 1, q)]
    /\ UNCHANGED contents

Other == UNCHANGED contents /\ result' \in {Refused, Done}

Next ==
    \/ Other
    \/ \E n \in Names : Create(n)
    \/ \E n \in DOMAIN contents : \E p \in 0 .. Len(contents[n]) :
         \/ \E q \in p .. Len(contents[n]) : Read(n, p, q)
         \/ \E t \in Writes : Write(n, p, t)

Spec == Init /\ [][Next]_vars
=============================================================================
