------------------------------ MODULE MCInput ------------------------------
(* A keyboard with two buffers, three descriptors less the unused one, a   *)
(* ring of two events, a program that keeps reading and one that polls.    *)
EXTENDS Input

CONSTANTS t1, t2

MCPolls == {[fds |-> <<"negative", "input", "other">>, timeout |-> 1],
            [fds |-> <<"closed">>, timeout |-> 0]}
MCT == 1 .. MaxKeys
=============================================================================
