---------------------------- MODULE RingBuffer ----------------------------
(***************************************************************************)
(* RingBuffer<N, T> (kernel/lib/ringbuffer.h): a fixed array with a read   *)
(* and a write position.  push on a full buffer drops the oldest item.     *)
(***************************************************************************)
EXTENDS Naturals

CONSTANTS
    N,      \* capacity
    T       \* the items

ASSUME RingBufferAssumption == N \in Nat \ {0} /\ T # {}

VARIABLES data, read_pos, write_pos, count

ring == <<data, read_pos, write_pos, count>>

Positions == 0 .. N - 1

\* The array of a buffer on the heap starts with whatever the memory held.
RingInit ==
    /\ data \in [Positions -> T]
    /\ read_pos = 0 /\ write_pos = 0 /\ count = 0

is_full == count = N
is_empty == count = 0

push(x) ==
    /\ data' = [data EXCEPT ![write_pos] = x]
    /\ write_pos' = (write_pos + 1) % N
    /\ IF count < N
         THEN count' = count + 1 /\ read_pos' = read_pos
         ELSE count' = count /\ read_pos' = (read_pos + 1) % N

\* pop returns data[read_pos]; on an empty buffer it only returns false.
pop ==
    /\ ~ is_empty
    /\ read_pos' = (read_pos + 1) % N
    /\ count' = count - 1
    /\ UNCHANGED <<data, write_pos>>

\* The position of the k-th item, counted from the oldest one.
position(k) ==
    IF read_pos + k - 1 < N THEN read_pos + k - 1 ELSE read_pos + k - 1 - N

RingTypeOK ==
    /\ data \in [Positions -> T]
    /\ read_pos \in Positions
    /\ write_pos \in Positions
    /\ count \in 0 .. N
=============================================================================
