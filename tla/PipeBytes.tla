------------------------------ MODULE PipeBytes ------------------------------
(***************************************************************************)
(* The threads at a pipe, the bytes they have written and read, and the    *)
(* ring buffer between them: the state that Pipe acts on, and what must    *)
(* hold of it.                                                             *)
(***************************************************************************)
EXTENDS RingBuffer, Sequences

CONSTANTS
    Threads,
    None,           \* no thread
    NonBlocking,    \* threads that opened the pipe with OF_NONBLOCK
    Draining,       \* readers that call read again and never close
    MaxSize,        \* bound: the largest size passed to read and write
    MaxSent         \* bound: bytes written in a behaviour

ASSUME PipeAssumption ==
    /\ None \notin Threads
    /\ NonBlocking \subseteq Threads /\ Draining \subseteq Threads
    /\ MaxSize \in Nat /\ MaxSent \in Nat

VARIABLES
    ends,       \* the ends of the pipe a thread has open
    at,         \* where a thread is
    left,       \* bytes its call still has to copy
    busy,       \* the thread inside a copying loop
    sent,       \* history: bytes taken from writers
    received    \* history: bytes given to readers

PipeTypeOK ==
    /\ RingTypeOK
    /\ ends \in [Threads -> SUBSET {"r", "w"}]
    /\ at \in [Threads -> {"user", "read", "reading", "write", "writing"}]
    /\ left \in [Threads -> 0 .. MaxSize]
    /\ busy \in Threads \cup {None}
    /\ sent \in Seq(T)
    /\ received \in Seq(T)

-----------------------------------------------------------------------------
(* Properties                                                              *)

\* The buffer holds exactly the bytes written and not yet read, oldest first,
\* from read_pos on and around the end of the array.
RingHoldsBytes ==
    /\ Len(sent) = Len(received) + count
    /\ write_pos = position(count + 1)
    /\ \A k \in 1 .. count : data[position(k)] = sent[Len(received) + k]

\* A thread in a copying loop is the only one there.
OneCopies ==
    \A t \in Threads : at[t] \in {"reading", "writing"} <=> busy = t

\* The pipe implements a bounded channel: pipefs_file_inode_write never makes
\* push drop a byte, and pipefs_file_inode_read returns each byte once and in
\* order, whatever mix of readers and writers is at work.
Promise == INSTANCE Channel WITH Capacity <- N, Values <- T
ChannelSpec == Promise!Spec
=============================================================================
