-------------------------------- MODULE Pipe --------------------------------
(***************************************************************************)
(* One pipe: pipefs_file_inode_read, _write and _poll                      *)
(* (kernel/vfs/pipefs/pipefs.cpp) over its ring buffer, under the blocking *)
(* loops of vfs_read and vfs_write (kernel/vfs/vfs.cpp).                   *)
(*                                                                         *)
(* Threads are switched only in sys$yield, so between the poll that        *)
(* succeeds and the return of the call no other thread touches the pipe:   *)
(* `busy' is the thread inside the copying loop.  A poll that fails yields *)
(* and changes nothing, so a blocked thread just stays where it is.        *)
(***************************************************************************)
EXTENDS PipeBytes

vars == <<ring, ends, at, left, busy, sent, received>>

\* pipefs_fs_open_inode cleared the buffer; the threads got their ends from
\* sys$create_pipe and sys$fork, or by opening the pipe by its number.
Init ==
    /\ RingInit
    /\ ends \in [Threads -> SUBSET {"r", "w"}]
    /\ \A t \in Draining : ends[t] = {"r"}
    /\ at = [t \in Threads |-> "user"]
    /\ left = [t \in Threads |-> 0]
    /\ busy = None
    /\ sent = <<>> /\ received = <<>>

-----------------------------------------------------------------------------
sys_read(t, size) ==
    /\ busy = None /\ at[t] = "user" /\ "r" \in ends[t]
    /\ at' = [at EXCEPT ![t] = "read"]
    /\ left' = [left EXCEPT ![t] = size]
    /\ UNCHANGED <<ring, ends, busy, sent, received>>

sys_write(t, size) ==
    /\ busy = None /\ at[t] = "user" /\ "w" \in ends[t]
    /\ at' = [at EXCEPT ![t] = "write"]
    /\ left' = [left EXCEPT ![t] = size]
    /\ UNCHANGED <<ring, ends, busy, sent, received>>

vfs_read_polls_full(t) ==
    /\ busy = None /\ at[t] = "read"
    /\ is_full
    /\ at' = [at EXCEPT ![t] = "reading"]
    /\ busy' = t
    /\ UNCHANGED <<ring, ends, left, sent, received>>

\* vfs_read leaves its polling loop and pipefs_file_inode_read starts.
vfs_read(t) ==
    /\ busy = None /\ at[t] = "read"
    /\ ~ is_empty
    /\ at' = [at EXCEPT ![t] = "reading"]
    /\ busy' = t
    /\ UNCHANGED <<ring, ends, left, sent, received>>

\* Only a read that does not block finds the pipe empty, and returns EOF.
vfs_read_eof(t) ==
    /\ busy = None /\ at[t] = "read" /\ t \in NonBlocking
    /\ is_empty
    /\ at' = [at EXCEPT ![t] = "user"]
    /\ left' = [left EXCEPT ![t] = 0]
    /\ UNCHANGED <<ring, ends, busy, sent, received>>

pipefs_file_inode_read(t) ==
    /\ at[t] = "reading" /\ left[t] > 0 /\ ~ is_empty
    /\ received' = Append(received, data[read_pos])
    /\ pop
    /\ left' = [left EXCEPT ![t] = @ - 1]
    /\ UNCHANGED <<ends, at, busy, sent>>

read_returns(t) ==
    /\ at[t] = "reading" /\ (left[t] = 0 \/ is_empty)
    /\ at' = [at EXCEPT ![t] = "user"]
    /\ left' = [left EXCEPT ![t] = 0]
    /\ busy' = None
    /\ UNCHANGED <<ring, ends, sent, received>>

\* vfs_write leaves its polling loop, or does not poll, and
\* pipefs_file_inode_write starts.
vfs_write(t) ==
    /\ busy = None /\ at[t] = "write"
    /\ t \in NonBlocking \/ ~ is_full
    /\ at' = [at EXCEPT ![t] = "writing"]
    /\ busy' = t
    /\ UNCHANGED <<ring, ends, left, sent, received>>

pipefs_file_inode_write_unchecked(t) ==
    /\ at[t] = "writing" /\ left[t] > 0
    /\ Len(sent) < MaxSent
    /\ \E x \in T : push(x) /\ sent' = Append(sent, x)
    /\ left' = [left EXCEPT ![t] = @ - 1]
    /\ UNCHANGED <<ends, at, busy, received>>

pipefs_file_inode_write(t) ==
    /\ at[t] = "writing" /\ left[t] > 0 /\ ~ is_full
    /\ Len(sent) < MaxSent
    /\ \E x \in T : push(x) /\ sent' = Append(sent, x)
    /\ left' = [left EXCEPT ![t] = @ - 1]
    /\ UNCHANGED <<ends, at, busy, received>>

write_returns(t) ==
    /\ at[t] = "writing" /\ (left[t] = 0 \/ is_full \/ Len(sent) = MaxSent)
    /\ at' = [at EXCEPT ![t] = "user"]
    /\ left' = [left EXCEPT ![t] = 0]
    /\ busy' = None
    /\ UNCHANGED <<ring, ends, sent, received>>

\* sys$close, or the end of the process.
close_end(t, e) ==
    /\ busy = None /\ at[t] = "user" /\ e \in ends[t]
    /\ t \notin Draining
    /\ ends' = [ends EXCEPT ![t] = @ \ {e}]
    /\ UNCHANGED <<ring, at, left, busy, sent, received>>

Copying(t) ==
    \/ vfs_read(t) \/ vfs_read_eof(t)
    \/ pipefs_file_inode_read(t) \/ read_returns(t)
    \/ vfs_write(t) \/ pipefs_file_inode_write(t) \/ write_returns(t)

Next ==
    \E t \in Threads :
      \/ Copying(t)
      \/ \E n \in 0 .. MaxSize :
           sys_write(t, n) \/ ((t \in Draining => n > 0) /\ sys_read(t, n))
      \/ \E e \in {"r", "w"} : close_end(t, e)

Spec == Init /\ [][Next]_vars

\* A copying loop runs to its end.  A draining reader gets its turns with no
\* other thread inside a call (strong fairness, for the calls of others come
\* and go), and nobody but a reader makes a pipe empty again.  That it reads
\* again and again is an assumption about its program.
Fairness ==
    /\ \A t \in Threads : WF_vars(Copying(t))
    /\ \A t \in Draining :
         SF_vars(vfs_read(t)) /\ SF_vars(\E n \in 1 .. MaxSize : sys_read(t, n))

FairSpec == Spec /\ Fairness

-----------------------------------------------------------------------------
(* Properties                                                              *)

\* Every byte a write returned for is read in the end, as long as one reader
\* keeps reading: no wakeup is lost between vfs_poll and sys$yield.
BytesArrive ==
    \A k \in 1 .. MaxSent : Len(sent) >= k ~> Len(received) >= k
=============================================================================
