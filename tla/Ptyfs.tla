------------------------------- MODULE Ptyfs -------------------------------
(***************************************************************************)
(* The filesystem of pseudo terminals (kernel/vfs/ptyfs/ptyfs.cpp) under   *)
(* the inode cache of the VFS.  Opening "ptmx" is meant to make a new pty; *)
(* its slave is opened by number; a pty is freed when the filesystem has   *)
(* been told to close both ends.  Vfs models the reference counts for any  *)
(* filesystem; this module adds what ptyfs keeps itself, and what it makes *)
(* of an inode that the cache hands out again.                             *)
(***************************************************************************)
EXTENDS Ptys

vars == <<ptys, refcount, opens, bug, no_memory, reused>>

Null == [live |-> FALSE, closed |-> FALSE, slave_open |-> FALSE]

Pair(closed, slave_open) ==
    [live |-> TRUE, closed |-> closed, slave_open |-> slave_open]

Init ==
    /\ ptys = [id \in Ids |-> Null]
    /\ refcount = [n \in Inodes |-> 0]
    /\ opens = [n \in Inodes |-> 0]
    /\ bug = FALSE /\ no_memory = FALSE /\ reused = {}

-----------------------------------------------------------------------------
(* ptyfs                                                                   *)

\* ptyfs_dir_inode_lookup: the first free pty for "ptmx", a pty that exists
\* for its number.
lookup(n) ==
    IF n.end = "slave" THEN ptys[n.id].live
    ELSE /\ ~ptys[n.id].live
         /\ \A id \in Ids : id < n.id => ptys[id].live

\* create_pty_pair.  Its failure is noticed by nobody.
create_pty_pair(id) ==
    \/ ptys' = [ptys EXCEPT ![id] = Pair(FALSE, FALSE)] /\ UNCHANGED no_memory
    \/ no_memory' = TRUE /\ UNCHANGED ptys

ptyfs_fs_open_inode(n) ==
    IF n.end = "master" THEN create_pty_pair(n.id) /\ UNCHANGED bug
    ELSE /\ ptys' = [ptys EXCEPT ![n.id] =
                       IF @.live THEN Pair(@.closed, TRUE) ELSE @]
         /\ bug' = (bug \/ ~ptys[n.id].live)
         /\ UNCHANGED no_memory

settle_either(pair) == IF pair.closed THEN Null ELSE pair

\* The pair is freed when its master was closed and its slave is not open.
settle(pair) == IF pair.closed /\ ~pair.slave_open THEN Null ELSE pair

ptyfs_fs_close_inode_master_only(n) ==
    IF ~ptys[n.id].live THEN bug' = TRUE /\ UNCHANGED ptys
    ELSE /\ ptys' = [ptys EXCEPT ![n.id] =
                       settle(Pair(@.closed \/ n.end = "master", @.slave_open))]
         /\ UNCHANGED bug

ptyfs_fs_close_inode(n) ==
    IF ~ptys[n.id].live THEN bug' = TRUE /\ UNCHANGED ptys
    ELSE /\ ptys' = [ptys EXCEPT ![n.id] =
                       IF n.end = "master"
                         THEN settle(Pair(TRUE, @.slave_open))
                         ELSE settle(Pair(@.closed, FALSE))]
         /\ UNCHANGED bug

-----------------------------------------------------------------------------
(* vfs.cpp, for the inodes of ptyfs                                        *)

\* lookup_inode and open_inode: only an inode that is not in the icache is
\* opened by the filesystem.  (If the icache has no memory for it, it is closed
\* again at once, which leaves everything as it was.)
vfs_open(n) ==
    /\ lookup(n) /\ opens[n] < MaxOpens
    /\ IF refcount[n] > 0 THEN UNCHANGED <<ptys, bug, no_memory>>
                          ELSE ptyfs_fs_open_inode(n)
    /\ reused' = IF refcount[n] > 0 /\ opens[n] = 0 THEN reused \cup {n} ELSE reused
    /\ refcount' = [refcount EXCEPT ![n] = @ + 1]
    /\ opens' = [opens EXCEPT ![n] = @ + 1]

\* dup2 and fork
vfs_duplicate(n) ==
    /\ opens[n] \in 1 .. MaxOpens - 1
    /\ refcount' = [refcount EXCEPT ![n] = @ + 1]
    /\ opens' = [opens EXCEPT ![n] = @ + 1]
    /\ UNCHANGED <<ptys, bug, no_memory, reused>>

\* close_inode: the last reference is kept when the filesystem closes.
vfs_close(n) ==
    /\ opens[n] > 0
    /\ opens' = [opens EXCEPT ![n] = @ - 1]
    /\ IF refcount[n] > 1
         THEN refcount' = [refcount EXCEPT ![n] = @ - 1]
              /\ UNCHANGED <<ptys, bug>>
         ELSE ptyfs_fs_close_inode(n) /\ UNCHANGED refcount
    /\ UNCHANGED <<no_memory, reused>>

Next ==
    \E n \in Inodes : vfs_open(n) \/ vfs_duplicate(n) \/ vfs_close(n)

Spec == Init /\ [][Next]_vars
=============================================================================
