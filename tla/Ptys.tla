-------------------------------- MODULE Ptys --------------------------------
(***************************************************************************)
(* The ptys of the filesystem of pseudo terminals and the open files of    *)
(* their ends: the state that Ptyfs acts on, and what must hold of it.     *)
(***************************************************************************)
EXTENDS Naturals

CONSTANTS
    MaxPtys,        \* MAX_OPEN_PTYS
    MaxOpens        \* bound: open files of one inode

ASSUME PtysAssumption == MaxPtys \in Nat /\ MaxOpens \in Nat

Ids == 0 .. MaxPtys - 1
Inodes == [end : {"master", "slave"}, id : Ids]
Master(id) == [end |-> "master", id |-> id]
Slave(id) == [end |-> "slave", id |-> id]

VARIABLES
    ptys,       \* masters and slaves: both null, or one pair
    refcount,   \* Inode::refcount, 0 when the inode is not in the icache
    opens,      \* open files of an inode
    bug,        \* whether a message "this is a bug" was logged
    no_memory,  \* history: whether create_pty_pair ever failed
    reused      \* history: inodes opened from the icache after a last close

PtysTypeOK ==
    /\ ptys \in [Ids -> [live : BOOLEAN, closed : BOOLEAN,
                         slave_open : BOOLEAN]]
    /\ refcount \in [Inodes -> 0 .. MaxOpens + 1]
    /\ opens \in [Inodes -> 0 .. MaxOpens]
    /\ bug \in BOOLEAN /\ no_memory \in BOOLEAN /\ reused \subseteq Inodes

-----------------------------------------------------------------------------
(* Properties                                                              *)

\* No pty is leaked: once every file of both ends has been closed, in
\* whichever order and however often the ends were duplicated and opened
\* again, the pair has been freed.
ClosedPtysFreed ==
    \A id \in Ids :
      opens[Master(id)] = 0 /\ opens[Slave(id)] = 0 => ~ptys[id].live

\* The messages of ptyfs_fs_open_inode and ptyfs_fs_close_inode that end in
\* "(this is a bug)" are not logged as long as there is memory for every pty:
\* whenever the filesystem is told to open a slave or to close an end, the pair
\* exists.
NeverABug == bug => no_memory

\* get_device_by_inode finds a device for every open file, whichever end is
\* closed first, as long as there is memory for every pty; except for an inode
\* that the icache kept after its last close, which open_inode hands out again
\* without asking the filesystem to open it.
OpenFilesHaveDevice ==
    \A n \in Inodes :
      opens[n] > 0 => ptys[n.id].live \/ no_memory \/ n \in reused

\* A pair of a pty's ends exists as long as one of them is open and no longer,
\* in whichever order the ends are opened, duplicated and closed.
PairsSound == PtysTypeOK /\ ClosedPtysFreed /\ NeverABug
=============================================================================
