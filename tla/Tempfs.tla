------------------------------- MODULE Tempfs -------------------------------
(***************************************************************************)
(* Files in memory (kernel/vfs/tempfs/tempfs.cpp), as programs use them    *)
(* through vfs_open, vfs_read, vfs_write, vfs_seek and vfs_duplicate.      *)
(*                                                                         *)
(* There is one directory, the root of the filesystem: nothing calls       *)
(* create with the type of a directory, nor unlink.  Polling a file always *)
(* succeeds, so that no call here yields: each is one step.                *)
(***************************************************************************)
EXTENDS Integers, Sequences, FiniteSets, FiniteSetsExt

CONSTANTS
    Names,
    NoName,
    Slots,          \* number of children of a directory (16)
    BLOCK_SIZE,
    Capacity,
    Modulus,        \* offsets are computed modulo this (2^64)
    Fds,            \* descriptors
    Writes,         \* byte sequences that programs write
    Sizes,          \* sizes of the buffers that programs read into
    Offsets         \* offsets that programs pass to seek

ASSUME TempfsAssumption ==
    /\ NoName \notin Names
    /\ Slots \in Nat \ {0} /\ BLOCK_SIZE \in Nat \ {0} /\ Capacity \in Nat
    /\ Modulus \in Nat /\ Capacity < Modulus
    /\ Offsets \subseteq -(Modulus - 1 - Capacity) .. Modulus - 1 - Capacity
    /\ Sizes \subseteq Nat /\ Writes \subseteq Seq(Nat)

VARIABLES
    children,   \* TempInode::directory.children: the name in each slot
    files,      \* TempInode::file: [allocated, size, data]
    used,       \* TempFsFilesystemCtx::used
    isize,      \* Inode::size, or NotCached if the icache has no inode
    custody,    \* of each descriptor
    result      \* what the last call returned

vars == <<children, files, used, isize, custody, result>>

Zero == 0                   \* what fresh memory is set to
NotCached == -1
Refused == [rc |-> -1, bytes |-> <<>>]
Done == [rc |-> 0, bytes |-> <<>>]
Closed == [mode |-> "closed"]

File(n, mode, offset) == [mode |-> mode, name |-> n, offset |-> offset]

Children == {children[i] : i \in 1 .. Slots} \ {NoName}

OpenFiles == {f \in Fds : custody[f].mode \in {"r", "w", "rw"}}
OpenDirs == {f \in Fds : custody[f].mode = "dir"}

Init ==
    /\ children = [i \in 1 .. Slots |-> NoName]
    /\ files = [n \in Names |-> [allocated |-> 0, size |-> 0, data |-> <<>>]]
    /\ used = 0
    /\ isize = [n \in Names |-> NotCached]
    /\ custody = [f \in Fds |-> Closed]
    /\ result = Done

-----------------------------------------------------------------------------
(* Opening and closing                                                     *)

\* The last free slot, since the loop does not stop at the first one.
free_idx == Max({i \in 1 .. Slots : children[i] = NoName})

tempfs_dir_create(n) ==
    /\ n \notin Children /\ NoName \in {children[i] : i \in 1 .. Slots}
    /\ children' = [children EXCEPT ![free_idx] = n]

\* The inode comes from the icache, or is filled in and put there.
cache(n) ==
    isize' = [isize EXCEPT ![n] = IF @ = NotCached THEN files[n].size ELSE @]

open(f, n, mode) ==
    /\ custody[f] = Closed
    /\ n \in Children \/ n \in Children'
    /\ cache(n)
    /\ custody' = [custody EXCEPT ![f] = File(n, mode, 0)]
    /\ result' = Done
    /\ UNCHANGED <<files, used>>

vfs_open(f, n, mode) == UNCHANGED children /\ open(f, n, mode)

vfs_open_creates(f, n, mode) == tempfs_dir_create(n) /\ open(f, n, mode)

\* The file has been created when memory for its Inode is refused.
vfs_open_creates_only(f, n) ==
    /\ custody[f] = Closed /\ tempfs_dir_create(n)
    /\ result' = Refused
    /\ UNCHANGED <<files, used, isize, custody>>

\* There is no such file and none can be made, or no memory for a custody.
vfs_open_fails(f, n) ==
    /\ custody[f] = Closed
    /\ UNCHANGED isize \/ (n \in Children /\ cache(n))
    /\ result' = Refused
    /\ UNCHANGED <<children, files, used, custody>>

\* A listing starts; seen is what it has returned, old what there was before.
vfs_open_directory(f) ==
    /\ custody[f] = Closed
    /\ custody' = [custody EXCEPT ![f] =
         [mode |-> "dir", offset |-> 0, seen |-> {}, old |-> Children,
          ended |-> FALSE]]
    /\ result' = Done
    /\ UNCHANGED <<children, files, used, isize>>

\* The copy has an offset of its own.
vfs_duplicate(f, g) ==
    /\ custody[f] # Closed /\ custody[g] = Closed
    /\ custody' = [custody EXCEPT ![g] = custody[f]]
    /\ result' = Done
    /\ UNCHANGED <<children, files, used, isize>>

vfs_close(f) ==
    /\ custody[f] # Closed
    /\ custody' = [custody EXCEPT ![f] = Closed]
    /\ result' = Done
    /\ UNCHANGED <<children, files, used, isize>>

-----------------------------------------------------------------------------
(* Reading, writing and seeking                                            *)

clamp(low, x, high) ==
    LET top == IF x < high THEN x ELSE high
    IN IF top > low THEN top ELSE low

\* A negative result wraps to a large number, so it becomes the end.
default_checked_seek(filesize, current, whence, offset) ==
    LET newoff == CASE whence = "SEEK_SET" -> offset
                    [] whence = "SEEK_CUR" -> current + offset
                    [] whence = "SEEK_END" -> filesize - offset
    IN clamp(0, newoff % Modulus, filesize)

vfs_seek(f, whence, offset) ==
    /\ f \in OpenFiles
    /\ LET c == custody[f]
       IN custody' = [custody EXCEPT ![f] = File(c.name, c.mode,
            default_checked_seek(isize[c.name], c.offset, whence, offset))]
    /\ result' = Done
    /\ UNCHANGED <<children, files, used, isize>>

Moved(c, size, n) ==
    File(c.name, c.mode, default_checked_seek(size, c.offset, "SEEK_CUR", n))

\* The byte at position k of the file's memory; beyond it there is none.
tempfs_file_inode_read(n, offset, size) ==
    SubSeq(files[n].data, offset + 1, offset + size)

vfs_read(f, size) ==
    /\ f \in OpenFiles /\ custody[f].mode # "w"
    /\ LET c == custody[f]
           n == c.name
           k == IF c.offset + size > isize[n] THEN isize[n] - c.offset ELSE size
       IN /\ result' = [rc |-> k, bytes |-> tempfs_file_inode_read(n, c.offset, k)]
          /\ custody' = [custody EXCEPT ![f] = Moved(c, isize[n], k)]
    /\ UNCHANGED <<children, files, used, isize>>

round_up(size) == ((size + BLOCK_SIZE - 1) \div BLOCK_SIZE) * BLOCK_SIZE

\* ftruncate to a larger size: more memory, if the limit allows it.
required_allocated(n, size) == Max({round_up(size), files[n].allocated})

extra_required(n, size) == required_allocated(n, size) - files[n].allocated

grown(data, n) == data \o [k \in 1 .. n |-> Zero]

copied_from_start(data, offset, s) ==
    [k \in 1 .. Len(data) |-> IF k \in 1 .. Len(s) THEN s[k] ELSE data[k]]

copied(data, offset, s) ==
    [k \in 1 .. Len(data) |->
       IF k \in offset + 1 .. offset + Len(s) THEN s[k - offset] ELSE data[k]]

fits_unchecked(extra) == extra >= 0

fits(extra) == used + extra <= Capacity

vfs_write(f, s) ==
    /\ f \in OpenFiles /\ custody[f].mode # "r"
    /\ LET c == custody[f]
           n == c.name
           end == c.offset + Len(s)
           size == Max({end, isize[n]})
           extra == extra_required(n, size)
       IN /\ fits(extra)
          /\ files' = [files EXCEPT ![n] =
               [allocated |-> @.allocated + extra,
                size |-> IF end > isize[n] THEN end ELSE @.size,
                data |-> copied(grown(@.data, extra), c.offset, s)]]
          /\ used' = used + extra
          /\ isize' = [isize EXCEPT ![n] = size]
          /\ custody' = [custody EXCEPT ![f] = Moved(c, size, Len(s))]
    /\ result' = [rc |-> Len(s), bytes |-> <<>>]
    /\ UNCHANGED children

\* Over the limit of the filesystem, or out of memory.
vfs_write_fails(f, s) ==
    /\ f \in OpenFiles /\ custody[f].mode # "r"
    /\ custody[f].offset + Len(s) > isize[custody[f].name]
    /\ extra_required(custody[f].name, custody[f].offset + Len(s)) > 0
    /\ result' = Refused
    /\ UNCHANGED <<children, files, used, isize, custody>>

-----------------------------------------------------------------------------
(* Listing                                                                 *)

\* Slots of the entries that are left after the first n.
left_short(n) ==
    {i \in 1 .. Slots :
       /\ children[i] # NoName
       /\ Cardinality({j \in 1 .. i : children[j] # NoName}) > n + 1}

left(n) ==
    {i \in 1 .. Slots :
       /\ children[i] # NoName
       /\ Cardinality({j \in 1 .. i : children[j] # NoName}) > n}

\* One entry is asked for at a time: a buffer of several is several of these.
tempfs_dir_getdents(f) ==
    /\ f \in OpenDirs /\ ~custody[f].ended
    /\ LET c == custody[f]
           rest == left(c.offset)
       IN custody' = [custody EXCEPT ![f] =
            [mode |-> "dir", old |-> c.old,
             offset |-> IF rest = {} THEN c.offset ELSE c.offset + 1,
             seen |-> IF rest = {} THEN c.seen
                      ELSE c.seen \cup {children[Min(rest)]},
             ended |-> rest = {}]]
    /\ result' = Done
    /\ UNCHANGED <<children, files, used, isize>>

-----------------------------------------------------------------------------
Next ==
    \/ \E f \in Fds, n \in Names :
         \/ \E mode \in {"r", "w", "rw"} :
              vfs_open(f, n, mode) \/ vfs_open_creates(f, n, mode)
         \/ vfs_open_creates_only(f, n)
         \/ vfs_open_fails(f, n)
    \/ \E f \in Fds :
         \/ vfs_open_directory(f)
         \/ \E g \in Fds : vfs_duplicate(f, g)
         \/ vfs_close(f)
         \/ \E whence \in {"SEEK_SET", "SEEK_CUR", "SEEK_END"},
               offset \in Offsets : vfs_seek(f, whence, offset)
         \/ \E size \in Sizes : vfs_read(f, size)
         \/ \E s \in Writes : vfs_write(f, s) \/ vfs_write_fails(f, s)
         \/ tempfs_dir_getdents(f)

Spec == Init /\ [][Next]_vars

-----------------------------------------------------------------------------
(* Properties                                                              *)

\* The bytes of memory that the files have.
AllocatedBytes == UNION {{n} \X (1 .. files[n].allocated) : n \in Names}

\* The memory of each file is what was asked for and inside the limit, the
\* two sizes kept for a file agree, and no descriptor is beyond its end: so
\* the copies of read and write, which check nothing, stay inside the memory.
MemoryAccounted ==
    /\ used <= Capacity
    /\ used = Cardinality(AllocatedBytes)
    /\ \A n \in Names :
         /\ Len(files[n].data) = files[n].allocated
         /\ files[n].size <= files[n].allocated
         /\ isize[n] # NotCached => isize[n] = files[n].size
    /\ \A f \in OpenFiles :
         /\ custody[f].name \in Children
         /\ custody[f].offset \in 0 .. isize[custody[f].name]

\* Programs see files: what is read at a position is what was last written
\* there, by whichever descriptor, and a refused write leaves no trace.
FilesImplemented ==
    INSTANCE Files WITH
      contents <- [n \in Children |-> SubSeq(files[n].data, 1, files[n].size)]

FilesSpec == FilesImplemented!Spec

\* A listing that has come to its end has returned every entry that was there
\* when it began, although others were created in between, and at any time it
\* has returned entries again at most as often as entries were created.
ListingComplete ==
    \A f \in OpenDirs :
      LET c == custody[f]
      IN /\ c.ended => c.old \subseteq c.seen
         /\ c.offset <= Cardinality(c.seen) + Cardinality(Children \ c.old)
=============================================================================
