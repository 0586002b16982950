-------------------------------- MODULE Vfs --------------------------------
(***************************************************************************)
(* The virtual file system: the inode cache and its reference counts       *)
(* (kernel/vfs/vfs.cpp, kernel/vfs/fs.cpp), the FileCustody objects that   *)
(* stand for open files, and the per-process table of open files that the  *)
(* system calls of kernel/scheduler.cpp work on.                           *)
(*                                                                         *)
(* The kernel runs on one CPU and switches threads only inside sys$yield,  *)
(* which no function of this module calls: a system call runs to its end   *)
(* before another one starts.  Its loops (one path component, one file     *)
(* descriptor per iteration) are still one step per iteration; the         *)
(* variables from pc on are the locals of the call in progress, and every  *)
(* other call waits until pc is "idle".                                    *)
(*                                                                         *)
(* An inode is named by its position in the tree, which stands for the     *)
(* pair (filesystem, identifier).  malloc may fail at any call.            *)
(***************************************************************************)
EXTENDS Naturals, Sequences, FiniteSets

CONSTANTS
    Procs,      \* processes
    FirstProc,  \* the process of create_first_process
    MaxFd,      \* length of Process::openfiles (16 in scheduler.h)
    Custodies,  \* addresses malloc may return for a FileCustody
    Nodes,      \* inodes of every mounted filesystem
    Mounts,     \* the root inode of every mounted filesystem
    Dirs,       \* inodes of type Directory
    ParentOf,   \* the directory an inode is an entry of
    OnMedium,   \* inodes that exist when the kernel boots
    Pipes,      \* inodes of the pipe filesystem that lookup("new") invents
    PipeRoot,   \* root of the pipe filesystem
    Writable,   \* directories whose filesystem implements create
    New,        \* the name "new" of the pipe filesystem
    None,       \* the null pointer
    Paths,      \* canonicalized paths that processes open: [root, comps]
    MaxRef      \* bound: calls that take references start below it

Fds == 0 .. MaxFd - 1
Names == (Nodes \ Pipes) \cup {New}

ASSUME VfsAssumption ==
    /\ FirstProc \in Procs
    /\ MaxFd \in Nat \ {0}
    /\ MaxRef \in Nat
    /\ IsFiniteSet(Custodies)
    /\ Mounts \subseteq Dirs /\ Dirs \subseteq Nodes
    /\ PipeRoot \in Mounts
    /\ Pipes \subseteq Nodes \ Dirs
    /\ OnMedium \subseteq Nodes \ Pipes /\ Mounts \subseteq OnMedium
    /\ Writable \subseteq Dirs
    /\ ParentOf \in [Nodes -> Dirs \cup {None}]
    /\ \A m \in Mounts : ParentOf[m] = None
    /\ None \notin Nodes \cup Custodies \cup {New}
    /\ New \notin Nodes
    /\ Paths \subseteq [root : Mounts, comps : Seq(Names)]

VARIABLES
    icache,     \* inodes that have an entry in their filesystem's icache
    exists,     \* inodes the filesystem's lookup can produce
    inodes,     \* Inode::refcount, and what the filesystem was last told
    custody,    \* the inode of each allocated FileCustody
    openfiles,  \* Process::openfiles
    pstate,     \* life of a process
    kept,       \* history: parents vfs_open never closed, per inode
    \* Local variables of the system call in progress:
    pc,         \* how far it is
    call,       \* which call, by which process, with which flags
    slot,       \* the descriptor sys$open chose, or a loop's index
    rest,       \* traverse_in_fs: what is left of the path
    parent,     \* traverse_in_fs, vfs_open: parent
    inode,      \* traverse_in_fs, vfs_open: inode
    sender      \* vfs_create_pipe: sender

files == <<icache, exists, inodes, custody, openfiles, kept>>
locals == <<pc, call, slot, rest, parent, inode, sender>>
vars == <<files, pstate, locals>>

Call == [kind : {"open", "pipe", "fork", "reap"}, proc : Procs, child : Procs,
         create : BOOLEAN, directory : BOOLEAN]

CallOf(kind, p, q, create, directory) ==
    [kind |-> kind, proc |-> p, child |-> q, create |-> create,
     directory |-> directory]

NoCall == CallOf("open", FirstProc, FirstProc, FALSE, FALSE)

InodeTable == [Nodes -> [ref : Nat, fs : {"never", "open", "closed"}]]

CustodyHeap == [Custodies -> Nodes \cup {None}]

TypeOK ==
    /\ icache \subseteq Nodes
    /\ exists \subseteq Nodes
    /\ inodes \in InodeTable
    /\ custody \in CustodyHeap
    /\ openfiles \in [Procs -> [Fds -> Custodies \cup {None}]]
    /\ pstate \in [Procs -> {"none", "alive", "zombie"}]
    /\ kept \in [Nodes -> Nat]
    /\ pc \in {"idle", "walk", "missing", "pipe", "fork", "reap", "undefined"}
    /\ call \in Call
    /\ slot \in 0 .. MaxFd
    /\ rest \in Seq(Names)
    /\ parent \in Nodes \cup {None}
    /\ inode \in Nodes \cup {None}
    /\ sender \in Custodies \cup {None}

-----------------------------------------------------------------------------
(* Inodes.  The filesystem's own open_inode is called only for a reference *)
(* count of 0; close_inode calls the filesystem's when the count is 1, and *)
(* then leaves both the count and the icache entry alone.                  *)

open_inode(t, n) ==
    IF t[n].ref > 0
      THEN [t EXCEPT ![n] = [ref |-> t[n].ref + 1, fs |-> t[n].fs]]
      ELSE [t EXCEPT ![n] = [ref |-> 1, fs |-> "open"]]

close_inode_early(t, n) ==
    IF n = None THEN t
    ELSE IF t[n].ref > 2
      THEN [t EXCEPT ![n] = [ref |-> t[n].ref - 1, fs |-> t[n].fs]]
      ELSE [t EXCEPT ![n] = [ref |-> t[n].ref, fs |-> "closed"]]

close_inode(t, n) ==
    IF n = None THEN t
    ELSE IF t[n].ref > 1
      THEN [t EXCEPT ![n] = [ref |-> t[n].ref - 1, fs |-> t[n].fs]]
      ELSE [t EXCEPT ![n] = [ref |-> t[n].ref, fs |-> "closed"]]

vfs_mount(n) ==
    IF n \in Mounts THEN [ref |-> 1, fs |-> "open"]
                    ELSE [ref |-> 0, fs |-> "never"]

\* What dir_ops->lookup of directory d can produce for a name: at most one
\* inode, except that "new" in the pipe filesystem is a fresh one every time.
lookup(d, name) ==
    IF name = New
      THEN IF d = PipeRoot THEN Pipes \ exists ELSE {}
      ELSE {n \in exists : n = name /\ ParentOf[n] = d}

FirstFree(p, fd) ==
    /\ openfiles[p][fd] = None
    /\ \A e \in Fds : e < fd => openfiles[p][e] # None

\* Stays within the named bounds: references below MaxRef, and a pipe left to
\* invent.
WithinBounds(path) ==
    /\ \A n \in Nodes : inodes[n].ref < MaxRef
    /\ (\E i \in DOMAIN path.comps : path.comps[i] = New)
         => Pipes \ exists # {}

Init ==
    /\ icache = Mounts
    /\ exists = OnMedium
    /\ inodes = [n \in Nodes |-> vfs_mount(n)]
    /\ custody = [c \in Custodies |-> None]
    /\ openfiles = [p \in Procs |-> [fd \in Fds |-> None]]
    /\ pstate = [p \in Procs |-> IF p = FirstProc THEN "alive" ELSE "none"]
    /\ kept = [n \in Nodes |-> 0]
    /\ pc = "idle" /\ call = NoCall /\ slot = 0 /\ rest = <<>>
    /\ parent = None /\ inode = None /\ sender = None

\* The call ends (or the kernel's behaviour does): its locals are gone.
Leave(end) ==
    /\ pc' = end /\ call' = NoCall /\ slot' = 0 /\ rest' = <<>>
    /\ parent' = None /\ inode' = None /\ sender' = None

Return == Leave("idle")

-----------------------------------------------------------------------------
(* vfs_open                                                                *)

\* sys$open up to the loop of traverse_in_fs: the first free descriptor is
\* chosen, the mount point found and its root inode opened.
sys_open(p, path, create, directory) ==
    /\ pc = "idle" /\ pstate[p] = "alive" /\ WithinBounds(path)
    /\ \E fd \in Fds : FirstFree(p, fd) /\ slot' = fd
    /\ pc' = "walk"
    /\ call' = CallOf("open", p, FirstProc, create, directory)
    /\ rest' = path.comps
    /\ inode' = path.root
    /\ inodes' = open_inode(inodes, path.root)
    /\ UNCHANGED <<icache, exists, custody, openfiles, kept, pstate, parent,
                   sender>>

\* sys$create_pipe: vfs_create_pipe opens /pipe/new before any descriptor is
\* looked for.
sys_create_pipe(p) ==
    /\ pc = "idle" /\ pstate[p] = "alive"
    /\ WithinBounds([root |-> PipeRoot, comps |-> <<New>>])
    /\ pc' = "walk"
    /\ call' = CallOf("pipe", p, FirstProc, TRUE, FALSE)
    /\ rest' = <<New>>
    /\ inode' = PipeRoot
    /\ inodes' = open_inode(inodes, PipeRoot)
    /\ UNCHANGED <<icache, exists, custody, openfiles, kept, pstate, slot,
                   parent, sender>>

\* One iteration of traverse_in_fs: the grandparent is closed, the component
\* looked up, and its inode taken from the icache or opened and inserted.
traverse_found(n) ==
    /\ pc = "walk" /\ rest # <<>>
    /\ inode \in Dirs
    /\ n \in lookup(inode, Head(rest))
    /\ inodes' = open_inode(close_inode(inodes, parent), n)
    /\ icache' = icache \cup {n}
    /\ exists' = exists \cup {n}
    /\ parent' = inode /\ inode' = n /\ rest' = Tail(rest)
    /\ UNCHANGED <<custody, openfiles, kept, pstate, pc, call, slot, sender>>

\* The filesystem does not know the name, or an inode that is not cached
\* cannot be opened (no memory); a pipe identifier handed out by the lookup
\* is used up all the same.
lookup_inode_fails ==
    LET found == lookup(inode, Head(rest))
    IN \/ found = {} /\ UNCHANGED exists
       \/ \E n \in found \ icache : exists' = exists \cup {n}

\* Failure on the last component: the parent stays open for vfs_open to use.
traverse_missing ==
    /\ pc = "walk" /\ Len(rest) = 1
    /\ inode \in Dirs
    /\ lookup_inode_fails
    /\ inodes' = close_inode(inodes, parent)
    /\ pc' = "missing" /\ parent' = inode /\ inode' = None
    /\ UNCHANGED <<icache, custody, openfiles, kept, pstate, call, slot, rest,
                   sender>>

\* The walk fails before the last component, or on an inode that is not a
\* directory: grandparent and parent are closed and vfs_open gives up.
traverse_failed ==
    /\ pc = "walk" /\ rest # <<>>
    /\ \/ inode \notin Dirs /\ UNCHANGED exists
       \/ inode \in Dirs /\ Len(rest) > 1 /\ lookup_inode_fails
    /\ inodes' = close_inode(close_inode(inodes, parent), inode)
    /\ Return
    /\ UNCHANGED <<icache, custody, openfiles, kept, pstate>>

\* create_inode for OF_CREATE: the filesystem makes a new inode, which is
\* opened and inserted in the icache.
create_inode(n) ==
    /\ pc = "missing" /\ call.create
    /\ parent \in Writable
    /\ n = Head(rest) /\ n \in Nodes \ exists /\ ParentOf[n] = parent
    /\ exists' = exists \cup {n}
    /\ icache' = icache \cup {n}
    /\ inodes' = open_inode(inodes, n)
    /\ pc' = "walk" /\ inode' = n /\ rest' = <<>>
    /\ UNCHANGED <<custody, openfiles, kept, pstate, call, slot, parent,
                   sender>>

\* No OF_CREATE, or the creation fails, possibly after the filesystem has
\* already made the file: the parent is closed.
open_missing_fails ==
    /\ pc = "missing"
    /\ \/ UNCHANGED exists
       \/ \E n \in Nodes : /\ call.create /\ parent \in Writable
                           /\ n = Head(rest) /\ ParentOf[n] = parent
                           /\ exists' = exists \cup {n}
    /\ inodes' = close_inode(inodes, parent)
    /\ Return
    /\ UNCHANGED <<icache, custody, openfiles, kept, pstate>>

open_refused_leaks_parent ==
    /\ pc = "walk" /\ rest = <<>>
    /\ inodes' = close_inode(inodes, inode)
    /\ Return
    /\ UNCHANGED <<icache, exists, custody, openfiles, kept, pstate>>

\* A directory opened without OF_DIRECTORY, or no memory for the custody:
\* parent and inode are closed.
open_refused ==
    /\ pc = "walk" /\ rest = <<>>
    /\ inodes' = close_inode(close_inode(inodes, parent), inode)
    /\ Return
    /\ UNCHANGED <<icache, exists, custody, openfiles, kept, pstate>>

\* alloc_custody takes over the reference to the inode; the one to the parent
\* is never dropped.
alloc_custody(c) ==
    /\ pc = "walk" /\ rest = <<>>
    /\ inode \in Dirs => call.directory
    /\ custody[c] = None
    /\ custody' = [custody EXCEPT ![c] = inode]
    /\ kept' = IF parent = None THEN kept
                               ELSE [kept EXCEPT ![parent] = @ + 1]
    /\ UNCHANGED <<icache, exists, inodes, pstate>>

\* vfs_open succeeds: sys$open stores the custody ...
open_succeeds(c) ==
    /\ call.kind = "open" /\ alloc_custody(c)
    /\ openfiles' = [openfiles EXCEPT ![call.proc][slot] = c]
    /\ Return

\* ... and vfs_create_pipe goes on with it.
pipe_opened(c) ==
    /\ call.kind = "pipe" /\ alloc_custody(c)
    /\ pc' = "pipe" /\ sender' = c /\ parent' = None /\ inode' = None
    /\ UNCHANGED <<openfiles, call, slot, rest>>

-----------------------------------------------------------------------------
(* The rest of sys$create_pipe                                             *)

vfs_duplicate_uncounted(t, n) == t

vfs_duplicate(t, n) ==
    [t EXCEPT ![n] = [ref |-> t[n].ref + 1, fs |-> t[n].fs]]

\* The receiver duplicates the sender; the first free descriptor reads, the
\* next one writes.
create_pipe_succeeds(c) ==
    /\ pc = "pipe" /\ custody[c] = None
    /\ \E r, w \in Fds :
         /\ FirstFree(call.proc, r)
         /\ r < w /\ openfiles[call.proc][w] = None
         /\ \A e \in Fds : r < e /\ e < w => openfiles[call.proc][e] # None
         /\ openfiles' = [openfiles EXCEPT ![call.proc] =
                            [@ EXCEPT ![r] = c, ![w] = sender]]
    /\ custody' = [custody EXCEPT ![c] = custody[sender]]
    /\ inodes' = vfs_duplicate(inodes, custody[sender])
    /\ Return
    /\ UNCHANGED <<icache, exists, kept, pstate>>

\* Fewer than two free descriptors: both custodies are closed again.
create_pipe_no_fds(c) ==
    /\ pc = "pipe" /\ custody[c] = None
    /\ \A r, w \in Fds : r # w => \/ openfiles[call.proc][r] # None
                                  \/ openfiles[call.proc][w] # None
    /\ LET n == custody[sender]
       IN inodes' = close_inode(close_inode(vfs_duplicate(inodes, n), n), n)
    /\ custody' = [custody EXCEPT ![sender] = None]
    /\ Return
    /\ UNCHANGED <<icache, exists, openfiles, kept, pstate>>

\* vfs_duplicate finds no memory: the sender is freed.
create_pipe_no_memory ==
    /\ pc = "pipe"
    /\ inodes' = close_inode(inodes, custody[sender])
    /\ custody' = [custody EXCEPT ![sender] = None]
    /\ Return
    /\ UNCHANGED <<icache, exists, openfiles, kept, pstate>>

-----------------------------------------------------------------------------
(* System calls on open descriptors                                        *)

\* vfs_close of the file in a slot, and of nothing when the slot is empty.
closed_inodes(c) == IF c = None THEN inodes ELSE close_inode(inodes, custody[c])

freed_custody(c) == IF c = None THEN custody ELSE [custody EXCEPT ![c] = None]

vfs_close(c) == inodes' = closed_inodes(c) /\ custody' = freed_custody(c)

sys_close(p, fd) ==
    /\ pc = "idle" /\ pstate[p] = "alive" /\ openfiles[p][fd] # None
    /\ vfs_close(openfiles[p][fd])
    /\ openfiles' = [openfiles EXCEPT ![p][fd] = None]
    /\ UNCHANGED <<icache, exists, kept, pstate, locals>>

sys_movefd_keeps_source(p, fd, new_fd) ==
    /\ pc = "idle" /\ pstate[p] = "alive" /\ openfiles[p][fd] # None
    /\ vfs_close(openfiles[p][new_fd])
    /\ openfiles' = [openfiles EXCEPT ![p][new_fd] = openfiles[p][fd]]
    /\ UNCHANGED <<icache, exists, kept, pstate, locals>>

\* The file in new_fd is closed first.  With new_fd = fd the call closes the
\* file and empties the slot.
sys_movefd(p, fd, new_fd) ==
    /\ pc = "idle" /\ pstate[p] = "alive" /\ openfiles[p][fd] # None
    /\ vfs_close(openfiles[p][new_fd])
    /\ openfiles' = [openfiles EXCEPT ![p] =
                       [@ EXCEPT ![new_fd] = openfiles[p][fd], ![fd] = None]]
    /\ UNCHANGED <<icache, exists, kept, pstate, locals>>

\* The file in new_fd is closed, then fd is duplicated into it; when malloc
\* fails the slot stays empty and the call still returns 0.
sys_dup2(p, fd, new_fd, c) ==
    /\ pc = "idle" /\ pstate[p] = "alive" /\ openfiles[p][fd] # None
    /\ fd # new_fd
    /\ LET t == closed_inodes(openfiles[p][new_fd])
           h == freed_custody(openfiles[p][new_fd])
           n == custody[openfiles[p][fd]]
       IN \/ /\ c # None /\ h[c] = None
             /\ inodes[n].ref < MaxRef
             /\ inodes' = vfs_duplicate(t, n)
             /\ custody' = [h EXCEPT ![c] = n]
          \/ /\ c = None
             /\ inodes' = t /\ custody' = h
    /\ openfiles' = [openfiles EXCEPT ![p][new_fd] = c]
    /\ UNCHANGED <<icache, exists, kept, pstate, locals>>

\* dup2 of a descriptor onto itself closes the file, then duplicates the null
\* pointer the slot now holds; what the kernel does next is undefined.
sys_dup2_self(p, fd) ==
    /\ pc = "idle" /\ pstate[p] = "alive" /\ openfiles[p][fd] # None
    /\ vfs_close(openfiles[p][fd])
    /\ openfiles' = [openfiles EXCEPT ![p][fd] = None]
    /\ Leave("undefined")
    /\ UNCHANGED <<icache, exists, kept, pstate>>

-----------------------------------------------------------------------------
(* sys$fork, sys$exit and free_process, as far as open files go            *)

sys_fork(p, q) ==
    /\ pc = "idle" /\ pstate[p] = "alive" /\ pstate[q] = "none"
    /\ \A n \in Nodes : inodes[n].ref < MaxRef
    /\ pc' = "fork" /\ call' = CallOf("fork", p, q, FALSE, FALSE)
    /\ UNCHANGED <<files, pstate, slot, rest, parent, inode, sender>>

\* One iteration of the loop over openfiles: an empty slot, or a duplicate.
fork_skip ==
    /\ pc = "fork" /\ slot < MaxFd
    /\ openfiles[call.proc][slot] = None
    /\ slot' = slot + 1
    /\ UNCHANGED <<files, pstate, pc, call, rest, parent, inode, sender>>

fork_duplicate(c) ==
    /\ pc = "fork" /\ slot < MaxFd
    /\ LET source == openfiles[call.proc][slot]
       IN /\ source # None /\ custody[c] = None
          /\ custody' = [custody EXCEPT ![c] = custody[source]]
          /\ inodes' = vfs_duplicate(inodes, custody[source])
          /\ openfiles' = [openfiles EXCEPT ![call.child][slot] = c]
    /\ slot' = slot + 1
    /\ UNCHANGED <<icache, exists, kept, pstate, pc, call, rest, parent, inode,
                   sender>>

fork_done ==
    /\ pc = "fork" /\ slot = MaxFd
    /\ pstate' = [pstate EXCEPT ![call.child] = "alive"]
    /\ Return
    /\ UNCHANGED files

\* Any failure of fork calls free_process on a process whose last thread is
\* freed inside it (or on null): freed memory is used, so the model stops.
fork_fails ==
    /\ pc = "fork"
    /\ Leave("undefined")
    /\ UNCHANGED <<files, pstate>>

sys_exit(p) ==
    /\ pc = "idle" /\ pstate[p] = "alive"
    /\ pstate' = [pstate EXCEPT ![p] = "zombie"]
    /\ UNCHANGED <<files, locals>>

\* The scheduler's loop meets the zombie: free_thread, then free_process.
free_process(p) ==
    /\ pc = "idle" /\ pstate[p] = "zombie"
    /\ pc' = "reap" /\ call' = CallOf("reap", p, FirstProc, FALSE, FALSE)
    /\ UNCHANGED <<files, pstate, slot, rest, parent, inode, sender>>

free_process_close ==
    /\ pc = "reap" /\ slot < MaxFd
    /\ vfs_close(openfiles[call.proc][slot])
    /\ openfiles' = [openfiles EXCEPT ![call.proc][slot] = None]
    /\ slot' = slot + 1
    /\ UNCHANGED <<icache, exists, kept, pstate, pc, call, rest, parent, inode,
                   sender>>

free_process_done ==
    /\ pc = "reap" /\ slot = MaxFd
    /\ pstate' = [pstate EXCEPT ![call.proc] = "none"]
    /\ Return
    /\ UNCHANGED files

-----------------------------------------------------------------------------
OpenNext ==
    \/ \E p \in Procs, path \in Paths, create, directory \in BOOLEAN :
         sys_open(p, path, create, directory)
    \/ \E p \in Procs : sys_create_pipe(p)
    \/ \E n \in Nodes : traverse_found(n) \/ create_inode(n)
    \/ traverse_missing
    \/ traverse_failed
    \/ open_missing_fails
    \/ open_refused
    \/ \E c \in Custodies : open_succeeds(c) \/ pipe_opened(c)

PipeNext ==
    \/ \E c \in Custodies : create_pipe_succeeds(c) \/ create_pipe_no_fds(c)
    \/ create_pipe_no_memory

FdNext ==
    \E p \in Procs, fd \in Fds :
      \/ sys_close(p, fd)
      \/ sys_dup2_self(p, fd)
      \/ \E new_fd \in Fds : sys_movefd(p, fd, new_fd)
      \/ \E new_fd \in Fds, c \in Custodies \cup {None} :
           sys_dup2(p, fd, new_fd, c)

ProcNext ==
    \/ \E p, q \in Procs : sys_fork(p, q)
    \/ fork_skip
    \/ \E c \in Custodies : fork_duplicate(c)
    \/ fork_done
    \/ fork_fails
    \/ \E p \in Procs : sys_exit(p) \/ free_process(p)
    \/ free_process_close
    \/ free_process_done

Next == OpenNext \/ PipeNext \/ FdNext \/ ProcNext

Spec == Init /\ [][Next]_vars

-----------------------------------------------------------------------------
(* Properties                                                              *)

Custodians(h, n) == {c \in Custodies : h[c] = n}

Count(b) == IF b THEN 1 ELSE 0

\* References held by the local variables of a vfs_open in progress.
Held(a, b, n) == Count(a = n) + Count(b = n)

\* Everything that refers to an inode: custodies, the parents successful
\* vfs_opens never released, the walk in progress, the mount of a root.
Refs(n) ==
    Cardinality(Custodians(custody, n)) + kept[n] + Held(parent, inode, n)
      + Count(n \in Mounts)

Balanced(i, refs) == i.ref = refs + Count(i.fs = "closed")

\* The reference count of every inode is exactly the number of references to
\* it, plus one once the filesystem has closed it (close_inode does not bring
\* the count to 0).  So kassert(refcount > 0) in close_inode never fails, and
\* the filesystem's close is never called twice for one inode.
RefcountAccounting ==
    \A n \in Nodes :
      Balanced(inodes[n], Refs(n))

\* A FileCustody belongs to one slot of one process (or to the create_pipe in
\* progress): none is shared, leaked, or used after vfs_close freed it, over
\* any sequence of open, close, dup2, movefd, pipe, fork and exit.
CustodyOwnedOnce ==
    /\ \A p, q \in Procs, fd, e \in Fds :
          openfiles[p][fd] # None /\ openfiles[p][fd] = openfiles[q][e]
            => p = q /\ fd = e
    /\ \A p \in Procs, fd \in Fds : openfiles[p][fd] # None =>
          custody[openfiles[p][fd]] # None /\ openfiles[p][fd] # sender
    /\ sender # None => custody[sender] # None
    /\ \A c \in Custodies : custody[c] # None =>
          c = sender \/ \E p \in Procs, fd \in Fds : openfiles[p][fd] = c

\* The ring buffer of a pipe (allocated by pipefs_fs_open_inode, freed by
\* pipefs_fs_close_inode) is there as long as any process can read or write
\* the pipe.
PipeStaysOpen ==
    \A c \in Custodies : custody[c] \in Pipes => inodes[custody[c]].fs = "open"

\* The filesystem's close_inode is called only by the last user: afterwards
\* no custody refers to the inode, and no parent reference is outstanding.
CloseIsLast ==
    [][\A n \in Nodes :
         inodes[n].fs # "closed" /\ inodes'[n].fs = "closed"
           => (\A c \in Custodies : custody'[c] # n) /\ kept[n] = 0]_vars

\* The local variables of the call in progress, by the place it has reached.
LocalsInv ==
    /\ pc # "walk" => inode = None
    /\ pc \notin {"walk", "missing"} => parent = None
    /\ pc # "pipe" => sender = None
    /\ pc \in {"idle", "undefined"} => slot = 0
    /\ pc \notin {"idle", "undefined"} => pstate[call.proc] # "none"
    /\ pc \in {"walk", "missing"} /\ call.kind = "open" =>
         slot \in Fds /\ openfiles[call.proc][slot] = None
    /\ pc = "walk" => inode # None
    /\ pc = "missing" => parent # None /\ rest # <<>>
    /\ pc = "pipe" => sender # None
    /\ pc = "fork" =>
         /\ pstate[call.child] = "none"
         /\ \A e \in Fds : e >= slot => openfiles[call.child][e] = None
    /\ pc = "reap" =>
         /\ pstate[call.proc] = "zombie"
         /\ \A e \in Fds : e < slot => openfiles[call.proc][e] = None

\* A process that does not exist has no open files.
NoProcessNoFiles ==
    \A p \in Procs :
      /\ pstate[p] = "none" /\ pc # "undefined"
      /\ ~(pc = "fork" /\ call.child = p)
      => \A fd \in Fds : openfiles[p][fd] = None

\* The icache holds exactly the inodes that have ever been opened, and the
\* filesystem knows all of them; the inode a walk has reached is one, and if
\* it is a pipe, nobody has closed it yet.
IcacheInv ==
    /\ icache \subseteq exists
    /\ \A n \in Nodes : n \in icache <=> inodes[n].ref > 0
    /\ pc = "walk" /\ inode \in Pipes => inodes[inode].fs = "open"

\* The inductive invariant: types, and what the properties above rest on.
OwnershipInv == TypeOK /\ LocalsInv /\ NoProcessNoFiles /\ CustodyOwnedOnce

ReferenceInv == IcacheInv /\ RefcountAccounting /\ PipeStaysOpen

IInv == OwnershipInv /\ ReferenceInv
=============================================================================
