----------------------------- MODULE VfsProofs -----------------------------
(***************************************************************************)
(* Proofs about Vfs: the inductive invariant IInv, and from it the         *)
(* reference-count accounting, the ownership of custodies and the life of  *)
(* pipe buffers, for any number of processes, descriptors and inodes.      *)
(* Then, as the instance Sched, the scheduler: the table of threads is     *)
(* exact, and who waits for a process is registered with it.               *)
(***************************************************************************)
EXTENDS Vfs, Processes, FiniteSetTheorems, TLAPS

-----------------------------------------------------------------------------
(* Inodes: one open adds one reference, one close drops one                *)

\* A sum of naturals is 0 only if each of them is.
LEMMA ZeroSum ==
    ASSUME NEW a \in Nat, NEW b \in Nat, NEW c \in Nat, NEW d \in Nat,
           NEW e \in Nat, NEW sum, sum = a + b + c + d + e
    PROVE  /\ sum - c = 0 => a = 0 /\ b = 0
           /\ sum - c - d = 0 => a = 0 /\ b = 0
OBVIOUS

\* Count turns a condition into 0 or 1.
LEMMA CountType == \A b : Count(b) \in {0, 1}
BY DEF Count

\* open_inode of vfs.cpp adds one reference, whatever the filesystem was last
\* told, and leaves every other inode alone.
LEMMA OpenInode ==
    ASSUME NEW t \in InodeTable, NEW a \in Nodes, NEW m \in Nodes,
           NEW r \in Nat, Balanced(t[m], r)
    PROVE  /\ open_inode(t, a) \in InodeTable
           /\ Balanced(open_inode(t, a)[m], r + Count(a = m))
           /\ open_inode(t, a)[m].ref > 0 <=> t[m].ref > 0 \/ m = a
           /\ \/ open_inode(t, a)[m].fs = t[m].fs
              \/ t[m].ref = 0 /\ open_inode(t, a)[m].fs = "open"
           /\ m = a /\ t[m].ref = 0 => open_inode(t, a)[m].fs = "open"
BY DEF open_inode, InodeTable, Balanced, Count

\* close_inode drops one reference, never takes a count to 0, and tells the
\* filesystem only when that reference was the last one.
LEMMA CloseInode ==
    ASSUME NEW t \in InodeTable, NEW a \in Nodes \cup {None}, NEW m \in Nodes,
           NEW r \in Nat, Balanced(t[m], r), a = m => r > 0
    PROVE  /\ close_inode(t, a) \in InodeTable
           /\ r - Count(a = m) \in Nat
           /\ Balanced(close_inode(t, a)[m], r - Count(a = m))
           /\ close_inode(t, a)[m].ref > 0 <=> t[m].ref > 0
           /\ close_inode(t, a)[m].fs = t[m].fs \/ r - Count(a = m) = 0
<1>1. CASE a = None
  BY <1>1, VfsAssumption DEF close_inode, InodeTable, Count
<1>2. CASE a \in Nodes
  BY <1>2, VfsAssumption DEF close_inode, InodeTable, Balanced, Count
<1> QED
  BY <1>1, <1>2

\* vfs_duplicate adds one reference and never tells the filesystem.
LEMMA Duplicate ==
    ASSUME NEW t \in InodeTable, NEW a \in Nodes, NEW m \in Nodes,
           NEW r \in Nat, Balanced(t[m], r)
    PROVE  /\ vfs_duplicate(t, a) \in InodeTable
           /\ Balanced(vfs_duplicate(t, a)[m], r + Count(a = m))
           /\ vfs_duplicate(t, a)[m].ref > 0 <=> t[m].ref > 0 \/ m = a
           /\ vfs_duplicate(t, a)[m].fs = t[m].fs
BY DEF vfs_duplicate, InodeTable, Balanced, Count

-----------------------------------------------------------------------------
(* Custodies: allocating or freeing one changes one count by one           *)

\* The custodies of an inode can be counted.
LEMMA CustodiansFinite ==
    ASSUME NEW h, NEW n
    PROVE  /\ IsFiniteSet(Custodians(h, n))
           /\ Cardinality(Custodians(h, n)) \in Nat
<1>1. Custodians(h, n) \subseteq Custodies
  BY DEF Custodians
<1>2. IsFiniteSet(Custodians(h, n))
  BY <1>1, FS_Subset, VfsAssumption
<1> QED
  BY <1>2, FS_CardinalityType

\* alloc_custody and vfs_duplicate add one custody to one inode.
LEMMA AllocCustody ==
    ASSUME NEW h \in CustodyHeap, NEW c \in Custodies, h[c] = None,
           NEW n \in Nodes, NEW m \in Nodes
    PROVE  /\ [h EXCEPT ![c] = n] \in CustodyHeap
           /\ Cardinality(Custodians([h EXCEPT ![c] = n], m))
                = Cardinality(Custodians(h, m)) + Count(n = m)
<1> DEFINE g == [h EXCEPT ![c] = n]
<1>1. g \in CustodyHeap
  BY DEF CustodyHeap
<1>2. ASSUME m # n
      PROVE  Custodians(g, m) = Custodians(h, m)
  BY <1>2, VfsAssumption DEF Custodians, CustodyHeap
<1>3. Custodians(g, n) = Custodians(h, n) \cup {c} /\ c \notin Custodians(h, n)
  BY VfsAssumption DEF Custodians, CustodyHeap
<1>4. Cardinality(Custodians(g, n)) = Cardinality(Custodians(h, n)) + 1
  BY <1>3, CustodiansFinite, FS_AddElement
<1> HIDE DEF g
<1>5. Cardinality(Custodians(g, m))
               = Cardinality(Custodians(h, m)) + Count(n = m)
  BY <1>2, <1>4, CustodiansFinite DEF Count
<1> QED
  BY <1>1, <1>5 DEF g

\* free_custody takes one custody from one inode.
LEMMA FreeCustody ==
    ASSUME NEW h \in CustodyHeap, NEW c \in Custodies, h[c] \in Nodes,
           NEW m \in Nodes
    PROVE  /\ [h EXCEPT ![c] = None] \in CustodyHeap
           /\ Cardinality(Custodians(h, m))
                = Cardinality(Custodians([h EXCEPT ![c] = None], m))
                    + Count(h[c] = m)
<1> DEFINE g == [h EXCEPT ![c] = None]
           n == h[c]
<1>1. g \in CustodyHeap
  BY DEF CustodyHeap
<1>2. ASSUME m # n
      PROVE  Custodians(g, m) = Custodians(h, m)
  BY <1>2, VfsAssumption DEF Custodians, CustodyHeap
<1>3. Custodians(h, n) = Custodians(g, n) \cup {c} /\ c \notin Custodians(g, n)
  BY VfsAssumption DEF Custodians, CustodyHeap
<1>4. Cardinality(Custodians(h, n)) = Cardinality(Custodians(g, n)) + 1
  BY <1>3, CustodiansFinite, FS_AddElement
<1> HIDE DEF g
<1>5. Cardinality(Custodians(h, m))
               = Cardinality(Custodians(g, m)) + Count(n = m)
  BY <1>2, <1>4, CustodiansFinite DEF Count
<1> QED
  BY <1>1, <1>5 DEF g

-----------------------------------------------------------------------------
(* Types                                                                   *)

\* open_inode keeps the inodes well typed.
LEMMA OpenType ==
    ASSUME NEW t \in InodeTable, NEW n \in Nodes
    PROVE  open_inode(t, n) \in InodeTable
BY DEF open_inode, InodeTable

\* close_inode keeps the inodes well typed, given an inode or null.
LEMMA CloseType ==
    ASSUME NEW t \in InodeTable, NEW n \in Nodes \cup {None}
    PROVE  close_inode(t, n) \in InodeTable
BY DEF close_inode, InodeTable

\* vfs_duplicate keeps the inodes well typed.
LEMMA DuplicateType ==
    ASSUME NEW t \in InodeTable, NEW n \in Nodes \cup {None}
    PROVE  vfs_duplicate(t, n) \in InodeTable
<1>1. CASE n \in Nodes
  BY <1>1 DEF vfs_duplicate, InodeTable
<1>2. CASE n \notin Nodes
  <2>1. vfs_duplicate(t, n) = t
    BY <1>2 DEF vfs_duplicate, InodeTable
  <2> QED
    BY <2>1
<1> QED
  BY <1>1, <1>2

\* vfs_close keeps inodes and custodies well typed.
LEMMA VfsCloseType ==
    ASSUME TypeOK, NEW c \in Custodies \cup {None}
    PROVE  /\ closed_inodes(c) \in InodeTable
           /\ freed_custody(c) \in CustodyHeap
BY CloseType DEF closed_inodes, freed_custody, TypeOK, CustodyHeap

\* The arguments of a call in progress are well typed.
LEMMA CallOfType ==
    \A kind \in {"open", "pipe", "fork", "reap"}, p, q \in Procs,
       create, directory \in BOOLEAN :
         CallOf(kind, p, q, create, directory) \in Call
BY DEF CallOf, Call

\* The locals of a call that has ended are well typed.
LEMMA LeaveType ==
    ASSUME NEW end \in {"idle", "undefined"}, Leave(end)
    PROVE  /\ pc' \in {"idle", "walk", "missing", "pipe", "fork", "reap",
                       "undefined"}
           /\ call' \in Call
           /\ slot' \in 0 .. MaxFd
           /\ rest' \in Seq(Names)
           /\ parent' \in Nodes \cup {None}
           /\ inode' \in Nodes \cup {None}
           /\ sender' \in Custodies \cup {None}
<1>1. call' \in Call
  BY CallOfType, VfsAssumption DEF Leave, NoCall
<1>2. slot' \in 0 .. MaxFd
  BY VfsAssumption DEF Leave
<1>3. rest' \in Seq(Names)
  BY DEF Leave
<1> QED
  BY <1>1, <1>2, <1>3 DEF Leave

\* Types are preserved by every step of the VFS.
LEMMA TypeStep == TypeOK /\ LocalsInv /\ [Next]_vars => TypeOK'
<1> SUFFICES ASSUME TypeOK, LocalsInv, [Next]_vars PROVE TypeOK'
  OBVIOUS
<1>0. pc = "pipe" => sender \in Custodies
  BY DEF TypeOK, LocalsInv
<1>1. ASSUME NEW p \in Procs, NEW path \in Paths, NEW create \in BOOLEAN,
             NEW directory \in BOOLEAN, sys_open(p, path, create, directory)
      PROVE  TypeOK'
  <2>1. path.root \in Nodes /\ path.comps \in Seq(Names)
    BY VfsAssumption
  <2> QED
    BY <1>1, <2>1, OpenType, CallOfType, VfsAssumption
    DEF sys_open, TypeOK, Fds
<1>2. ASSUME NEW p \in Procs, sys_create_pipe(p)
      PROVE  TypeOK'
  <2>1. PipeRoot \in Nodes /\ <<New>> \in Seq(Names)
    BY VfsAssumption DEF Names
  <2> QED
    BY <1>2, <2>1, OpenType, CallOfType, VfsAssumption
    DEF sys_create_pipe, TypeOK
<1>3. ASSUME NEW n \in Nodes, traverse_found(n)
      PROVE  TypeOK'
  BY <1>3, OpenType, CloseType DEF traverse_found, TypeOK
<1>4. CASE traverse_missing
  <2>1. exists' \subseteq Nodes
    BY <1>4, VfsAssumption
    DEF traverse_missing, lookup_inode_fails, lookup, TypeOK
  <2> QED
    BY <1>4, <2>1, CloseType DEF traverse_missing, TypeOK
<1>5. CASE traverse_failed
  <2>1. exists' \subseteq Nodes
    BY <1>5, VfsAssumption
    DEF traverse_failed, lookup_inode_fails, lookup, TypeOK
  <2> QED
    BY <1>5, <2>1, CloseType, LeaveType DEF traverse_failed, Return, TypeOK
<1>6. ASSUME NEW n \in Nodes, create_inode(n)
      PROVE  TypeOK'
  BY <1>6, OpenType DEF create_inode, TypeOK
<1>7. CASE open_missing_fails
  BY <1>7, CloseType, LeaveType DEF open_missing_fails, Return, TypeOK
<1>8. CASE open_refused
  BY <1>8, CloseType, LeaveType DEF open_refused, Return, TypeOK
<1>9. ASSUME NEW c \in Custodies, alloc_custody(c)
      PROVE  /\ icache' \subseteq Nodes /\ exists' \subseteq Nodes
             /\ inodes' \in InodeTable /\ custody' \in CustodyHeap
             /\ pstate' = pstate /\ kept' \in [Nodes -> Nat]
  BY <1>9 DEF alloc_custody, TypeOK, CustodyHeap
<1>10. ASSUME NEW c \in Custodies, open_succeeds(c)
       PROVE  TypeOK'
  <2>1. slot \in Fds /\ call.proc \in Procs
    BY <1>10 DEF open_succeeds, alloc_custody, LocalsInv, TypeOK, Call
  <2>2. openfiles' \in [Procs -> [Fds -> Custodies \cup {None}]]
    BY <1>10, <2>1 DEF open_succeeds, TypeOK
  <2> QED
    BY <1>9, <1>10, <2>2, LeaveType DEF open_succeeds, Return, TypeOK
<1>11. ASSUME NEW c \in Custodies, pipe_opened(c)
       PROVE  TypeOK'
  BY <1>9, <1>11 DEF pipe_opened, TypeOK
<1>12. ASSUME NEW c \in Custodies, create_pipe_succeeds(c)
       PROVE  TypeOK'
  <2>1. openfiles' \in [Procs -> [Fds -> Custodies \cup {None}]]
    <3>1. PICK r \in Fds, w \in Fds : openfiles' = [openfiles EXCEPT
                 ![call.proc] = [@ EXCEPT ![r] = c, ![w] = sender]]
      BY <1>12 DEF create_pipe_succeeds
    <3>2. openfiles[call.proc] \in [Fds -> Custodies \cup {None}]
      BY DEF TypeOK, Call
    <3> QED
      BY <1>0, <1>12, <3>1, <3>2 DEF create_pipe_succeeds, TypeOK
  <2>2. custody' \in CustodyHeap /\ custody[sender] \in Nodes \cup {None}
    BY <1>0, <1>12 DEF create_pipe_succeeds, TypeOK, CustodyHeap
  <2> QED
    BY <1>12, <2>1, <2>2, DuplicateType, LeaveType
    DEF create_pipe_succeeds, Return, TypeOK
<1>13. ASSUME NEW c \in Custodies, create_pipe_no_fds(c)
       PROVE  TypeOK'
  <2>1. custody' \in CustodyHeap /\ custody[sender] \in Nodes \cup {None}
    BY <1>0, <1>13 DEF create_pipe_no_fds, TypeOK, CustodyHeap
  <2> QED
    BY <1>13, <2>1, DuplicateType, CloseType, LeaveType
    DEF create_pipe_no_fds, Return, TypeOK
<1>14. CASE create_pipe_no_memory
  <2>1. custody' \in CustodyHeap /\ custody[sender] \in Nodes \cup {None}
    BY <1>0, <1>14 DEF create_pipe_no_memory, TypeOK, CustodyHeap
  <2> QED
    BY <1>14, <2>1, CloseType, LeaveType
    DEF create_pipe_no_memory, Return, TypeOK
<1>15. ASSUME NEW p \in Procs, NEW fd \in Fds, sys_close(p, fd)
       PROVE  TypeOK'
  BY <1>15, VfsCloseType DEF sys_close, vfs_close, locals, TypeOK
<1>16. ASSUME NEW p \in Procs, NEW fd \in Fds, sys_dup2_self(p, fd)
       PROVE  TypeOK'
  BY <1>16, VfsCloseType, LeaveType DEF sys_dup2_self, vfs_close, TypeOK
<1>17. ASSUME NEW p \in Procs, NEW fd \in Fds, NEW new_fd \in Fds,
              sys_movefd(p, fd, new_fd)
       PROVE  TypeOK'
  BY <1>17, VfsCloseType DEF sys_movefd, vfs_close, locals, TypeOK
<1>18. ASSUME NEW p \in Procs, NEW fd \in Fds, NEW new_fd \in Fds,
              NEW c \in Custodies \cup {None}, sys_dup2(p, fd, new_fd, c)
       PROVE  TypeOK'
  <2>1. /\ openfiles[p][new_fd] \in Custodies \cup {None}
        /\ custody[openfiles[p][fd]] \in Nodes \cup {None}
    BY <1>18 DEF sys_dup2, TypeOK, CustodyHeap
  <2>2. /\ closed_inodes(openfiles[p][new_fd]) \in InodeTable
        /\ freed_custody(openfiles[p][new_fd]) \in CustodyHeap
    BY <2>1, VfsCloseType
  <2>3. inodes' \in InodeTable /\ custody' \in CustodyHeap
    BY <1>18, <2>1, <2>2, DuplicateType DEF sys_dup2, CustodyHeap
  <2> QED
    BY <1>18, <2>3 DEF sys_dup2, locals, TypeOK
<1>19. ASSUME NEW p \in Procs, NEW q \in Procs, sys_fork(p, q)
       PROVE  TypeOK'
  BY <1>19, CallOfType DEF sys_fork, files, TypeOK
<1>20. CASE fork_skip
  BY <1>20, VfsAssumption DEF fork_skip, files, TypeOK
<1>21. ASSUME NEW c \in Custodies, fork_duplicate(c)
       PROVE  TypeOK'
  <2>1. slot \in Fds /\ slot' \in 0 .. MaxFd /\ call.proc \in Procs
    BY <1>21, VfsAssumption DEF fork_duplicate, TypeOK, Fds, Call
  <2>2. custody[openfiles[call.proc][slot]] \in Nodes \cup {None}
    BY <1>21, <2>1 DEF fork_duplicate, TypeOK, CustodyHeap
  <2>3. inodes' \in InodeTable /\ custody' \in CustodyHeap
    BY <1>21, <2>2, DuplicateType DEF fork_duplicate, TypeOK, CustodyHeap
  <2> QED
    BY <1>21, <2>1, <2>3 DEF fork_duplicate, TypeOK
<1>22. CASE fork_done
  BY <1>22, LeaveType DEF fork_done, Return, files, TypeOK
<1>23. CASE fork_fails
  BY <1>23, LeaveType DEF fork_fails, files, TypeOK
<1>24. ASSUME NEW p \in Procs, sys_exit(p)
       PROVE  TypeOK'
  BY <1>24 DEF sys_exit, files, locals, TypeOK
<1>25. ASSUME NEW p \in Procs, free_process(p)
       PROVE  TypeOK'
  BY <1>25, CallOfType, VfsAssumption DEF free_process, files, TypeOK
<1>26. CASE free_process_close
  <2>1. slot \in Fds /\ slot' \in 0 .. MaxFd /\ call.proc \in Procs
    BY <1>26, VfsAssumption DEF free_process_close, TypeOK, Fds, Call
  <2>2. openfiles[call.proc][slot] \in Custodies \cup {None}
    BY <2>1 DEF TypeOK
  <2> QED
    BY <1>26, <2>1, <2>2, VfsCloseType
    DEF free_process_close, vfs_close, TypeOK
<1>27. CASE free_process_done
  BY <1>27, LeaveType DEF free_process_done, Return, files, TypeOK
<1>28. CASE UNCHANGED vars
  BY <1>28 DEF vars, files, locals, TypeOK
<1> QED
  BY <1>1, <1>2, <1>3, <1>4, <1>5, <1>6, <1>7, <1>8, <1>10, <1>11, <1>12,
     <1>13, <1>14, <1>15, <1>16, <1>17, <1>18, <1>19, <1>20, <1>21, <1>22,
     <1>23, <1>24, <1>25, <1>26, <1>27, <1>28
  DEF Next, OpenNext, PipeNext, FdNext, ProcNext

\* Who owns a custody, and what the locals of a call say, is preserved by
\* every step.
LEMMA OwnershipStep == OwnershipInv /\ [Next]_vars => OwnershipInv'
<1> SUFFICES ASSUME TypeOK, LocalsInv, NoProcessNoFiles, CustodyOwnedOnce,
                    [Next]_vars
             PROVE  LocalsInv' /\ NoProcessNoFiles' /\ CustodyOwnedOnce'
  BY TypeStep DEF OwnershipInv
<1>0. TypeOK'
  BY TypeStep
<1>1. ASSUME NEW p \in Procs, NEW path \in Paths,
             NEW create \in BOOLEAN, NEW directory \in BOOLEAN,
             sys_open(p, path, create, directory)
      PROVE  LocalsInv' /\ NoProcessNoFiles' /\ CustodyOwnedOnce'
  <2>1. LocalsInv' /\ NoProcessNoFiles'
    BY <1>0, <1>1, VfsAssumption
    DEF sys_open, FirstFree, CallOf, TypeOK, Call, Fds, LocalsInv,
        NoProcessNoFiles
  <2>2. CustodyOwnedOnce'
    BY <1>1 DEF sys_open, CallOf, LocalsInv, CustodyOwnedOnce
  <2> QED
    BY <2>1, <2>2
<1>2. ASSUME NEW p \in Procs,
             sys_create_pipe(p)
      PROVE  LocalsInv' /\ NoProcessNoFiles' /\ CustodyOwnedOnce'
  <2>1. LocalsInv' /\ NoProcessNoFiles'
    BY <1>0, <1>2, VfsAssumption
    DEF sys_create_pipe, CallOf, TypeOK, Call, Fds, LocalsInv,
        NoProcessNoFiles
  <2>2. CustodyOwnedOnce'
    BY <1>2 DEF sys_create_pipe, CallOf, LocalsInv, CustodyOwnedOnce
  <2> QED
    BY <2>1, <2>2
<1>3. ASSUME NEW n \in Nodes,
             traverse_found(n)
      PROVE  LocalsInv' /\ NoProcessNoFiles' /\ CustodyOwnedOnce'
  <2>1. LocalsInv' /\ NoProcessNoFiles'
    BY <1>0, <1>3, VfsAssumption
    DEF traverse_found, TypeOK, Call, Fds, LocalsInv,
        NoProcessNoFiles
  <2>2. CustodyOwnedOnce'
    BY <1>3 DEF traverse_found, LocalsInv, CustodyOwnedOnce
  <2> QED
    BY <2>1, <2>2
<1>4. CASE traverse_missing
  <2>0. rest # <<>>
    <3>1. Len(<<>>) = 0
      OBVIOUS
    <3> QED
      BY <1>4, <3>1 DEF traverse_missing
  <2>1. LocalsInv' /\ NoProcessNoFiles'
    BY <1>0, <1>4, <2>0, VfsAssumption
    DEF traverse_missing, TypeOK, Call, Fds, LocalsInv,
        NoProcessNoFiles
  <2>2. CustodyOwnedOnce'
    BY <1>4 DEF traverse_missing, LocalsInv, CustodyOwnedOnce
  <2> QED
    BY <2>1, <2>2
<1>5. CASE traverse_failed
  <2>1. LocalsInv' /\ NoProcessNoFiles'
    BY <1>0, <1>5, VfsAssumption
    DEF traverse_failed, Return, Leave, TypeOK, Call, Fds, LocalsInv,
        NoProcessNoFiles
  <2>2. CustodyOwnedOnce'
    BY <1>5 DEF traverse_failed, Return, Leave, LocalsInv, CustodyOwnedOnce
  <2> QED
    BY <2>1, <2>2
<1>6. ASSUME NEW n \in Nodes,
             create_inode(n)
      PROVE  LocalsInv' /\ NoProcessNoFiles' /\ CustodyOwnedOnce'
  <2>1. LocalsInv' /\ NoProcessNoFiles'
    BY <1>0, <1>6, VfsAssumption
    DEF create_inode, TypeOK, Call, Fds, LocalsInv,
        NoProcessNoFiles
  <2>2. CustodyOwnedOnce'
    BY <1>6 DEF create_inode, LocalsInv, CustodyOwnedOnce
  <2> QED
    BY <2>1, <2>2
<1>7. CASE open_missing_fails
  <2>1. LocalsInv' /\ NoProcessNoFiles'
    BY <1>0, <1>7, VfsAssumption
    DEF open_missing_fails, Return, Leave, TypeOK, Call, Fds, LocalsInv,
        NoProcessNoFiles
  <2>2. CustodyOwnedOnce'
    BY <1>7 DEF open_missing_fails, Return, Leave, LocalsInv, CustodyOwnedOnce
  <2> QED
    BY <2>1, <2>2
<1>8. CASE open_refused
  <2>1. LocalsInv' /\ NoProcessNoFiles'
    BY <1>0, <1>8, VfsAssumption
    DEF open_refused, Return, Leave, TypeOK, Call, Fds, LocalsInv,
        NoProcessNoFiles
  <2>2. CustodyOwnedOnce'
    BY <1>8 DEF open_refused, Return, Leave, LocalsInv, CustodyOwnedOnce
  <2> QED
    BY <2>1, <2>2
<1>9. ASSUME NEW c \in Custodies,
             open_succeeds(c)
      PROVE  LocalsInv' /\ NoProcessNoFiles' /\ CustodyOwnedOnce'
  <2>1. LocalsInv' /\ NoProcessNoFiles'
    BY <1>0, <1>9, VfsAssumption
    DEF open_succeeds, alloc_custody, Return, Leave, TypeOK, Call, Fds,
        LocalsInv,
        NoProcessNoFiles
  <2>2. CustodyOwnedOnce'
    <3>1. \A p1, p2 \in Procs, f1, f2 \in Fds :
             openfiles'[p1][f1] # None /\ openfiles'[p1][f1] = openfiles'[p2][f2]
               => p1 = p2 /\ f1 = f2
      BY <1>0, <1>9, VfsAssumption
      DEF open_succeeds, alloc_custody, Return, Leave, TypeOK, Call,
          CustodyHeap, LocalsInv,
        CustodyOwnedOnce
    <3>2. \A p1 \in Procs, f1 \in Fds : openfiles'[p1][f1] # None =>
             custody'[openfiles'[p1][f1]] # None /\ openfiles'[p1][f1] # sender'
      BY <1>0, <1>9, VfsAssumption
      DEF open_succeeds, alloc_custody, Return, Leave, TypeOK, Call,
          CustodyHeap, LocalsInv,
        CustodyOwnedOnce
    <3>3. sender' # None => custody'[sender'] # None
      BY <1>0, <1>9, VfsAssumption
      DEF open_succeeds, alloc_custody, Return, Leave, TypeOK, Call,
          CustodyHeap, LocalsInv,
        CustodyOwnedOnce
    <3>4. \A c1 \in Custodies : custody'[c1] # None =>
             c1 = sender' \/ \E p1 \in Procs, f1 \in Fds : openfiles'[p1][f1] = c1
      <4> SUFFICES ASSUME NEW c1 \in Custodies, custody'[c1] # None
                   PROVE  \E p1 \in Procs, f1 \in Fds : openfiles'[p1][f1] = c1
        OBVIOUS
      <4>1. /\ call.proc \in Procs /\ slot \in Fds
            /\ openfiles[call.proc][slot] = None /\ sender = None
            /\ openfiles' = [openfiles EXCEPT ![call.proc][slot] = c]
            /\ custody' = [custody EXCEPT ![c] = inode]
        BY <1>9 DEF open_succeeds, alloc_custody, LocalsInv, TypeOK, Call
      <4>2. CASE c1 = c
        BY <4>1, <4>2 DEF TypeOK
      <4>3. CASE c1 # c
        <5>1. custody[c1] # None
          BY <4>1, <4>3 DEF TypeOK, CustodyHeap
        <5>2. PICK p1 \in Procs, f1 \in Fds : openfiles[p1][f1] = c1
          BY <4>1, <5>1, VfsAssumption DEF CustodyOwnedOnce
        <5>3. openfiles'[p1][f1] = c1
          BY <4>1, <5>2, VfsAssumption DEF TypeOK
        <5> QED
          BY <5>3
      <4> QED
        BY <4>2, <4>3
    <3> QED
      BY <3>1, <3>2, <3>3, <3>4 DEF CustodyOwnedOnce
  <2> QED
    BY <2>1, <2>2
<1>10. ASSUME NEW c \in Custodies,
             pipe_opened(c)
      PROVE  LocalsInv' /\ NoProcessNoFiles' /\ CustodyOwnedOnce'
  <2>1. LocalsInv' /\ NoProcessNoFiles'
    BY <1>0, <1>10, VfsAssumption
    DEF pipe_opened, alloc_custody, TypeOK, Call, Fds, LocalsInv,
        NoProcessNoFiles
  <2>2. CustodyOwnedOnce'
    <3>1. \A p1, p2 \in Procs, f1, f2 \in Fds :
             openfiles'[p1][f1] # None /\ openfiles'[p1][f1] = openfiles'[p2][f2]
               => p1 = p2 /\ f1 = f2
      BY <1>0, <1>10, VfsAssumption
      DEF pipe_opened, alloc_custody, TypeOK, Call, CustodyHeap, LocalsInv,
        CustodyOwnedOnce
    <3>2. \A p1 \in Procs, f1 \in Fds : openfiles'[p1][f1] # None =>
             custody'[openfiles'[p1][f1]] # None /\ openfiles'[p1][f1] # sender'
      BY <1>0, <1>10, VfsAssumption
      DEF pipe_opened, alloc_custody, TypeOK, Call, CustodyHeap, LocalsInv,
        CustodyOwnedOnce
    <3>3. sender' # None => custody'[sender'] # None
      BY <1>0, <1>10, VfsAssumption
      DEF pipe_opened, alloc_custody, TypeOK, Call, CustodyHeap, LocalsInv,
        CustodyOwnedOnce
    <3>4. \A c1 \in Custodies : custody'[c1] # None =>
             c1 = sender' \/ \E p1 \in Procs, f1 \in Fds : openfiles'[p1][f1] = c1
      BY <1>0, <1>10, VfsAssumption
      DEF pipe_opened, alloc_custody, TypeOK, Call, CustodyHeap, LocalsInv,
        CustodyOwnedOnce
    <3> QED
      BY <3>1, <3>2, <3>3, <3>4 DEF CustodyOwnedOnce
  <2> QED
    BY <2>1, <2>2
<1>11. ASSUME NEW c \in Custodies,
             create_pipe_succeeds(c)
      PROVE  LocalsInv' /\ NoProcessNoFiles' /\ CustodyOwnedOnce'
  <2>1. LocalsInv' /\ NoProcessNoFiles'
    BY <1>0, <1>11, VfsAssumption
    DEF create_pipe_succeeds, Return, Leave, TypeOK, Call, Fds, LocalsInv,
        NoProcessNoFiles
  <2>2. CustodyOwnedOnce'
    <3>1. \A p1, p2 \in Procs, f1, f2 \in Fds :
             openfiles'[p1][f1] # None /\ openfiles'[p1][f1] = openfiles'[p2][f2]
               => p1 = p2 /\ f1 = f2
      BY <1>0, <1>11, VfsAssumption
      DEF create_pipe_succeeds, Return, Leave, TypeOK, Call, CustodyHeap,
          LocalsInv,
        CustodyOwnedOnce
    <3>2. \A p1 \in Procs, f1 \in Fds : openfiles'[p1][f1] # None =>
             custody'[openfiles'[p1][f1]] # None /\ openfiles'[p1][f1] # sender'
      BY <1>0, <1>11, VfsAssumption
      DEF create_pipe_succeeds, Return, Leave, TypeOK, Call, CustodyHeap,
          LocalsInv,
        CustodyOwnedOnce
    <3>3. sender' # None => custody'[sender'] # None
      BY <1>0, <1>11, VfsAssumption
      DEF create_pipe_succeeds, Return, Leave, TypeOK, Call, CustodyHeap,
          LocalsInv,
        CustodyOwnedOnce
    <3>4. \A c1 \in Custodies : custody'[c1] # None =>
             c1 = sender' \/ \E p1 \in Procs, f1 \in Fds : openfiles'[p1][f1] = c1
      <4> SUFFICES ASSUME NEW c1 \in Custodies, custody'[c1] # None
                   PROVE  \E p1 \in Procs, f1 \in Fds : openfiles'[p1][f1] = c1
        OBVIOUS
      <4>1. PICK r \in Fds, w \in Fds :
               /\ openfiles[call.proc][r] = None
               /\ r < w /\ openfiles[call.proc][w] = None
               /\ openfiles' = [openfiles EXCEPT ![call.proc] =
                                  [@ EXCEPT ![r] = c, ![w] = sender]]
        BY <1>11 DEF create_pipe_succeeds, FirstFree
      <4>2. /\ call.proc \in Procs /\ sender \in Custodies /\ r # w
            /\ custody' = [custody EXCEPT ![c] = custody[sender]]
        BY <1>11, <4>1 DEF create_pipe_succeeds, LocalsInv, TypeOK, Call, Fds
      <4>3. openfiles'[call.proc][r] = c /\ openfiles'[call.proc][w] = sender
        BY <4>1, <4>2 DEF TypeOK
      <4>4. CASE c1 = c \/ c1 = sender
        BY <4>2, <4>3, <4>4
      <4>5. CASE c1 # c /\ c1 # sender
        <5>1. custody[c1] # None
          BY <4>2, <4>5 DEF TypeOK, CustodyHeap
        <5>2. PICK p1 \in Procs, f1 \in Fds : openfiles[p1][f1] = c1
          BY <4>5, <5>1 DEF CustodyOwnedOnce
        <5>3. openfiles'[p1][f1] = c1
          BY <4>1, <4>2, <5>2, VfsAssumption DEF TypeOK
        <5> QED
          BY <5>3
      <4> QED
        BY <4>4, <4>5
    <3> QED
      BY <3>1, <3>2, <3>3, <3>4 DEF CustodyOwnedOnce
  <2> QED
    BY <2>1, <2>2
<1>12. ASSUME NEW c \in Custodies,
             create_pipe_no_fds(c)
      PROVE  LocalsInv' /\ NoProcessNoFiles' /\ CustodyOwnedOnce'
  <2>1. LocalsInv' /\ NoProcessNoFiles'
    BY <1>0, <1>12, VfsAssumption
    DEF create_pipe_no_fds, Return, Leave, TypeOK, Call, Fds, LocalsInv,
        NoProcessNoFiles
  <2>2. CustodyOwnedOnce'
    BY <1>0, <1>12, VfsAssumption
    DEF create_pipe_no_fds, Return, Leave, TypeOK, Call, CustodyHeap,
        LocalsInv,
        CustodyOwnedOnce
  <2> QED
    BY <2>1, <2>2
<1>13. CASE create_pipe_no_memory
  <2>1. LocalsInv' /\ NoProcessNoFiles'
    BY <1>0, <1>13, VfsAssumption
    DEF create_pipe_no_memory, Return, Leave, TypeOK, Call, Fds, LocalsInv,
        NoProcessNoFiles
  <2>2. CustodyOwnedOnce'
    BY <1>0, <1>13, VfsAssumption
    DEF create_pipe_no_memory, Return, Leave, TypeOK, Call, CustodyHeap,
        LocalsInv,
        CustodyOwnedOnce
  <2> QED
    BY <2>1, <2>2
<1>14. ASSUME NEW p \in Procs, NEW fd \in Fds,
             sys_close(p, fd)
      PROVE  LocalsInv' /\ NoProcessNoFiles' /\ CustodyOwnedOnce'
  <2>1. LocalsInv' /\ NoProcessNoFiles'
    BY <1>0, <1>14, VfsAssumption
    DEF sys_close, vfs_close, freed_custody, locals, TypeOK, Call, Fds,
        LocalsInv,
        NoProcessNoFiles
  <2>2. CustodyOwnedOnce'
    BY <1>0, <1>14, VfsAssumption
    DEF sys_close, vfs_close, freed_custody, locals, TypeOK, Call,
        CustodyHeap, LocalsInv,
        CustodyOwnedOnce
  <2> QED
    BY <2>1, <2>2
<1>15. ASSUME NEW p \in Procs, NEW fd \in Fds,
             sys_dup2_self(p, fd)
      PROVE  LocalsInv' /\ NoProcessNoFiles' /\ CustodyOwnedOnce'
  <2>1. LocalsInv' /\ NoProcessNoFiles'
    BY <1>0, <1>15, VfsAssumption
    DEF sys_dup2_self, vfs_close, freed_custody, Leave, TypeOK, Call, Fds,
        LocalsInv,
        NoProcessNoFiles
  <2>2. CustodyOwnedOnce'
    BY <1>0, <1>15, VfsAssumption
    DEF sys_dup2_self, vfs_close, freed_custody, Leave, TypeOK, Call,
        CustodyHeap, LocalsInv,
        CustodyOwnedOnce
  <2> QED
    BY <2>1, <2>2
<1>16. ASSUME NEW p \in Procs, NEW fd \in Fds, NEW new_fd \in Fds,
             sys_movefd(p, fd, new_fd)
      PROVE  LocalsInv' /\ NoProcessNoFiles' /\ CustodyOwnedOnce'
  <2>1. LocalsInv' /\ NoProcessNoFiles'
    BY <1>0, <1>16, VfsAssumption
    DEF sys_movefd, vfs_close, freed_custody, locals, TypeOK, Call, Fds,
        LocalsInv,
        NoProcessNoFiles
  <2>2. CustodyOwnedOnce'
    <3>1. \A p1, p2 \in Procs, f1, f2 \in Fds :
             openfiles'[p1][f1] # None /\ openfiles'[p1][f1] = openfiles'[p2][f2]
               => p1 = p2 /\ f1 = f2
      BY <1>0, <1>16, VfsAssumption
      DEF sys_movefd, vfs_close, freed_custody, locals, TypeOK, Call,
          CustodyHeap, LocalsInv,
        CustodyOwnedOnce
    <3>2. \A p1 \in Procs, f1 \in Fds : openfiles'[p1][f1] # None =>
             custody'[openfiles'[p1][f1]] # None /\ openfiles'[p1][f1] # sender'
      BY <1>0, <1>16, VfsAssumption
      DEF sys_movefd, vfs_close, freed_custody, locals, TypeOK, Call,
          CustodyHeap, LocalsInv,
        CustodyOwnedOnce
    <3>3. sender' # None => custody'[sender'] # None
      BY <1>0, <1>16, VfsAssumption
      DEF sys_movefd, vfs_close, freed_custody, locals, TypeOK, Call,
          CustodyHeap, LocalsInv,
        CustodyOwnedOnce
    <3>4. \A c1 \in Custodies : custody'[c1] # None =>
             c1 = sender' \/ \E p1 \in Procs, f1 \in Fds : openfiles'[p1][f1] = c1
      BY <1>0, <1>16, VfsAssumption
      DEF sys_movefd, vfs_close, freed_custody, locals, TypeOK, Call,
          CustodyHeap, LocalsInv,
        CustodyOwnedOnce
    <3> QED
      BY <3>1, <3>2, <3>3, <3>4 DEF CustodyOwnedOnce
  <2> QED
    BY <2>1, <2>2
<1>17. ASSUME NEW p \in Procs, NEW fd \in Fds, NEW new_fd \in Fds,
             NEW c \in Custodies \cup {None},
             sys_dup2(p, fd, new_fd, c)
      PROVE  LocalsInv' /\ NoProcessNoFiles' /\ CustodyOwnedOnce'
  <2>1. LocalsInv' /\ NoProcessNoFiles'
    BY <1>0, <1>17, VfsAssumption
    DEF sys_dup2, freed_custody, locals, TypeOK, Call, Fds, LocalsInv,
        NoProcessNoFiles
  <2>2. CustodyOwnedOnce'
    <3>1. \A p1, p2 \in Procs, f1, f2 \in Fds :
             openfiles'[p1][f1] # None /\ openfiles'[p1][f1] = openfiles'[p2][f2]
               => p1 = p2 /\ f1 = f2
      BY <1>0, <1>17, VfsAssumption
      DEF sys_dup2, freed_custody, locals, TypeOK, Call, CustodyHeap,
          LocalsInv,
        CustodyOwnedOnce
    <3>2. \A p1 \in Procs, f1 \in Fds : openfiles'[p1][f1] # None =>
             custody'[openfiles'[p1][f1]] # None /\ openfiles'[p1][f1] # sender'
      BY <1>0, <1>17, VfsAssumption
      DEF sys_dup2, freed_custody, locals, TypeOK, Call, CustodyHeap,
          LocalsInv,
        CustodyOwnedOnce
    <3>3. sender' # None => custody'[sender'] # None
      BY <1>0, <1>17, VfsAssumption
      DEF sys_dup2, freed_custody, locals, TypeOK, Call, CustodyHeap,
          LocalsInv,
        CustodyOwnedOnce
    <3>4. \A c1 \in Custodies : custody'[c1] # None =>
             c1 = sender' \/ \E p1 \in Procs, f1 \in Fds : openfiles'[p1][f1] = c1
      <4> SUFFICES ASSUME NEW c1 \in Custodies, custody'[c1] # None
                   PROVE  \E p1 \in Procs, f1 \in Fds : openfiles'[p1][f1] = c1
        OBVIOUS
      <4>1. /\ openfiles' = [openfiles EXCEPT ![p][new_fd] = c]
            /\ sender = None
        BY <1>17 DEF sys_dup2, LocalsInv
      <4>2. CASE c1 = c
        BY <4>1, <4>2 DEF TypeOK
      <4>3. CASE c1 # c
        <5>1. custody[c1] # None /\ c1 # openfiles[p][new_fd]
          BY <1>17, <4>3, VfsAssumption
          DEF sys_dup2, freed_custody, TypeOK, CustodyHeap
        <5>2. PICK p1 \in Procs, f1 \in Fds : openfiles[p1][f1] = c1
          BY <4>1, <5>1, VfsAssumption DEF CustodyOwnedOnce
        <5>3. openfiles'[p1][f1] = c1
          BY <4>1, <5>1, <5>2 DEF TypeOK
        <5> QED
          BY <5>3
      <4> QED
        BY <4>2, <4>3
    <3> QED
      BY <3>1, <3>2, <3>3, <3>4 DEF CustodyOwnedOnce
  <2> QED
    BY <2>1, <2>2
<1>18. ASSUME NEW p \in Procs, NEW q \in Procs,
             sys_fork(p, q)
      PROVE  LocalsInv' /\ NoProcessNoFiles' /\ CustodyOwnedOnce'
  <2>1. /\ pc = "idle" /\ pc' = "fork"
        /\ pstate[p] = "alive" /\ pstate[q] = "none"
        /\ call'.proc = p /\ call'.child = q
        /\ openfiles' = openfiles /\ custody' = custody /\ pstate' = pstate
        /\ slot' = slot /\ parent' = parent /\ inode' = inode
        /\ sender' = sender
    BY <1>18 DEF sys_fork, files, CallOf
  <2>2. \A e \in Fds : openfiles[q][e] = None
    BY <1>0, <2>1 DEF NoProcessNoFiles
  <2>3. LocalsInv'
    BY <1>0, <2>1, <2>2 DEF LocalsInv
  <2>4. NoProcessNoFiles'
    BY <1>0, <2>1 DEF NoProcessNoFiles
  <2>5. CustodyOwnedOnce'
    BY <1>0, <2>1 DEF CustodyOwnedOnce
  <2> QED
    BY <2>3, <2>4, <2>5
<1>19. CASE fork_skip
  <2>1. LocalsInv' /\ NoProcessNoFiles'
    BY <1>0, <1>19, VfsAssumption
    DEF fork_skip, files, TypeOK, Call, Fds, LocalsInv,
        NoProcessNoFiles
  <2>2. CustodyOwnedOnce'
    BY <1>19 DEF fork_skip, files, LocalsInv, CustodyOwnedOnce
  <2> QED
    BY <2>1, <2>2
<1>20. ASSUME NEW c \in Custodies,
             fork_duplicate(c)
      PROVE  LocalsInv' /\ NoProcessNoFiles' /\ CustodyOwnedOnce'
  <2>1. LocalsInv' /\ NoProcessNoFiles'
    BY <1>0, <1>20, VfsAssumption
    DEF fork_duplicate, TypeOK, Call, Fds, LocalsInv,
        NoProcessNoFiles
  <2>2. CustodyOwnedOnce'
    <3>1. \A p1, p2 \in Procs, f1, f2 \in Fds :
             openfiles'[p1][f1] # None /\ openfiles'[p1][f1] = openfiles'[p2][f2]
               => p1 = p2 /\ f1 = f2
      BY <1>0, <1>20, VfsAssumption
      DEF fork_duplicate, TypeOK, Call, CustodyHeap, LocalsInv,
        CustodyOwnedOnce
    <3>2. \A p1 \in Procs, f1 \in Fds : openfiles'[p1][f1] # None =>
             custody'[openfiles'[p1][f1]] # None /\ openfiles'[p1][f1] # sender'
      BY <1>0, <1>20, VfsAssumption
      DEF fork_duplicate, TypeOK, Call, CustodyHeap, LocalsInv,
        CustodyOwnedOnce
    <3>3. sender' # None => custody'[sender'] # None
      BY <1>0, <1>20, VfsAssumption
      DEF fork_duplicate, TypeOK, Call, CustodyHeap, LocalsInv,
        CustodyOwnedOnce
    <3>4. \A c1 \in Custodies : custody'[c1] # None =>
             c1 = sender' \/ \E p1 \in Procs, f1 \in Fds : openfiles'[p1][f1] = c1
      BY <1>0, <1>20, VfsAssumption
      DEF fork_duplicate, TypeOK, Call, CustodyHeap, LocalsInv,
        CustodyOwnedOnce
    <3> QED
      BY <3>1, <3>2, <3>3, <3>4 DEF CustodyOwnedOnce
  <2> QED
    BY <2>1, <2>2
<1>21. CASE fork_done
  <2>1. LocalsInv' /\ NoProcessNoFiles'
    BY <1>0, <1>21, VfsAssumption
    DEF fork_done, Return, Leave, files, TypeOK, Call, Fds, LocalsInv,
        NoProcessNoFiles
  <2>2. CustodyOwnedOnce'
    BY <1>21 DEF fork_done, Return, Leave, files, LocalsInv, CustodyOwnedOnce
  <2> QED
    BY <2>1, <2>2
<1>22. CASE fork_fails
  <2>1. LocalsInv' /\ NoProcessNoFiles'
    BY <1>0, <1>22, VfsAssumption
    DEF fork_fails, Leave, files, TypeOK, Call, Fds, LocalsInv,
        NoProcessNoFiles
  <2>2. CustodyOwnedOnce'
    BY <1>22 DEF fork_fails, Leave, files, LocalsInv, CustodyOwnedOnce
  <2> QED
    BY <2>1, <2>2
<1>23. ASSUME NEW p \in Procs,
             sys_exit(p)
      PROVE  LocalsInv' /\ NoProcessNoFiles' /\ CustodyOwnedOnce'
  <2>1. LocalsInv' /\ NoProcessNoFiles'
    BY <1>0, <1>23, VfsAssumption
    DEF sys_exit, files, locals, TypeOK, Call, Fds, LocalsInv,
        NoProcessNoFiles
  <2>2. CustodyOwnedOnce'
    BY <1>23 DEF sys_exit, files, locals, LocalsInv, CustodyOwnedOnce
  <2> QED
    BY <2>1, <2>2
<1>24. ASSUME NEW p \in Procs,
             free_process(p)
      PROVE  LocalsInv' /\ NoProcessNoFiles' /\ CustodyOwnedOnce'
  <2>1. LocalsInv' /\ NoProcessNoFiles'
    BY <1>0, <1>24, VfsAssumption
    DEF free_process, files, CallOf, TypeOK, Call, Fds, LocalsInv,
        NoProcessNoFiles
  <2>2. CustodyOwnedOnce'
    BY <1>24 DEF free_process, files, CallOf, LocalsInv, CustodyOwnedOnce
  <2> QED
    BY <2>1, <2>2
<1>25. CASE free_process_close
  <2>1. LocalsInv' /\ NoProcessNoFiles'
    BY <1>0, <1>25, VfsAssumption
    DEF free_process_close, vfs_close, freed_custody, TypeOK, Call, Fds,
        LocalsInv,
        NoProcessNoFiles
  <2>2. CustodyOwnedOnce'
    BY <1>0, <1>25, VfsAssumption
    DEF free_process_close, vfs_close, freed_custody, TypeOK, Call,
        CustodyHeap, LocalsInv,
        CustodyOwnedOnce
  <2> QED
    BY <2>1, <2>2
<1>26. CASE free_process_done
  <2>1. LocalsInv' /\ NoProcessNoFiles'
    BY <1>0, <1>26, VfsAssumption
    DEF free_process_done, Return, Leave, files, TypeOK, Call, Fds, LocalsInv,
        NoProcessNoFiles
  <2>2. CustodyOwnedOnce'
    BY <1>26
    DEF free_process_done, Return, Leave, files, LocalsInv, CustodyOwnedOnce
  <2> QED
    BY <2>1, <2>2
<1>27. CASE UNCHANGED vars
  <2>1. LocalsInv' /\ NoProcessNoFiles'
    BY <1>0, <1>27, VfsAssumption
    DEF vars, files, locals, TypeOK, Call, Fds, LocalsInv,
        NoProcessNoFiles
  <2>2. CustodyOwnedOnce'
    BY <1>27 DEF vars, files, locals, LocalsInv, CustodyOwnedOnce
  <2> QED
    BY <2>1, <2>2
<1> QED
  BY <1>1, <1>2, <1>3, <1>4, <1>5, <1>6, <1>7, <1>8, <1>9, <1>10, <1>11,
     <1>12, <1>13, <1>14, <1>15, <1>16, <1>17, <1>18, <1>19, <1>20, <1>21,
     <1>22, <1>23, <1>24, <1>25, <1>26, <1>27
  DEF Next, OpenNext, PipeNext, FdNext, ProcNext

-----------------------------------------------------------------------------
(* Reference counts                                                        *)

\* A step settles an inode: its count is the number of its references again,
\* it is cached exactly when it has been opened, and the filesystem is told
\* of a close only when no custody and no kept parent refers to it.
Settled(m) ==
    /\ Balanced(inodes'[m], Refs(m)')
    /\ m \in icache' <=> inodes'[m].ref > 0
    /\ \/ inodes'[m].fs = inodes[m].fs
       \/ inodes[m].ref = 0 /\ inodes'[m].fs = "open"
       \/ Cardinality(Custodians(custody', m)) = 0 /\ kept'[m] = 0

\* The references to an inode, one kind at a time.
LEMMA RefsSum ==
    ASSUME TypeOK, NEW m \in Nodes
    PROVE  /\ Cardinality(Custodians(custody, m)) \in Nat
           /\ kept[m] \in Nat
           /\ Refs(m) \in Nat
           /\ Refs(m) = Cardinality(Custodians(custody, m)) + kept[m]
                          + Count(parent = m) + Count(inode = m)
                          + Count(m \in Mounts)
<1>1. Cardinality(Custodians(custody, m)) \in Nat
  BY CustodiansFinite
<1>2. kept[m] \in Nat
  BY DEF TypeOK
<1> QED
  BY <1>1, <1>2, CountType DEF Refs, Held

\* A custody that refers to an inode is one of its references.
LEMMA CustodyCounts ==
    ASSUME NEW h \in CustodyHeap, NEW c \in Custodies, h[c] \in Nodes
    PROVE  Cardinality(Custodians(h, h[c])) > 0
<1>1. c \in Custodians(h, h[c])
  BY DEF Custodians
<1>2. Custodians(h, h[c]) # {}
  BY <1>1
<1> QED
  BY <1>2, CustodiansFinite, FS_EmptySet

\* vfs_close drops the reference its custody held.
LEMMA CloseCustody ==
    ASSUME TypeOK, NEW c \in Custodies \cup {None}, NEW m \in Nodes,
           c # None => custody[c] # None,
           Balanced(inodes[m], Refs(m)), icache \subseteq Nodes,
           m \in icache <=> inodes[m].ref > 0
    PROVE  \E r \in Nat :
             /\ Refs(m) = r + Cardinality(Custodians(custody, m))
                            - Cardinality(Custodians(freed_custody(c), m))
             /\ Cardinality(Custodians(freed_custody(c), m)) <= r
             /\ closed_inodes(c) \in InodeTable
             /\ freed_custody(c) \in CustodyHeap
             /\ Balanced(closed_inodes(c)[m], r)
             /\ m \in icache <=> closed_inodes(c)[m].ref > 0
             /\ closed_inodes(c)[m].fs = inodes[m].fs \/ r = 0
<1>1. CASE c = None
  <2>1. /\ closed_inodes(c) = inodes /\ freed_custody(c) = custody
        /\ inodes \in InodeTable /\ custody \in CustodyHeap
    BY <1>1 DEF closed_inodes, freed_custody, TypeOK
  <2>2. Cardinality(Custodians(custody, m)) <= Refs(m)
    BY RefsSum, CountType
  <2> QED
    BY <2>1, <2>2, RefsSum
<1>2. CASE c # None
  <2> DEFINE n == custody[c]
             h == freed_custody(c)
             t == closed_inodes(c)
             r == Refs(m) - Count(n = m)
  <2>1. /\ n \in Nodes /\ c \in Custodies /\ custody \in CustodyHeap
        /\ inodes \in InodeTable
        /\ h = [custody EXCEPT ![c] = None] /\ t = close_inode(inodes, n)
    BY <1>2 DEF closed_inodes, freed_custody, TypeOK, CustodyHeap
  <2>2. /\ h \in CustodyHeap
        /\ Cardinality(Custodians(custody, m))
             = Cardinality(Custodians(h, m)) + Count(n = m)
    <3>1. LET g == [custody EXCEPT ![c] = None]
          IN  /\ g \in CustodyHeap
              /\ Cardinality(Custodians(custody, m))
                   = Cardinality(Custodians(g, m)) + Count(n = m)
      <4>1. custody \in CustodyHeap /\ c \in Custodies /\ custody[c] \in Nodes
        BY <2>1, Zenon
      <4> QED
        BY <4>1, FreeCustody, ZenonT(60)
    <3> QED
      BY <2>1, <3>1, Zenon
  <2>3. Cardinality(Custodians(h, m)) \in Nat
    BY CustodiansFinite
  <2> HIDE DEF n, h, t
  <2>4. /\ Cardinality(Custodians(h, m)) <= r
        /\ n = m => Refs(m) > 0
    BY <2>2, <2>3, RefsSum, CountType DEF Count
  <2>5. /\ t \in InodeTable /\ r \in Nat /\ Balanced(t[m], r)
        /\ t[m].ref > 0 <=> inodes[m].ref > 0
        /\ t[m].fs = inodes[m].fs \/ r = 0
    BY <2>1, <2>4, RefsSum, CloseInode
  <2>6. Refs(m) = r + Cardinality(Custodians(custody, m))
                    - Cardinality(Custodians(h, m))
    BY <2>2, <2>3, RefsSum, CountType
  <2> QED
    BY <2>2, <2>4, <2>5, <2>6 DEF h, t
<1> QED
  BY <1>1, <1>2

\* Every step settles every inode.
LEMMA CountStep ==
    ASSUME IInv, [Next]_vars, NEW m \in Nodes
    PROVE  Settled(m)
<1> DEFINE k == Cardinality(Custodians(custody, m))
           kNext == Cardinality(Custodians(custody', m))
           mount == Count(m \in Mounts)
<1>0. /\ TypeOK /\ TypeOK' /\ LocalsInv /\ CustodyOwnedOnce
      /\ inodes \in InodeTable /\ custody \in CustodyHeap
      /\ Balanced(inodes[m], Refs(m))
      /\ m \in icache <=> inodes[m].ref > 0
  BY TypeStep DEF IInv, OwnershipInv, ReferenceInv, IcacheInv, TypeOK,
                  RefcountAccounting
<1>r. /\ k \in Nat /\ kept[m] \in Nat /\ mount \in Nat /\ Refs(m) \in Nat
      /\ Refs(m) = k + kept[m] + Count(parent = m) + Count(inode = m) + mount
  BY <1>0, RefsSum, CountType
<1>s. /\ kNext \in Nat /\ kept'[m] \in Nat
      /\ Refs(m)' = kNext + kept'[m] + Count(parent' = m) + Count(inode' = m)
                      + mount
  <2>1. kNext \in Nat /\ kept'[m] \in Nat
    BY <1>0, CustodiansFinite DEF TypeOK
  <2> QED
    BY <2>1, <1>r, CountType DEF Refs, Held
<1>p. Count(parent = m) \in Nat /\ Count(inode = m) \in Nat
  BY DEF Count
<1>z. /\ Refs(m) - Count(parent = m) = 0 => k = 0 /\ kept[m] = 0
      /\ Refs(m) - Count(parent = m) - Count(inode = m) = 0
           => k = 0 /\ kept[m] = 0
  <2> HIDE DEF k, mount
  <2> QED
    BY <1>r, <1>p, ZeroSum
<1>n. Count(None = m) = 0
  BY VfsAssumption DEF Count
<1>u. ASSUME UNCHANGED <<icache, inodes>>, Refs(m)' = Refs(m)
      PROVE  Settled(m)
  BY <1>0, <1>u DEF Settled
<1> HIDE DEF k, kNext, mount
<1>1. ASSUME NEW p \in Procs, NEW path \in Paths, NEW create \in BOOLEAN,
             NEW directory \in BOOLEAN, sys_open(p, path, create, directory)
      PROVE  Settled(m)
  <2>1. path.root \in Mounts /\ path.root \in Nodes
    BY VfsAssumption
  <2>2. /\ custody' = custody /\ kept' = kept /\ parent' = parent
        /\ inode = None /\ inode' = path.root /\ icache' = icache
        /\ inodes' = open_inode(inodes, path.root)
    BY <1>0, <1>1 DEF sys_open, LocalsInv
  <2>3. Refs(m)' = Refs(m) + Count(path.root = m)
    BY <2>2, <1>r, <1>s, VfsAssumption DEF k, kNext, Count
  <2>4. m = path.root => m \in icache
    BY <1>0, <2>1, <1>r DEF mount, Balanced, InodeTable, Count
  <2> QED
    BY <1>0, <1>r, <2>1, <2>2, <2>3, <2>4, OpenInode DEF Settled
<1>2. ASSUME NEW p \in Procs, sys_create_pipe(p)
      PROVE  Settled(m)
  <2>1. PipeRoot \in Mounts /\ PipeRoot \in Nodes
    BY VfsAssumption
  <2>2. /\ custody' = custody /\ kept' = kept /\ parent' = parent
        /\ inode = None /\ inode' = PipeRoot /\ icache' = icache
        /\ inodes' = open_inode(inodes, PipeRoot)
    BY <1>0, <1>2 DEF sys_create_pipe, LocalsInv
  <2>3. Refs(m)' = Refs(m) + Count(PipeRoot = m)
    BY <2>2, <1>r, <1>s, VfsAssumption DEF k, kNext, Count
  <2>4. m = PipeRoot => m \in icache
    BY <1>0, <2>1, <1>r DEF mount, Balanced, InodeTable, Count
  <2> QED
    BY <1>0, <1>r, <2>1, <2>2, <2>3, <2>4, OpenInode DEF Settled
<1>3. ASSUME NEW n \in Nodes, traverse_found(n)
      PROVE  Settled(m)
  <2> DEFINE t == close_inode(inodes, parent)
             r == Refs(m) - Count(parent = m)
  <2>1. /\ custody' = custody /\ kept' = kept /\ parent' = inode /\ inode' = n
        /\ icache' = icache \cup {n} /\ inodes' = open_inode(t, n)
        /\ parent \in Nodes \cup {None}
    BY <1>0, <1>3 DEF traverse_found, TypeOK
  <2>2. parent = m => Refs(m) > 0
    BY <1>r DEF Count
  <2>3. /\ t \in InodeTable /\ r \in Nat /\ Balanced(t[m], r)
        /\ t[m].ref > 0 <=> inodes[m].ref > 0
        /\ t[m].fs = inodes[m].fs \/ r = 0
    BY <1>0, <1>r, <2>1, <2>2, CloseInode
  <2>4. Refs(m)' = r + Count(n = m)
    BY <2>1, <1>r, <1>s DEF k, kNext, Count
  <2> HIDE DEF t, r
  <2>5. /\ Balanced(inodes'[m], r + Count(n = m))
        /\ inodes'[m].ref > 0 <=> t[m].ref > 0 \/ m = n
        /\ \/ inodes'[m].fs = t[m].fs
           \/ t[m].ref = 0 /\ inodes'[m].fs = "open"
    BY <2>1, <2>3, OpenInode
  <2>6. m \in icache' <=> inodes'[m].ref > 0
    BY <1>0, <2>1, <2>3, <2>5
  <2>7. inodes[m].ref = 0 <=> t[m].ref = 0
    BY <1>0, <2>3 DEF InodeTable
  <2>8. r = 0 => kNext = 0 /\ kept'[m] = 0
    <3>1. kNext = k /\ kept'[m] = kept[m]
      BY <2>1 DEF k, kNext
    <3> QED
      BY <3>1, <1>z DEF r
  <2> QED
    BY <2>3, <2>4, <2>5, <2>6, <2>7, <2>8 DEF Settled, kNext
<1>4. CASE traverse_missing
  <2> DEFINE t == close_inode(inodes, parent)
             r == Refs(m) - Count(parent = m)
  <2>1. /\ custody' = custody /\ kept' = kept /\ parent' = inode
        /\ inode' = None /\ icache' = icache /\ inodes' = t
        /\ parent \in Nodes \cup {None}
    BY <1>0, <1>4 DEF traverse_missing, TypeOK
  <2>2. parent = m => Refs(m) > 0
    BY <1>r DEF Count
  <2>3. /\ r \in Nat /\ Balanced(t[m], r)
        /\ t[m].ref > 0 <=> inodes[m].ref > 0
        /\ t[m].fs = inodes[m].fs \/ r = 0
    BY <1>0, <1>r, <2>1, <2>2, CloseInode
  <2>a. kNext = k /\ kept'[m] = kept[m]
    BY <2>1 DEF k, kNext
  <2>b. Refs(m)' = r
    BY <2>1, <2>a, <1>r, <1>s, VfsAssumption DEF Count
  <2>c. r = 0 => kNext = 0 /\ kept'[m] = 0
    BY <2>a, <1>z
  <2>4. Refs(m)' = r /\ (r = 0 => kNext = 0 /\ kept'[m] = 0)
    BY <2>b, <2>c
  <2> HIDE DEF t, r
  <2> QED
    BY <1>0, <2>1, <2>3, <2>4 DEF Settled, kNext
<1>5. ASSUME inodes' = close_inode(close_inode(inodes, parent), inode),
             Return, UNCHANGED <<icache, custody, kept>>
      PROVE  Settled(m)
  <2> DEFINE t == close_inode(inodes, parent)
             u == close_inode(t, inode)
             r == Refs(m) - Count(parent = m)
             q == r - Count(inode = m)
  <2>1. /\ custody' = custody /\ kept' = kept /\ parent' = None
        /\ inode' = None /\ icache' = icache /\ inodes' = u
        /\ parent \in Nodes \cup {None} /\ inode \in Nodes \cup {None}
    BY <1>0, <1>5 DEF Return, Leave, TypeOK
  <2>2. /\ parent = m => Refs(m) > 0
        /\ inode = m => r > 0
    BY <1>r DEF Count
  <2>3. /\ t \in InodeTable /\ r \in Nat /\ Balanced(t[m], r)
        /\ t[m].ref > 0 <=> inodes[m].ref > 0
        /\ t[m].fs = inodes[m].fs \/ r = 0
    BY <1>0, <1>r, <2>1, <2>2, CloseInode
  <2>4. /\ q \in Nat /\ Balanced(u[m], q)
        /\ u[m].ref > 0 <=> t[m].ref > 0
        /\ u[m].fs = t[m].fs \/ q = 0
    <3> HIDE DEF t, r
    <3> QED
      BY <2>1, <2>2, <2>3, CloseInode
  <2>5. /\ Refs(m)' = q
        /\ r = 0 \/ q = 0 => kNext = 0 /\ kept'[m] = 0
    <3>1. kNext = k /\ kept'[m] = kept[m]
      BY <2>1 DEF k, kNext
    <3>2. Refs(m)' = q
      <4> DEFINE before == Refs(m)
                 kc == kept[m]
                 cp == Count(parent = m)
                 ci == Count(inode = m)
      <4>1. Count(parent' = m) = 0 /\ Count(inode' = m) = 0
        BY <1>n, <2>1, Zenon
      <4>2. /\ k \in Nat /\ kc \in Nat /\ mount \in Nat /\ cp \in {0, 1} /\ ci \in {0, 1}
            /\ before = k + kc + cp + ci + mount
        BY <1>r, CountType, Zenon
      <4>3. Refs(m)' = k + kc + 0 + 0 + mount
        BY <1>s, <3>1, <4>1, Zenon
      <4>4. q = before - cp - ci
        OBVIOUS
      <4> HIDE DEF before, kc, cp, ci, k, mount, q
      <4> QED
        BY <4>2, <4>3, <4>4
    <3>3. r = 0 \/ q = 0 => kNext = 0 /\ kept'[m] = 0
      BY <3>1, <1>z
    <3> QED
      BY <3>2, <3>3
  <2> HIDE DEF t, u, r, q
  <2> QED
    BY <1>0, <2>1, <2>3, <2>4, <2>5 DEF Settled, kNext
<1>6. ASSUME NEW n \in Nodes, create_inode(n)
      PROVE  Settled(m)
  <2>1. /\ custody' = custody /\ kept' = kept /\ parent' = parent
        /\ inode = None /\ inode' = n /\ icache' = icache \cup {n}
        /\ inodes' = open_inode(inodes, n)
    BY <1>0, <1>6 DEF create_inode, LocalsInv
  <2>2. Refs(m)' = Refs(m) + Count(n = m)
    BY <2>1, <1>r, <1>s, VfsAssumption DEF k, kNext, Count
  <2> QED
    BY <1>0, <1>r, <2>1, <2>2, OpenInode DEF Settled
<1>7. CASE open_missing_fails
  <2> DEFINE t == close_inode(inodes, parent)
             r == Refs(m) - Count(parent = m)
  <2>1. /\ custody' = custody /\ kept' = kept /\ parent' = None
        /\ inode = None /\ inode' = None /\ icache' = icache /\ inodes' = t
        /\ parent \in Nodes \cup {None}
    BY <1>0, <1>7 DEF open_missing_fails, Return, Leave, LocalsInv, TypeOK
  <2>2. parent = m => Refs(m) > 0
    BY <1>r DEF Count
  <2>3. /\ r \in Nat /\ Balanced(t[m], r)
        /\ t[m].ref > 0 <=> inodes[m].ref > 0
        /\ t[m].fs = inodes[m].fs \/ r = 0
    BY <1>0, <1>r, <2>1, <2>2, CloseInode
  <2>a. kNext = k /\ kept'[m] = kept[m]
    BY <2>1 DEF k, kNext
  <2>b. Refs(m)' = r
    BY <2>1, <2>a, <1>r, <1>s, VfsAssumption DEF Count
  <2>c. r = 0 => kNext = 0 /\ kept'[m] = 0
    BY <2>a, <1>z
  <2>4. Refs(m)' = r /\ (r = 0 => kNext = 0 /\ kept'[m] = 0)
    BY <2>b, <2>c
  <2> HIDE DEF t, r
  <2> QED
    BY <1>0, <2>1, <2>3, <2>4 DEF Settled, kNext
<1>8. CASE open_refused
  BY <1>5, <1>8 DEF open_refused
<1>9. ASSUME NEW c \in Custodies, alloc_custody(c), parent' = None,
             inode' = None
      PROVE  Settled(m)
  <2>1. /\ custody' = [custody EXCEPT ![c] = inode] /\ custody[c] = None
        /\ inode \in Nodes
        /\ kept' = IF parent = None THEN kept
                                   ELSE [kept EXCEPT ![parent] = @ + 1]
        /\ icache' = icache /\ inodes' = inodes
    BY <1>0, <1>9 DEF alloc_custody, LocalsInv, TypeOK
  <2>2. kNext = k + Count(inode = m)
    <3>1. LET g == [custody EXCEPT ![c] = inode]
          IN  Cardinality(Custodians(g, m)) = k + Count(inode = m)
      BY <1>0, <2>1, AllocCustody DEF k, Count
    <3> QED
      BY <2>1, <3>1 DEF kNext
  <2>3. kept'[m] = kept[m] + Count(parent = m)
    BY <1>0, <1>r, <2>1, VfsAssumption DEF TypeOK, Count
  <2>4. Refs(m)' = Refs(m)
    BY <1>9, <2>2, <2>3, <1>r, <1>s, <1>p, <1>n
  <2> QED
    BY <1>u, <2>1, <2>4
<1>10. ASSUME NEW c \in Custodies, NEW source \in Custodies,
              custody[source] # None, custody[c] = None,
              custody' = [custody EXCEPT ![c] = custody[source]],
              inodes' = vfs_duplicate(inodes, custody[source]),
              UNCHANGED <<icache, kept, parent, inode>>
       PROVE  Settled(m)
  <2> DEFINE n == custody[source]
  <2>1. n \in Nodes
    BY <1>0, <1>10 DEF CustodyHeap
  <2>2. kNext = k + Count(n = m)
    <3>1. LET g == [custody EXCEPT ![c] = n]
          IN  Cardinality(Custodians(g, m)) = k + Count(n = m)
      BY <1>0, <1>10, <2>1, AllocCustody DEF k, Count
    <3> QED
      BY <1>10, <3>1 DEF kNext
  <2>3. Refs(m)' = Refs(m) + Count(n = m)
    BY <1>10, <2>2, <1>r, <1>s DEF Count
  <2>4. m = n => inodes[m].ref > 0
    <3>1. m = n => k > 0
      BY <1>0, <2>1, CustodyCounts DEF k
    <3> QED
      BY <3>1, <1>0, <1>r DEF Balanced, InodeTable, Count
  <2> HIDE DEF n
  <2>5. /\ inodes' = vfs_duplicate(inodes, n)
        /\ icache' = icache
    BY <1>10 DEF n
  <2> QED
    BY <1>0, <1>r, <2>1, <2>3, <2>4, <2>5, Duplicate DEF Settled
<1>11. ASSUME NEW c \in Custodies \cup {None}, c # None => custody[c] # None,
              vfs_close(c), UNCHANGED <<icache, kept, parent, inode>>
       PROVE  Settled(m)
  <2>1. PICK r \in Nat :
          /\ Refs(m) = r + k - Cardinality(Custodians(freed_custody(c), m))
          /\ Cardinality(Custodians(freed_custody(c), m)) <= r
          /\ Balanced(closed_inodes(c)[m], r)
          /\ m \in icache <=> closed_inodes(c)[m].ref > 0
          /\ closed_inodes(c)[m].fs = inodes[m].fs \/ r = 0
    <3>a. icache \subseteq Nodes
      BY <1>0 DEF TypeOK
    <3> QED
      BY <1>0, <1>11, <3>a, CloseCustody DEF k
  <2>2. custody' = freed_custody(c) /\ inodes' = closed_inodes(c)
    BY <1>11 DEF vfs_close
  <2>3. Refs(m)' = r /\ (r = 0 => kNext = 0 /\ kept'[m] = 0)
    BY <1>11, <2>1, <2>2, <1>r, <1>s DEF kNext, Count
  <2> QED
    BY <1>11, <2>1, <2>2, <2>3 DEF Settled, kNext
<1>12. ASSUME NEW c \in Custodies, create_pipe_no_fds(c)
       PROVE  Settled(m)
  <2> DEFINE n == custody[sender]
             t == vfs_duplicate(inodes, n)
             u == close_inode(t, n)
             v == close_inode(u, n)
             one == Count(n = m)
  <2>1. /\ sender \in Custodies /\ n \in Nodes /\ parent = None /\ inode = None
        /\ custody' = [custody EXCEPT ![sender] = None]
        /\ inodes' = v /\ icache' = icache /\ kept' = kept
        /\ parent' = None /\ inode' = None
    BY <1>0, <1>12
    DEF create_pipe_no_fds, Return, Leave, LocalsInv, CustodyOwnedOnce, TypeOK,
        CustodyHeap
  <2>2. k = kNext + one
    BY <1>0, <2>1, FreeCustody DEF k, kNext
  <2>3. n = m => one = 1 /\ Refs(m) > 0
    BY <2>2, <1>r, <1>s DEF Count
  <2>4. one \in Nat
    BY DEF Count
  <2> HIDE DEF n
  <2> HIDE DEF one
  <2>5. /\ t \in InodeTable /\ Balanced(t[m], Refs(m) + one)
        /\ t[m].ref > 0 <=> inodes[m].ref > 0 \/ m = n
        /\ t[m].fs = inodes[m].fs
    BY <1>0, <1>r, <2>1, Duplicate DEF one
  <2> HIDE DEF t
  <2>6. /\ u \in InodeTable /\ Balanced(u[m], Refs(m))
        /\ u[m].ref > 0 <=> t[m].ref > 0
        /\ u[m].fs = t[m].fs \/ Refs(m) = 0
    <3>1. Refs(m) + one \in Nat /\ (n = m => Refs(m) + one > 0)
      BY <1>r, <2>3, <2>4
    <3> QED
      <4> DEFINE s == Refs(m) + one
      <4>1. s \in Nat /\ (n = m => s > 0) /\ Balanced(t[m], s)
        BY <2>5, <3>1
      <4> HIDE DEF s
      <4>2. /\ u \in InodeTable /\ Balanced(u[m], s - Count(n = m))
            /\ u[m].ref > 0 <=> t[m].ref > 0
            /\ u[m].fs = t[m].fs \/ s - Count(n = m) = 0
        BY <2>1, <2>5, <4>1, CloseInode
      <4>3. s - Count(n = m) = Refs(m)
        BY <1>r, <2>4 DEF s, one
      <4> QED
        BY <4>2, <4>3
  <2> HIDE DEF u
  <2>8. /\ Refs(m) - one \in Nat /\ Balanced(v[m], Refs(m) - one)
        /\ v[m].ref > 0 <=> u[m].ref > 0
        /\ v[m].fs = u[m].fs \/ Refs(m) - one = 0
    BY <1>r, <2>1, <2>3, <2>6, CloseInode DEF one
  <2>9. /\ Refs(m)' = Refs(m) - one
        /\ Refs(m) = 0 \/ Refs(m) - one = 0 => kNext = 0 /\ kept'[m] = 0
    BY <2>1, <2>2, <2>4, <1>r, <1>s, VfsAssumption DEF Count
  <2>10. m = n => inodes[m].ref > 0
    BY <1>0, <1>r, <2>3 DEF Balanced, InodeTable, Count
  <2> HIDE DEF v
  <2> QED
    BY <1>0, <2>1, <2>5, <2>6, <2>8, <2>9, <2>10 DEF Settled, kNext
<1>13. CASE create_pipe_no_memory
  <2>1. /\ sender \in Custodies /\ custody[sender] # None /\ sender # None
        /\ parent = None /\ inode = None
        /\ custody' = [custody EXCEPT ![sender] = None]
        /\ inodes' = close_inode(inodes, custody[sender])
        /\ UNCHANGED <<icache, kept>> /\ parent' = None /\ inode' = None
    BY <1>0, <1>13
    DEF create_pipe_no_memory, Return, Leave, LocalsInv, CustodyOwnedOnce,
        TypeOK
  <2>2. vfs_close(sender)
    BY <2>1 DEF vfs_close, closed_inodes, freed_custody
  <2> QED
    BY <2>1, <2>2, <1>11
<1>14. ASSUME NEW p \in Procs, NEW fd \in Fds
       PROVE  /\ openfiles[p][fd] \in Custodies \cup {None}
              /\ openfiles[p][fd] # None => custody[openfiles[p][fd]] # None
  BY <1>0 DEF TypeOK, CustodyOwnedOnce
<1>15. ASSUME NEW p \in Procs, NEW fd \in Fds, sys_close(p, fd)
       PROVE  Settled(m)
  BY <1>11, <1>14, <1>15 DEF sys_close, locals
<1>16. ASSUME NEW p \in Procs, NEW fd \in Fds, sys_dup2_self(p, fd)
       PROVE  Settled(m)
  <2>1. parent' = parent /\ inode' = inode
    BY <1>0, <1>16 DEF sys_dup2_self, Leave, LocalsInv
  <2> QED
    BY <1>11, <1>14, <1>16, <2>1 DEF sys_dup2_self
<1>17. ASSUME NEW p \in Procs, NEW fd \in Fds, NEW new_fd \in Fds,
              sys_movefd(p, fd, new_fd)
       PROVE  Settled(m)
  BY <1>11, <1>14, <1>17 DEF sys_movefd, locals
<1>18. ASSUME NEW p \in Procs, NEW fd \in Fds, NEW new_fd \in Fds,
              NEW c \in Custodies \cup {None}, sys_dup2(p, fd, new_fd, c)
       PROVE  Settled(m)
  <2> DEFINE old == openfiles[p][new_fd]
             src == openfiles[p][fd]
             n == custody[src]
             t == closed_inodes(old)
             h == freed_custody(old)
             kh == Cardinality(Custodians(h, m))
  <2>1. /\ old \in Custodies \cup {None} /\ src \in Custodies
        /\ old # None => custody[old] # None
        /\ src # old /\ n \in Nodes /\ h[src] = n
        /\ UNCHANGED <<icache, kept, parent, inode>>
    <3>1. /\ old \in Custodies \cup {None} /\ src \in Custodies
          /\ old # None => custody[old] # None
          /\ src # None /\ custody[src] # None
      BY <1>14, <1>18 DEF sys_dup2
    <3>2. src # old
      BY <1>0, <1>18, <3>1 DEF sys_dup2, CustodyOwnedOnce
    <3>3. n \in Nodes /\ h[src] = n
      BY <1>0, <3>1, <3>2 DEF freed_custody, CustodyHeap
    <3> QED
      BY <1>18, <3>1, <3>2, <3>3 DEF sys_dup2, locals
  <2>2. CASE c = None
    <3>1. vfs_close(old)
      BY <1>18, <2>2 DEF sys_dup2, vfs_close
    <3> QED
      BY <1>11, <2>1, <3>1
  <2>3. CASE c # None
    <3>1. /\ c \in Custodies /\ h[c] = None
          /\ inodes' = vfs_duplicate(t, n)
          /\ custody' = [h EXCEPT ![c] = n]
      BY <1>18, <2>3 DEF sys_dup2
    <3>2. PICK r \in Nat :
            /\ Refs(m) = r + k - kh /\ kh <= r
            /\ t \in InodeTable /\ h \in CustodyHeap
            /\ Balanced(t[m], r)
            /\ m \in icache <=> t[m].ref > 0
            /\ t[m].fs = inodes[m].fs \/ r = 0
      <4>a. icache \subseteq Nodes
        BY <1>0 DEF TypeOK
      <4> QED
        BY <1>0, <2>1, <4>a, CloseCustody DEF k
    <3> HIDE DEF t, h, n
    <3>3. kNext = kh + Count(n = m)
      <4>1. LET g == [h EXCEPT ![c] = n]
            IN  Cardinality(Custodians(g, m)) = kh + Count(n = m)
        <5>1. /\ h \in CustodyHeap /\ c \in Custodies /\ h[c] = None
              /\ n \in Nodes
          BY <2>1, <3>1, <3>2
        <5> QED
          BY <5>1, AllocCustody DEF kh, Count
      <4> QED
        BY <3>1, <4>1 DEF kNext
    <3>4. kh \in Nat /\ (n = m => kh > 0)
      BY <2>1, <3>2, CustodyCounts, CustodiansFinite
    <3> HIDE DEF kh
    <3>5. Refs(m)' = r + Count(n = m)
      BY <2>1, <3>2, <3>3, <3>4, <1>r, <1>s DEF Count
    <3>6. /\ Balanced(inodes'[m], r + Count(n = m))
          /\ inodes'[m].ref > 0 <=> t[m].ref > 0 \/ m = n
          /\ inodes'[m].fs = t[m].fs
      BY <2>1, <3>1, <3>2, Duplicate
    <3>7. m = n => t[m].ref > 0
      BY <3>2, <3>4 DEF Balanced, InodeTable, Count
    <3>8. r = 0 => kNext = 0 /\ kept'[m] = 0
      <4> HAVE r = 0
      <4>1. kh = 0
        BY <3>2, <3>4
      <4>2. n # m
        BY <3>4, <4>1
      <4>3. Count(n = m) = 0
        BY <4>2 DEF Count
      <4>4. kNext = 0
        BY <3>3, <4>1, <4>3
      <4>5. Refs(m) = k
        BY <3>2, <4>1, <1>r
      <4>6. kept[m] = 0
        BY <4>5, <1>r, <1>p
      <4> QED
        BY <2>1, <4>4, <4>6
    <3> QED
      BY <2>1, <3>2, <3>5, <3>6, <3>7, <3>8 DEF Settled, kNext
  <2> QED
    BY <2>2, <2>3
<1>19. ASSUME NEW c \in Custodies, create_pipe_succeeds(c)
       PROVE  Settled(m)
  <2>1. /\ sender \in Custodies /\ custody[sender] # None
        /\ UNCHANGED <<parent, inode>>
    BY <1>0, <1>19
    DEF create_pipe_succeeds, Return, Leave, LocalsInv, CustodyOwnedOnce,
        TypeOK
  <2> QED
    BY <1>10, <1>19, <2>1 DEF create_pipe_succeeds
<1>20. ASSUME NEW c \in Custodies, fork_duplicate(c)
       PROVE  Settled(m)
  <2>1. call.proc \in Procs /\ slot \in Fds
    BY <1>0, <1>20, VfsAssumption DEF fork_duplicate, TypeOK, Call, Fds
  <2> QED
    BY <1>10, <1>14, <1>20, <2>1 DEF fork_duplicate
<1>21. CASE free_process_close
  <2>1. call.proc \in Procs /\ slot \in Fds
    BY <1>0, <1>21, VfsAssumption DEF free_process_close, TypeOK, Call, Fds
  <2> QED
    BY <1>11, <1>14, <1>21, <2>1 DEF free_process_close
<1>22. ASSUME UNCHANGED <<files, parent, inode>>
       PROVE  Settled(m)
  <2>1. Refs(m)' = Refs(m)
    BY <1>22, <1>r, <1>s DEF files, k, kNext
  <2> QED
    BY <1>22, <2>1, <1>u DEF files
<1>23. CASE ProcNext
  <2>1. ASSUME fork_done \/ fork_fails \/ free_process_done
        PROVE  UNCHANGED <<files, parent, inode>>
    BY <1>0, <2>1
    DEF fork_done, fork_fails, free_process_done, Return, Leave, LocalsInv
  <2>2. ASSUME NEW p \in Procs, NEW q \in Procs,
               sys_fork(p, q) \/ sys_exit(p) \/ free_process(p) \/ fork_skip
        PROVE  UNCHANGED <<files, parent, inode>>
    BY <2>2 DEF sys_fork, sys_exit, free_process, fork_skip, locals
  <2> QED
    BY <1>20, <1>21, <1>22, <1>23, <2>1, <2>2, VfsAssumption DEF ProcNext
<1>24. CASE FdNext
  BY <1>15, <1>16, <1>17, <1>18, <1>24 DEF FdNext
<1>25. CASE PipeNext
  BY <1>12, <1>13, <1>19, <1>25 DEF PipeNext
<1>26. CASE OpenNext
  <2>1. ASSUME NEW c \in Custodies, open_succeeds(c) \/ pipe_opened(c)
        PROVE  Settled(m)
    BY <1>9, <2>1 DEF open_succeeds, pipe_opened, Return, Leave
  <2>2. CASE traverse_failed
    BY <1>5, <2>2 DEF traverse_failed
  <2> QED
    BY <1>1, <1>2, <1>3, <1>4, <1>6, <1>7, <1>8, <1>26, <2>1, <2>2 DEF OpenNext
<1>27. CASE UNCHANGED vars
  BY <1>22, <1>27 DEF vars, locals
<1> QED
  BY <1>23, <1>24, <1>25, <1>26, <1>27 DEF Next

\* A step makes no custody refer to an inode that was not in use before it:
\* a walk had reached the inode, or another custody referred to it.
LEMMA HeapStep ==
    ASSUME IInv, [Next]_vars, NEW c \in Custodies, custody'[c] # None
    PROVE  \/ pc = "walk" /\ custody'[c] = inode
           \/ \E s \in Custodies : custody[s] = custody'[c]
<1> DEFINE Goal == \/ pc = "walk" /\ custody'[c] = inode
                   \/ \E s \in Custodies : custody[s] = custody'[c]
<1>0. TypeOK /\ LocalsInv /\ CustodyOwnedOnce /\ custody \in CustodyHeap
  BY DEF IInv, OwnershipInv, TypeOK
<1>1. ASSUME NEW d \in Custodies, NEW s \in Custodies,
             custody' = [custody EXCEPT ![d] = custody[s]]
      PROVE  Goal
  BY <1>0, <1>1 DEF CustodyHeap
<1>2. ASSUME NEW d \in Custodies, alloc_custody(d)
      PROVE  Goal
  BY <1>0, <1>2 DEF alloc_custody, CustodyHeap
<1>3. ASSUME NEW d \in Custodies \cup {None}, custody' = freed_custody(d)
      PROVE  Goal
  BY <1>0, <1>3 DEF freed_custody, CustodyHeap
<1>4. CASE custody' = custody
  BY <1>4
<1>5. ASSUME NEW p \in Procs, NEW fd \in Fds
      PROVE  openfiles[p][fd] \in Custodies \cup {None}
  BY <1>0 DEF TypeOK
<1>6. CASE PipeNext
  <2>1. sender \in Custodies
    BY <1>0, <1>6 DEF PipeNext, create_pipe_succeeds, create_pipe_no_fds,
                      create_pipe_no_memory, LocalsInv, TypeOK
  <2>2. ASSUME NEW d \in Custodies, create_pipe_succeeds(d)
        PROVE  Goal
    BY <1>1, <2>1, <2>2 DEF create_pipe_succeeds
  <2>3. CASE custody' = [custody EXCEPT ![sender] = None]
    BY <1>0, <2>1, <2>3 DEF CustodyHeap
  <2> QED
    BY <1>6, <2>2, <2>3 DEF PipeNext, create_pipe_no_fds, create_pipe_no_memory
<1>7. CASE FdNext
  <2>1. ASSUME NEW p \in Procs, NEW fd \in Fds, NEW new_fd \in Fds,
               NEW d \in Custodies \cup {None}, sys_dup2(p, fd, new_fd, d)
        PROVE  Goal
    <3> DEFINE h == freed_custody(openfiles[p][new_fd])
               src == openfiles[p][fd]
    <3>1. h \in CustodyHeap /\ \A s \in Custodies : h[s] \in {custody[s], None}
      BY <1>0, <1>5 DEF freed_custody, CustodyHeap
    <3>2. src \in Custodies
      BY <1>5, <2>1 DEF sys_dup2
    <3>3. \/ custody' = h
          \/ d \in Custodies /\ custody' = [h EXCEPT ![d] = custody[src]]
      BY <2>1 DEF sys_dup2
    <3> HIDE DEF h, src
    <3> QED
      BY <3>1, <3>2, <3>3 DEF CustodyHeap
  <2>2. ASSUME NEW p \in Procs, NEW fd \in Fds, NEW new_fd \in Fds,
               \/ sys_close(p, fd)
               \/ sys_dup2_self(p, fd)
               \/ sys_movefd(p, fd, new_fd)
        PROVE  Goal
    BY <1>3, <1>5, <2>2
    DEF sys_close, sys_dup2_self, sys_movefd, vfs_close
  <2> QED
    BY <1>7, <2>1, <2>2 DEF FdNext
<1>8. CASE ProcNext
  <2>1. ASSUME NEW d \in Custodies, fork_duplicate(d)
        PROVE  Goal
    <3>1. openfiles[call.proc][slot] \in Custodies
      BY <1>0, <1>5, <2>1, VfsAssumption DEF fork_duplicate, TypeOK, Call, Fds
    <3> QED
      BY <1>1, <2>1, <3>1 DEF fork_duplicate
  <2>2. CASE free_process_close
    <3>1. openfiles[call.proc][slot] \in Custodies \cup {None}
      BY <1>0, <1>5, <2>2, VfsAssumption DEF free_process_close, TypeOK, Call,
                                            Fds
    <3> QED
      BY <1>3, <2>2, <3>1 DEF free_process_close, vfs_close
  <2> QED
    BY <1>4, <1>8, <2>1, <2>2
    DEF ProcNext, sys_fork, fork_skip, fork_done, fork_fails, sys_exit,
        free_process, free_process_done, files
<1>9. CASE OpenNext
  BY <1>2, <1>4, <1>9
  DEF OpenNext, sys_open, sys_create_pipe, traverse_found, create_inode,
      traverse_missing, traverse_failed, open_missing_fails, open_refused,
      open_succeeds, pipe_opened
<1>10. CASE UNCHANGED vars
  BY <1>4, <1>10 DEF vars, files
<1> QED
  BY <1>6, <1>7, <1>8, <1>9, <1>10 DEF Next

\* The icache stays within what the filesystem knows, and a walk that reaches
\* a pipe has just opened it.
LEMMA IcacheStep ==
    ASSUME IInv, [Next]_vars
    PROVE  /\ icache' \subseteq exists'
           /\ pc' = "walk" /\ inode' \in Pipes => inodes'[inode'].fs = "open"
<1>0. /\ TypeOK /\ LocalsInv /\ icache \subseteq exists
      /\ inodes \in InodeTable
      /\ \A n \in Nodes : n \in icache <=> inodes[n].ref > 0
      /\ pc = "walk" /\ inode \in Pipes => inodes[inode].fs = "open"
  BY DEF IInv, OwnershipInv, ReferenceInv, IcacheInv, TypeOK
<1>1. ASSUME NEW p \in Procs, NEW path \in Paths, NEW create \in BOOLEAN,
             NEW directory \in BOOLEAN, sys_open(p, path, create, directory)
      PROVE  inode' \notin Pipes
  BY <1>1, VfsAssumption DEF sys_open
<1>2. ASSUME NEW p \in Procs, sys_create_pipe(p)
      PROVE  inode' \notin Pipes
  BY <1>2, VfsAssumption DEF sys_create_pipe
<1>3. ASSUME NEW n \in Nodes, traverse_found(n), n \in Pipes
      PROVE  inodes'[n].fs = "open"
  <2> DEFINE t == close_inode(inodes, parent)
  <2>1. Head(rest) \in Names /\ parent \in Nodes \cup {None}
    BY <1>0, <1>3 DEF traverse_found, TypeOK
  <2>2. n \notin exists
    BY <1>3, <2>1, VfsAssumption DEF traverse_found, lookup, Names
  <2>3. inodes[n].ref = 0
    BY <1>0, <2>2 DEF InodeTable
  <2>4. parent # n
    <3>1. Balanced(inodes[n], Refs(n)) /\ Refs(n) \in Nat
      BY <1>0, RefsSum DEF IInv, ReferenceInv, RefcountAccounting
    <3>2. Refs(n) = 0
      BY <2>3, <3>1, <1>0 DEF Balanced, InodeTable, Count
    <3>3. Count(parent = n) = 0
      BY <3>2, <1>0, RefsSum, CountType DEF Count
    <3> QED
      BY <3>3 DEF Count
  <2>5. t[n] = inodes[n]
    BY <2>1, <2>4, <1>0 DEF close_inode, InodeTable
  <2>6. inodes' = open_inode(t, n) /\ t \in InodeTable
    BY <1>0, <1>3, <2>1, CloseType DEF traverse_found
  <2> HIDE DEF t
  <2> QED
    BY <2>3, <2>5, <2>6 DEF open_inode, InodeTable
<1>4. ASSUME NEW n \in Nodes, create_inode(n)
      PROVE  n \notin Pipes
  <2>1. Head(rest) \in Names
    BY <1>0, <1>4 DEF create_inode, LocalsInv, TypeOK
  <2> QED
    BY <1>4, <2>1, VfsAssumption DEF create_inode, Names
<1>5. icache' \subseteq exists'
  <2>1. CASE OpenNext
    BY <1>0, <2>1
    DEF OpenNext, sys_open, sys_create_pipe, traverse_found, create_inode,
        traverse_missing, traverse_failed, lookup_inode_fails,
        open_missing_fails, open_refused, open_succeeds, pipe_opened,
        alloc_custody
  <2>2. CASE PipeNext
    BY <1>0, <2>2 DEF PipeNext, create_pipe_succeeds, create_pipe_no_fds,
                      create_pipe_no_memory
  <2>3. CASE FdNext
    BY <1>0, <2>3 DEF FdNext, sys_close, sys_movefd, sys_dup2, sys_dup2_self
  <2>4. CASE ProcNext
    BY <1>0, <2>4
    DEF ProcNext, sys_fork, fork_skip, fork_duplicate, fork_done, fork_fails,
        sys_exit, free_process, free_process_close, free_process_done, files
  <2>5. CASE UNCHANGED vars
    BY <1>0, <2>5 DEF vars, files
  <2> QED
    BY <2>1, <2>2, <2>3, <2>4, <2>5 DEF Next
<1>6. CASE OpenNext
  <2>1. CASE \/ traverse_missing \/ traverse_failed
             \/ open_missing_fails \/ open_refused
    BY <1>5, <2>1 DEF traverse_missing, traverse_failed, open_missing_fails,
                      open_refused, Return, Leave
  <2>2. ASSUME NEW c \in Custodies, open_succeeds(c) \/ pipe_opened(c)
        PROVE  pc' # "walk"
    BY <2>2 DEF open_succeeds, pipe_opened, Return, Leave
  <2>3. ASSUME NEW n \in Nodes, traverse_found(n) \/ create_inode(n)
        PROVE  inode' = n
    BY <2>3 DEF traverse_found, create_inode
  <2>4. CASE pc' # "walk"
    BY <1>5, <2>4
  <2> QED
    BY <1>1, <1>2, <1>3, <1>4, <1>5, <1>6, <2>1, <2>2, <2>3, <2>4 DEF OpenNext
<1>7. CASE PipeNext \/ FdNext \/ ProcNext
  <2>1. pc' # "walk"
    <3>1. CASE PipeNext
      BY <3>1 DEF PipeNext, create_pipe_succeeds, create_pipe_no_fds,
                  create_pipe_no_memory, Return, Leave
    <3>2. CASE FdNext
      BY <3>2 DEF FdNext, sys_close, sys_movefd, sys_dup2, sys_dup2_self,
                  locals, Leave
    <3>3. CASE ProcNext
      BY <3>3 DEF ProcNext, sys_fork, fork_skip, fork_duplicate, fork_done,
                  fork_fails, sys_exit, free_process, free_process_close,
                  free_process_done, locals, Return, Leave
    <3> QED
      BY <1>7, <3>1, <3>2, <3>3
  <2> QED
    BY <1>5, <2>1
<1>8. CASE UNCHANGED vars
  BY <1>0, <1>5, <1>8 DEF vars, files, locals
<1> QED
  BY <1>6, <1>7, <1>8 DEF Next

\* The whole invariant is preserved by every step.
LEMMA InvariantStep == IInv /\ [Next]_vars => IInv'
<1> SUFFICES ASSUME IInv, [Next]_vars PROVE IInv'
  OBVIOUS
<1>1. OwnershipInv'
  BY OwnershipStep DEF IInv
<1>2. ASSUME NEW m \in Nodes PROVE Settled(m)
  BY CountStep
<1>3. RefcountAccounting'
  BY <1>2 DEF RefcountAccounting, Settled
<1>4. IcacheInv'
  <2>1. /\ icache' \subseteq exists'
        /\ pc' = "walk" /\ inode' \in Pipes => inodes'[inode'].fs = "open"
    BY IcacheStep
  <2>2. \A n \in Nodes : n \in icache' <=> inodes'[n].ref > 0
    BY <1>2 DEF Settled
  <2> QED
    BY <2>1, <2>2 DEF IcacheInv
<1>5. PipeStaysOpen'
  <2> SUFFICES ASSUME NEW c \in Custodies, custody'[c] \in Pipes
               PROVE  inodes'[custody'[c]].fs = "open"
    BY DEF PipeStaysOpen
  <2> DEFINE m == custody'[c]
  <2>1. m \in Nodes /\ m # None /\ custody' \in CustodyHeap
    BY <1>1, VfsAssumption DEF OwnershipInv, TypeOK
  <2>2. inodes[m].fs = "open"
    <3>1. \/ pc = "walk" /\ m = inode
          \/ \E s \in Custodies : custody[s] = m
      BY <2>1, HeapStep
    <3> QED
      BY <3>1 DEF IInv, ReferenceInv, IcacheInv, PipeStaysOpen
  <2>3. Cardinality(Custodians(custody', m)) # 0
    BY <2>1, CustodyCounts
  <2> QED
    BY <1>2, <2>1, <2>2, <2>3 DEF Settled
<1> QED
  BY <1>1, <1>3, <1>4, <1>5 DEF IInv, ReferenceInv

\* The kernel boots into the invariant.
LEMMA InvariantInit == Init => IInv
<1> SUFFICES ASSUME Init PROVE IInv
  OBVIOUS
<1>1. TypeOK
  <2>1. NoCall \in Call
    BY CallOfType, VfsAssumption DEF NoCall
  <2>2. inodes \in InodeTable /\ custody \in CustodyHeap
    BY DEF Init, vfs_mount, InodeTable, CustodyHeap
  <2>3. icache \subseteq Nodes /\ exists \subseteq Nodes
    BY VfsAssumption DEF Init
  <2>4. slot \in 0 .. MaxFd /\ rest \in Seq(Names)
    BY VfsAssumption DEF Init
  <2> QED
    BY <2>1, <2>2, <2>3, <2>4 DEF Init, TypeOK
<1>2. LocalsInv /\ NoProcessNoFiles
  BY VfsAssumption DEF Init, LocalsInv, NoProcessNoFiles
<1>3. CustodyOwnedOnce /\ PipeStaysOpen
  BY VfsAssumption DEF Init, CustodyOwnedOnce, PipeStaysOpen
<1>4. IcacheInv
  BY VfsAssumption DEF Init, IcacheInv, vfs_mount
<1>5. RefcountAccounting
  <2> SUFFICES ASSUME NEW m \in Nodes PROVE Balanced(inodes[m], Refs(m))
    BY DEF RefcountAccounting
  <2>1. Custodians(custody, m) = {}
    BY VfsAssumption DEF Init, Custodians
  <2>2. Cardinality(Custodians(custody, m)) = 0
    BY <2>1, FS_EmptySet
  <2>3. Refs(m) = Count(m \in Mounts)
    BY <2>2, VfsAssumption DEF Init, Refs, Held, Count
  <2> QED
    BY <2>3 DEF Init, Balanced, vfs_mount, Count
<1> QED
  BY <1>1, <1>2, <1>3, <1>4, <1>5 DEF IInv, OwnershipInv, ReferenceInv

\* Types, the ownership of custodies and the reference counts of inodes hold
\* in every state the VFS reaches, for any number of processes, descriptors,
\* custodies and inodes.
THEOREM VfsInvariant == Spec => []IInv
<1>1. IInv /\ [Next]_vars => IInv'
  BY InvariantStep
<1> QED
  BY InvariantInit, <1>1, PTL DEF Spec

\* The reference count of an inode is always the number of references to it:
\* close_inode's kassert(refcount > 0) never fails and no filesystem is told
\* twice that an inode is closed.
THEOREM RefcountCorrect == Spec => []RefcountAccounting
<1>1. IInv => RefcountAccounting
  BY DEF IInv, ReferenceInv
<1> QED
  BY VfsInvariant, <1>1, PTL

\* No FileCustody is shared, leaked or used after vfs_close freed it.
THEOREM CustodyCorrect == Spec => []CustodyOwnedOnce
<1>1. IInv => CustodyOwnedOnce
  BY DEF IInv, OwnershipInv
<1> QED
  BY VfsInvariant, <1>1, PTL

\* The buffer of a pipe lives as long as a descriptor of it.
THEOREM PipeCorrect == Spec => []PipeStaysOpen
<1>1. IInv => PipeStaysOpen
  BY DEF IInv, ReferenceInv
<1> QED
  BY VfsInvariant, <1>1, PTL

\* The filesystem's close_inode is called only by the last user of an inode.
THEOREM CloseIsLastCorrect == Spec => CloseIsLast
<1> DEFINE Last == \A n \in Nodes :
                     inodes[n].fs # "closed" /\ inodes'[n].fs = "closed"
                       => (\A c \in Custodies : custody'[c] # n) /\ kept[n] = 0
<1>1. ASSUME IInv, [Next]_vars PROVE [Last]_vars
  <2> SUFFICES ASSUME NEW n \in Nodes, inodes[n].fs # "closed",
                      inodes'[n].fs = "closed"
               PROVE  (\A c \in Custodies : custody'[c] # n) /\ kept[n] = 0
    OBVIOUS
  <2>1. Cardinality(Custodians(custody', n)) = 0 /\ kept'[n] = 0
    BY <1>1, CountStep DEF Settled
  <2>2. custody' \in CustodyHeap /\ TypeOK /\ TypeOK'
    BY <1>1, TypeStep DEF IInv, OwnershipInv, TypeOK
  <2>3. \A c \in Custodies : custody'[c] # n
    BY <2>1, <2>2, CustodyCounts
  <2>4. kept[n] <= kept'[n]
    <3>1. ASSUME NEW c \in Custodies, alloc_custody(c)
          PROVE  kept[n] <= kept'[n]
      BY <2>2, <3>1 DEF alloc_custody, TypeOK
    <3>2. CASE kept' = kept
      BY <2>2, <3>2 DEF TypeOK
    <3>3. CASE OpenNext
      BY <3>1, <3>2, <3>3
      DEF OpenNext, sys_open, sys_create_pipe, traverse_found, create_inode,
          traverse_missing, traverse_failed, open_missing_fails, open_refused,
          open_succeeds, pipe_opened
    <3>4. CASE PipeNext
      BY <3>2, <3>4 DEF PipeNext, create_pipe_succeeds, create_pipe_no_fds,
                        create_pipe_no_memory
    <3>5. CASE FdNext
      BY <3>2, <3>5 DEF FdNext, sys_close, sys_movefd, sys_dup2, sys_dup2_self
    <3>6. CASE ProcNext
      BY <3>2, <3>6
      DEF ProcNext, sys_fork, fork_skip, fork_duplicate, fork_done, fork_fails,
          sys_exit, free_process, free_process_close, free_process_done, files
    <3>7. CASE UNCHANGED vars
      BY <3>2, <3>7 DEF vars, files
    <3> QED
      BY <1>1, <3>3, <3>4, <3>5, <3>6, <3>7 DEF Next
  <2> QED
    BY <2>1, <2>2, <2>3, <2>4 DEF TypeOK
<1> QED
  BY VfsInvariant, <1>1, PTL DEF Spec, CloseIsLast

-----------------------------------------------------------------------------
(* Processes and threads, as an instance: no wake-up is lost or sent to a  *)
(* dead stack frame, for any number of threads and any size of the table.  *)

Sched == INSTANCE Scheduler

SchedInv ==
    /\ Sched!ProcessesTypeOK /\ Sched!ThreadTable
    /\ Sched!WaitersRegistered /\ Sched!CurrentInv

\* Every step keeps the invariant: one case per action.
LEMMA SchedInvariantStep == SchedInv /\ [Sched!Next]_(Sched!vars) => SchedInv'
<1> SUFFICES ASSUME Sched!ProcessesTypeOK, Sched!ThreadTable, Sched!WaitersRegistered, Sched!CurrentInv,
                    [Sched!Next]_(Sched!vars)
             PROVE  SchedInv'
  BY DEF SchedInv
<1> USE SchedulerAssumption DEF Sched!Slots, Sched!table, Sched!waits
<1>1. CASE Sched!loop_skip
  <2>1. Sched!ProcessesTypeOK'
    BY <1>1 DEF Sched!loop_skip, Sched!next_slot, Sched!ProcessesTypeOK
  <2>2. Sched!ThreadTable'
    BY <1>1
    DEF Sched!loop_skip, Sched!next_slot, Sched!ProcessesTypeOK, Sched!ThreadTable,
        Sched!CurrentInv
  <2>3. Sched!WaitersRegistered'
    BY <1>1
    DEF Sched!loop_skip, Sched!next_slot, Sched!ProcessesTypeOK, Sched!ThreadTable,
        Sched!WaitersRegistered, Sched!CurrentInv
  <2>4. Sched!CurrentInv'
    BY <1>1
    DEF Sched!loop_skip, Sched!next_slot, Sched!ProcessesTypeOK, Sched!ThreadTable,
        Sched!CurrentInv
  <2> QED
    BY <2>1, <2>2, <2>3, <2>4 DEF SchedInv
<1>2. CASE Sched!loop_switch
  <2>1. Sched!ProcessesTypeOK'
    BY <1>2 DEF Sched!loop_switch, Sched!ProcessesTypeOK
  <2>2. Sched!ThreadTable'
    BY <1>2
    DEF Sched!loop_switch, Sched!ProcessesTypeOK, Sched!ThreadTable,
        Sched!CurrentInv
  <2>3. Sched!WaitersRegistered'
    BY <1>2
    DEF Sched!loop_switch, Sched!ProcessesTypeOK, Sched!ThreadTable,
        Sched!WaitersRegistered, Sched!CurrentInv
  <2>4. Sched!CurrentInv'
    BY <1>2
    DEF Sched!loop_switch, Sched!ProcessesTypeOK, Sched!ThreadTable,
        Sched!CurrentInv
  <2> QED
    BY <2>1, <2>2, <2>3, <2>4 DEF SchedInv
<1>3. CASE Sched!loop_reap
  <2>1. Sched!ProcessesTypeOK'
    BY <1>3
    DEF Sched!loop_reap, Sched!release_listeners, Sched!free_thread,
        Sched!next_slot, Sched!ProcessesTypeOK
  <2>2. Sched!ThreadTable'
    BY <1>3
    DEF Sched!loop_reap, Sched!release_listeners, Sched!free_thread,
        Sched!next_slot, Sched!ProcessesTypeOK, Sched!ThreadTable, Sched!CurrentInv
  <2>3. Sched!WaitersRegistered'
    BY <1>3
    DEF Sched!loop_reap, Sched!release_listeners, Sched!free_thread,
        Sched!next_slot, Sched!ProcessesTypeOK, Sched!ThreadTable,
        Sched!WaitersRegistered, Sched!CurrentInv
  <2>4. Sched!CurrentInv'
    BY <1>3
    DEF Sched!loop_reap, Sched!release_listeners, Sched!free_thread,
        Sched!next_slot, Sched!ProcessesTypeOK, Sched!ThreadTable, Sched!CurrentInv
  <2> QED
    BY <2>1, <2>2, <2>3, <2>4 DEF SchedInv
<1>4. CASE Sched!loop_reap_wild
  BY <1>4
  DEF Sched!loop_reap_wild, Sched!Halt, SchedInv, Sched!ProcessesTypeOK,
      Sched!ThreadTable, Sched!WaitersRegistered, Sched!CurrentInv
<1>5. ASSUME NEW t \in Threads, Sched!return_to_user(t)
      PROVE  SchedInv'
  <2>1. Sched!ProcessesTypeOK'
    BY <1>5 DEF Sched!return_to_user, Sched!Running, Sched!ProcessesTypeOK
  <2>2. Sched!ThreadTable'
    BY <1>5
    DEF Sched!return_to_user, Sched!Running, Sched!ProcessesTypeOK,
        Sched!ThreadTable, Sched!CurrentInv
  <2>3. Sched!WaitersRegistered'
    BY <1>5
    DEF Sched!return_to_user, Sched!Running, Sched!ProcessesTypeOK,
        Sched!ThreadTable, Sched!WaitersRegistered, Sched!CurrentInv
  <2>4. Sched!CurrentInv'
    BY <1>5
    DEF Sched!return_to_user, Sched!Running, Sched!ProcessesTypeOK,
        Sched!ThreadTable, Sched!CurrentInv
  <2> QED
    BY <2>1, <2>2, <2>3, <2>4 DEF SchedInv
<1>6. ASSUME NEW t \in Threads, Sched!mutex_take_yields(t)
      PROVE  SchedInv'
  <2>1. Sched!ProcessesTypeOK'
    BY <1>6
    DEF Sched!mutex_take_yields, Sched!Running, Sched!Yield, Sched!next_slot,
        Sched!ProcessesTypeOK
  <2>2. Sched!ThreadTable'
    BY <1>6
    DEF Sched!mutex_take_yields, Sched!Running, Sched!Yield, Sched!next_slot,
        Sched!ProcessesTypeOK, Sched!ThreadTable, Sched!CurrentInv
  <2>3. Sched!WaitersRegistered'
    BY <1>6
    DEF Sched!mutex_take_yields, Sched!Running, Sched!Yield, Sched!next_slot,
        Sched!ProcessesTypeOK, Sched!ThreadTable, Sched!WaitersRegistered,
        Sched!CurrentInv
  <2>4. Sched!CurrentInv'
    BY <1>6
    DEF Sched!mutex_take_yields, Sched!Running, Sched!Yield, Sched!next_slot,
        Sched!ProcessesTypeOK, Sched!ThreadTable, Sched!CurrentInv
  <2> QED
    BY <2>1, <2>2, <2>3, <2>4 DEF SchedInv
<1>7. ASSUME NEW t \in Threads, Sched!mutex_take_succeeds(t)
      PROVE  SchedInv'
  <2>1. Sched!ProcessesTypeOK'
    BY <1>7 DEF Sched!mutex_take_succeeds, Sched!Running, Sched!ProcessesTypeOK
  <2>2. Sched!ThreadTable'
    BY <1>7
    DEF Sched!mutex_take_succeeds, Sched!Running, Sched!ProcessesTypeOK,
        Sched!ThreadTable, Sched!CurrentInv
  <2>3. Sched!WaitersRegistered'
    BY <1>7
    DEF Sched!mutex_take_succeeds, Sched!Running, Sched!ProcessesTypeOK,
        Sched!ThreadTable, Sched!WaitersRegistered, Sched!CurrentInv
  <2>4. Sched!CurrentInv'
    BY <1>7
    DEF Sched!mutex_take_succeeds, Sched!Running, Sched!ProcessesTypeOK,
        Sched!ThreadTable, Sched!CurrentInv
  <2> QED
    BY <2>1, <2>2, <2>3, <2>4 DEF SchedInv
<1>8. ASSUME NEW t \in Threads, Sched!sys_yield(t)
      PROVE  SchedInv'
  <2>1. Sched!ProcessesTypeOK'
    BY <1>8
    DEF Sched!sys_yield, Sched!Running, Sched!Yield, Sched!next_slot,
        Sched!ProcessesTypeOK
  <2>2. Sched!ThreadTable'
    BY <1>8
    DEF Sched!sys_yield, Sched!Running, Sched!Yield, Sched!next_slot,
        Sched!ProcessesTypeOK, Sched!ThreadTable, Sched!CurrentInv
  <2>3. Sched!WaitersRegistered'
    BY <1>8
    DEF Sched!sys_yield, Sched!Running, Sched!Yield, Sched!next_slot,
        Sched!ProcessesTypeOK, Sched!ThreadTable, Sched!WaitersRegistered,
        Sched!CurrentInv
  <2>4. Sched!CurrentInv'
    BY <1>8
    DEF Sched!sys_yield, Sched!Running, Sched!Yield, Sched!next_slot,
        Sched!ProcessesTypeOK, Sched!ThreadTable, Sched!CurrentInv
  <2> QED
    BY <2>1, <2>2, <2>3, <2>4 DEF SchedInv
<1>9. ASSUME NEW t \in Threads, NEW mask \in BOOLEAN, Sched!Exit(t, mask)
      PROVE  SchedInv'
  <2>1. Sched!ProcessesTypeOK'
    BY <1>9
    DEF Sched!Exit, Sched!Running, Sched!Yield, Sched!next_slot,
        Sched!ProcessesTypeOK
  <2>2. Sched!ThreadTable'
    BY <1>9
    DEF Sched!Exit, Sched!Running, Sched!Yield, Sched!next_slot,
        Sched!ProcessesTypeOK, Sched!ThreadTable, Sched!CurrentInv
  <2>3. Sched!WaitersRegistered'
    BY <1>9
    DEF Sched!Exit, Sched!Running, Sched!Yield, Sched!next_slot,
        Sched!ProcessesTypeOK, Sched!ThreadTable, Sched!WaitersRegistered,
        Sched!CurrentInv
  <2>4. Sched!CurrentInv'
    BY <1>9
    DEF Sched!Exit, Sched!Running, Sched!Yield, Sched!next_slot,
        Sched!ProcessesTypeOK, Sched!ThreadTable, Sched!CurrentInv
  <2> QED
    BY <2>1, <2>2, <2>3, <2>4 DEF SchedInv
<1>10. ASSUME NEW t \in Threads, NEW q \in Threads, NEW dirty \in BOOLEAN,
              Sched!sys_fork(t, q, dirty)
      PROVE  SchedInv'
  <2>1. Sched!ProcessesTypeOK'
    BY <1>10 DEF Sched!sys_fork, Sched!Running, Sched!ProcessesTypeOK
  <2>2. Sched!ThreadTable'
    BY <1>10
    DEF Sched!sys_fork, Sched!Running, Sched!ProcessesTypeOK, Sched!ThreadTable,
        Sched!CurrentInv
  <2>3. Sched!WaitersRegistered'
    BY <1>10
    DEF Sched!sys_fork, Sched!Running, Sched!ProcessesTypeOK, Sched!ThreadTable,
        Sched!WaitersRegistered, Sched!CurrentInv
  <2>4. Sched!CurrentInv'
    BY <1>10
    DEF Sched!sys_fork, Sched!Running, Sched!ProcessesTypeOK, Sched!ThreadTable,
        Sched!CurrentInv
  <2> QED
    BY <2>1, <2>2, <2>3, <2>4 DEF SchedInv
<1>11. ASSUME NEW t \in Threads, Sched!register_thread_fails(t)
      PROVE  SchedInv'
  BY <1>11
  DEF Sched!register_thread_fails, Sched!Halt, SchedInv, Sched!ProcessesTypeOK,
      Sched!ThreadTable, Sched!WaitersRegistered, Sched!CurrentInv
<1>12. ASSUME NEW t \in Threads, Sched!sys_fork_fails(t)
      PROVE  SchedInv'
  BY <1>12
  DEF Sched!sys_fork_fails, Sched!Halt, SchedInv, Sched!ProcessesTypeOK,
      Sched!ThreadTable, Sched!WaitersRegistered, Sched!CurrentInv
<1>13. ASSUME NEW t \in Threads, NEW q \in Threads, Sched!sys_waitexit(t, q)
      PROVE  SchedInv'
  <2>1. Sched!ProcessesTypeOK'
    BY <1>13 DEF Sched!sys_waitexit, Sched!Running, Sched!ProcessesTypeOK
  <2>2. Sched!ThreadTable'
    BY <1>13
    DEF Sched!sys_waitexit, Sched!Running, Sched!ProcessesTypeOK,
        Sched!ThreadTable, Sched!CurrentInv
  <2>3. Sched!WaitersRegistered'
    BY <1>13
    DEF Sched!sys_waitexit, Sched!Running, Sched!ProcessesTypeOK,
        Sched!ThreadTable, Sched!WaitersRegistered, Sched!CurrentInv
  <2>4. Sched!CurrentInv'
    BY <1>13
    DEF Sched!sys_waitexit, Sched!Running, Sched!ProcessesTypeOK,
        Sched!ThreadTable, Sched!CurrentInv
  <2> QED
    BY <2>1, <2>2, <2>3, <2>4 DEF SchedInv
<1>14. ASSUME NEW t \in Threads, NEW q \in Threads, Sched!sys_waitexit_wild(t, q)
      PROVE  SchedInv'
  BY <1>14
  DEF Sched!sys_waitexit_wild, Sched!Halt, SchedInv, Sched!ProcessesTypeOK,
      Sched!ThreadTable, Sched!WaitersRegistered, Sched!CurrentInv
<1>15. ASSUME NEW t \in Threads, NEW ticks \in 1 .. MaxSleep,
              Sched!sys_millisleep(t, ticks)
      PROVE  SchedInv'
  <2>1. Sched!ProcessesTypeOK'
    BY <1>15 DEF Sched!sys_millisleep, Sched!Running, Sched!ProcessesTypeOK
  <2>2. Sched!ThreadTable'
    BY <1>15
    DEF Sched!sys_millisleep, Sched!Running, Sched!ProcessesTypeOK,
        Sched!ThreadTable, Sched!CurrentInv
  <2>3. Sched!WaitersRegistered'
    BY <1>15
    DEF Sched!sys_millisleep, Sched!Running, Sched!ProcessesTypeOK,
        Sched!ThreadTable, Sched!WaitersRegistered, Sched!CurrentInv
  <2>4. Sched!CurrentInv'
    BY <1>15
    DEF Sched!sys_millisleep, Sched!Running, Sched!ProcessesTypeOK,
        Sched!ThreadTable, Sched!CurrentInv
  <2> QED
    BY <2>1, <2>2, <2>3, <2>4 DEF SchedInv
<1>16. ASSUME NEW t \in Threads, Sched!sys_millisleep_fails(t)
      PROVE  SchedInv'
  BY <1>16
  DEF Sched!sys_millisleep_fails, Sched!Halt, SchedInv, Sched!ProcessesTypeOK,
      Sched!ThreadTable, Sched!WaitersRegistered, Sched!CurrentInv
<1>17. CASE Sched!timer_irq
  <2>1. Sched!ProcessesTypeOK'
    BY <1>17 DEF Sched!timer_irq, Sched!ProcessesTypeOK
  <2>2. Sched!ThreadTable'
    BY <1>17
    DEF Sched!timer_irq, Sched!ProcessesTypeOK, Sched!ThreadTable, Sched!CurrentInv
  <2>3. Sched!WaitersRegistered'
    <3>1. ASSUME NEW t \in Threads
          PROVE  /\ mutex'[t] <=> (mutex[t] /\ timers[t] # 1)
                 /\ timers[t] \in Nat
                 /\ timers'[t] > 0 <=> timers[t] > 1
      <4>1. mutex'[t] <=> (mutex[t] /\ timers[t] # 1)
        BY <1>17, Zenon DEF Sched!timer_irq
      <4>2. timers[t] \in Nat /\ (timers'[t] > 0 <=> timers[t] > 1)
        BY <1>17 DEF Sched!timer_irq, Sched!ProcessesTypeOK
      <4> QED
        BY <4>1, <4>2
    <3>2. UNCHANGED <<at, target, listeners, state>>
      BY <1>17 DEF Sched!timer_irq
    <3>3. ASSUME NEW t \in Threads, mutex'[t]
          PROVE  /\ state'[t] = "Runnable"
                 /\ \/ /\ at'[t] = "waitexit" /\ target'[t] # NoThread
                       /\ state'[target'[t]] # "free"
                       /\ t \in listeners'[target'[t]]
                    \/ at'[t] = "millisleep" /\ timers'[t] > 0
      BY <3>1, <3>2, <3>3 DEF Sched!WaitersRegistered
    <3>4. ASSUME NEW q \in Threads, NEW t \in Threads, t \in listeners'[q]
          PROVE  at'[t] = "waitexit" /\ target'[t] = q /\ mutex'[t]
      <4>1. at[t] = "waitexit" /\ target[t] = q /\ mutex[t]
        BY <3>2, <3>4 DEF Sched!WaitersRegistered
      <4>2. ~(timers[t] > 0)
        BY <4>1 DEF Sched!WaitersRegistered
      <4> QED
        BY <3>1, <3>2, <4>1, <4>2
    <3>5. ASSUME NEW t \in Threads, timers'[t] > 0
          PROVE  at'[t] = "millisleep" /\ mutex'[t]
      BY <3>1, <3>2, <3>5 DEF Sched!WaitersRegistered
    <3> QED
      BY <3>3, <3>4, <3>5 DEF Sched!WaitersRegistered
  <2>4. Sched!CurrentInv'
    BY <1>17
    DEF Sched!timer_irq, Sched!ProcessesTypeOK, Sched!ThreadTable, Sched!CurrentInv
  <2> QED
    BY <2>1, <2>2, <2>3, <2>4 DEF SchedInv
<1>18. CASE UNCHANGED Sched!vars
  BY <1>18
  DEF Sched!vars, SchedInv, Sched!ProcessesTypeOK, Sched!ThreadTable,
      Sched!WaitersRegistered, Sched!CurrentInv
<1> QED
  BY <1>1, <1>2, <1>3, <1>4, <1>5, <1>6, <1>7, <1>8, <1>9, <1>10, <1>11,
     <1>12, <1>13, <1>14, <1>15, <1>16, <1>17, <1>18
  DEF Sched!Next, Sched!LoopNext, Sched!KernelNext, Sched!UserNext, Sched!sys_exit,
      Sched!data_abort_handler

\* The invariant holds of the table create_first_process leaves.
LEMMA SchedInvariantInit == Sched!Init => SchedInv
<1> SUFFICES ASSUME Sched!Init PROVE SchedInv
  OBVIOUS
<1> USE SchedulerAssumption DEF Sched!Init, Sched!Slots
<1>1. Sched!ProcessesTypeOK
  <2>1. has_started \in BOOLEAN /\ irq \in BOOLEAN
    BY Zenon
  <2> QED
    BY <2>1 DEF Sched!ProcessesTypeOK
<1>2. Sched!ThreadTable
  BY DEF Sched!ThreadTable
<1>3. Sched!WaitersRegistered /\ Sched!CurrentInv
  BY DEF Sched!WaitersRegistered, Sched!CurrentInv
<1> QED
  BY <1>1, <1>2, <1>3 DEF SchedInv

\* In every reachable state of the scheduler the thread table is well formed,
\* whoever has the CPU is in it, and every blocked thread is registered where
\* it will be woken from.
THEOREM SchedulerInvariant == Sched!Spec => []SchedInv
<1>1. SchedInv /\ [Sched!Next]_(Sched!vars) => SchedInv'
  BY SchedInvariantStep
<1> QED
  BY SchedInvariantInit, <1>1, PTL DEF Sched!Spec

\* A blocked thread is always registered with the live process or the timer
\* it waits for, and no listener or timer outlives the stack frame it is in.
THEOREM WaitersCorrect == Sched!Spec => []WaitersRegistered
<1>1. SchedInv => WaitersRegistered
  BY DEF SchedInv, WaitersRegistered, Sched!WaitersRegistered
<1> QED
  BY SchedulerInvariant, <1>1, PTL

\* A thread that exists has exactly one slot of the table, freed memory none.
THEOREM ThreadTableCorrect == Sched!Spec => []ThreadTable
<1>1. SchedInv => ThreadTable
  BY DEF SchedInv, ThreadTable, Sched!ThreadTable, Slots, Sched!Slots
<1> QED
  BY SchedulerInvariant, <1>1, PTL
=============================================================================
