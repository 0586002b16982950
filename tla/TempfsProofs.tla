---------------------------- MODULE TempfsProofs ----------------------------
(***************************************************************************)
(* Files in memory, for every capacity, block size and number of slots:    *)
(* memory is accounted for, a listing is complete, and programs see the    *)
(* files that module Files describes.                                      *)
(***************************************************************************)
EXTENDS Tempfs, FiniteSetTheorems, SequenceTheorems, TLAPS

-----------------------------------------------------------------------------
(* Extremes of sets of numbers                                             *)

\* Every nonempty set of natural numbers has a least element.
LEMMA LeastNatural ==
    ASSUME NEW S \in SUBSET Nat, S # {}
    PROVE  \E m \in S : \A k \in S : m <= k
<1> DEFINE less == {pair \in Nat \X Nat : pair[1] < pair[2]}
<1>1. IsWellFoundedOn(less, Nat)
  BY NatLessThanWellFounded DEF OpToRel
<1> HIDE DEF less
<1>2. PICK m \in S : \A k \in S : ~ (<<k, m>> \in less)
  BY <1>1, WFMin
<1>3. \A k \in S : ~(k < m)
  BY <1>2 DEF less
<1> QED
  BY <1>3

\* A nonempty set of slots has a first and a last one.
LEMMA Extremes ==
    ASSUME NEW m \in Nat, NEW S \in SUBSET (1 .. m), S # {}
    PROVE  /\ Min(S) \in S /\ \A k \in S : Min(S) <= k
           /\ Max(S) \in S /\ \A k \in S : k <= Max(S)
<1>1. \E x \in S : \A k \in S : x <= k
  <2>1. S \in SUBSET Nat
    OBVIOUS
  <2> QED
    BY <2>1, LeastNatural
<1>2. Min(S) \in S /\ \A k \in S : Min(S) <= k
  BY <1>1 DEF Min
<1>3. \E x \in S : \A k \in S : x >= k
  <2> DEFINE R == {m - x : x \in S}
  <2>1. R \in SUBSET Nat /\ R # {}
    <3>1. \A x \in S : m - x \in Nat
      OBVIOUS
    <3>2. PICK x \in S : TRUE
      OBVIOUS
    <3>3. m - x \in R
      BY <3>2
    <3> QED
      BY <3>1, <3>3
  <2> HIDE DEF R
  <2>2. PICK r \in R : \A k \in R : r <= k
    BY <2>1, LeastNatural
  <2>3. PICK x \in S : r = m - x
    BY <2>2 DEF R
  <2>4. \A k \in S : m - x <= m - k
    BY <2>2, <2>3 DEF R
  <2>5. \A k \in S : x >= k
    BY <2>4
  <2> QED
    BY <2>5
<1>4. Max(S) \in S /\ \A k \in S : Max(S) >= k
  BY <1>3 DEF Max
<1>5. \A k \in S : k <= Max(S)
  BY <1>4
<1> QED
  BY <1>2, <1>4, <1>5

\* The larger of two numbers.
LEMMA MaxOfTwo ==
    ASSUME NEW x \in Int, NEW y \in Int
    PROVE  Max({x, y}) = IF x >= y THEN x ELSE y
<1> DEFINE m == IF x >= y THEN x ELSE y
<1>1. m \in {x, y} /\ \A k \in {x, y} : m >= k
  OBVIOUS
<1>2. Max({x, y}) \in {x, y} /\ \A k \in {x, y} : Max({x, y}) >= k
  <2> HIDE DEF m
  <2> QED
    BY <1>1 DEF Max
<1> QED
  BY <1>1, <1>2

\* Rounding up to whole blocks.
LEMMA RoundUp ==
    ASSUME NEW n \in Nat
    PROVE  round_up(n) \in Nat /\ round_up(n) >= n
<1> DEFINE x == n + BLOCK_SIZE - 1
           q == x \div BLOCK_SIZE
           r == x % BLOCK_SIZE
           p == q * BLOCK_SIZE
<1>1. BLOCK_SIZE \in Nat \ {0} /\ x \in Nat
  BY TempfsAssumption
<1> HIDE DEF x
<1>2. q \in Nat /\ r \in 0 .. BLOCK_SIZE - 1
  BY <1>1, SMT
<1>3. r = x - BLOCK_SIZE * q
  BY <1>1, SMT
<1> HIDE DEF q, r
<1>4. p \in Nat /\ p = BLOCK_SIZE * q
  BY <1>1, <1>2
<1> HIDE DEF p
<1>5. r = x - p
  BY <1>3, <1>4
<1>6. p >= n
  BY <1>1, <1>2, <1>4, <1>5 DEF x
<1> QED
  BY <1>4, <1>6 DEF round_up, p, q, x

\* A position stays inside the file.
LEMMA SeekRange ==
    ASSUME NEW filesize \in Nat, NEW current \in Int, NEW offset \in Int,
           NEW whence \in {"SEEK_SET", "SEEK_CUR", "SEEK_END"}
    PROVE  default_checked_seek(filesize, current, whence, offset) \in 0 .. filesize
<1> DEFINE newoff == CASE whence = "SEEK_SET" -> offset
                       [] whence = "SEEK_CUR" -> current + offset
                       [] whence = "SEEK_END" -> filesize - offset
<1>1. /\ offset \in Int /\ current + offset \in Int /\ filesize - offset \in Int
      /\ Modulus \in Nat \ {0}
  BY TempfsAssumption
<1>2. newoff \in Int
  <2>1. CASE whence = "SEEK_SET"
    BY <1>1, <2>1, Zenon
  <2>2. CASE whence = "SEEK_CUR"
    BY <1>1, <2>2, Zenon
  <2>3. CASE whence = "SEEK_END"
    BY <1>1, <2>3, Zenon
  <2> QED
    BY <2>1, <2>2, <2>3
<1>3. default_checked_seek(filesize, current, whence, offset)
        = clamp(0, newoff % Modulus, filesize)
  BY Zenon DEF default_checked_seek
<1> HIDE DEF newoff
<1>4. newoff % Modulus \in 0 .. Modulus - 1
  BY <1>1, <1>2, SMT
<1> DEFINE y == newoff % Modulus
<1>5. y \in Int /\ y >= 0
  BY <1>1, <1>4
<1> HIDE DEF y
<1>6. clamp(0, y, filesize) \in 0 .. filesize
  BY <1>5 DEF clamp
<1> QED
  BY <1>3, <1>6 DEF y

-----------------------------------------------------------------------------
(* The inductive invariant                                                 *)

FileStates == [allocated : Nat, size : Nat, data : Seq(Nat)]
NoFile == [allocated |-> 0, size |-> 0, data |-> <<>>]
FileCustody == [mode : {"r", "w", "rw"}, name : Names, offset : Nat]
DirCustody == [mode : {"dir"}, offset : Nat, seen : SUBSET Names,
               old : SUBSET Names, ended : BOOLEAN]

Types ==
    /\ children \in [1 .. Slots -> Names \cup {NoName}]
    /\ files \in [Names -> FileStates]
    /\ used \in Nat
    /\ isize \in [Names -> Nat \cup {NotCached}]
    /\ custody \in [Fds -> {Closed} \cup FileCustody \cup DirCustody]

\* The entries up to slot i, and their number.
Occupied(ch, i) == {j \in 1 .. i : ch[j] # NoName}
Rank(ch, i) == Cardinality(Occupied(ch, i))

\* An entry that was there when the listing c began, and that it has passed,
\* has been returned; it has passed no more entries than there are.
Listing(ch, c) ==
    /\ c.old \subseteq {ch[i] : i \in 1 .. Slots} \ {NoName}
    /\ c.seen \subseteq {ch[i] : i \in 1 .. Slots} \ {NoName}
    /\ c.offset <= Rank(ch, Slots)
    /\ c.ended => c.old \subseteq c.seen
    /\ \A i \in 1 .. Slots :
         ch[i] \in c.old /\ Rank(ch, i) <= c.offset => ch[i] \in c.seen

\* No two entries have the same name.
Unique(ch) == \A i, j \in 1 .. Slots : ch[i] = ch[j] /\ ch[i] # NoName => i = j

ListingsSound ==
    /\ Unique(children)
    /\ \A f \in OpenDirs : Listing(children, custody[f])

\* What does not exist has no memory.
Absent == \A n \in Names : n \notin Children => files[n] = NoFile

IInv == /\ Types /\ MemoryAccounted /\ IsFiniteSet(AllocatedBytes)
        /\ Absent /\ ListingsSound

\* What a descriptor can be.
LEMMA Custodies ==
    ASSUME Types
    PROVE  /\ \A f \in OpenFiles : f \in Fds /\ custody[f] \in FileCustody
           /\ \A f \in OpenDirs : f \in Fds /\ custody[f] \in DirCustody
           /\ \A f \in Fds : custody[f] \in FileCustody => f \in OpenFiles
           /\ \A f \in Fds : custody[f] \in DirCustody => f \in OpenDirs
<1>1. \A f \in Fds : custody[f] \in {Closed} \cup FileCustody \cup DirCustody
  BY DEF Types
<1>2. Closed.mode = "closed" /\ \A c \in FileCustody : c.mode \in {"r", "w", "rw"}
  BY DEF Closed, FileCustody
<1>3. \A c \in DirCustody : c.mode = "dir"
  BY DEF DirCustody
<1> QED
  BY <1>1, <1>2, <1>3 DEF OpenFiles, OpenDirs

\* At first there are no files.
LEMMA InitInvariant == Init => IInv
<1> SUFFICES ASSUME Init PROVE IInv
  OBVIOUS
<1> USE DEF Init
<1>1. Types
  <2>1. NoFile \in FileStates
    BY DEF NoFile, FileStates
  <2>2. files \in [Names -> FileStates]
    BY <2>1 DEF NoFile
  <2>3. isize \in [Names -> Nat \cup {NotCached}]
    OBVIOUS
  <2> QED
    BY <2>2, <2>3 DEF Types
<1>2. OpenFiles = {} /\ OpenDirs = {}
  BY DEF OpenFiles, OpenDirs, Closed
<1>3. AllocatedBytes = {}
  <2>1. \A n \in Names : files[n].allocated = 0
    OBVIOUS
  <2>2. \A n \in Names : {n} \X (1 .. files[n].allocated) = {}
    BY <2>1
  <2> QED
    BY <2>2 DEF AllocatedBytes
<1>4. IsFiniteSet(AllocatedBytes) /\ Cardinality(AllocatedBytes) = 0
  BY <1>3, FS_EmptySet
<1>5. MemoryAccounted
  BY <1>2, <1>4, TempfsAssumption DEF MemoryAccounted
<1>6. Absent /\ ListingsSound
  BY <1>2 DEF Absent, NoFile, ListingsSound, Unique
<1> QED
  BY <1>1, <1>4, <1>5, <1>6 DEF IInv

-----------------------------------------------------------------------------
(* Creating a file                                                         *)

\* tempfs_dir_create fills an empty slot.
LEMMA Creates ==
    ASSUME Types, NEW n \in Names, tempfs_dir_create(n)
    PROVE  /\ n \notin Children
           /\ \E i \in 1 .. Slots : children[i] = NoName
                                    /\ children' = [children EXCEPT ![i] = n]
           /\ children' \in [1 .. Slots -> Names \cup {NoName}]
           /\ Children' = Children \cup {n}
<1> DEFINE S == {i \in 1 .. Slots : children[i] = NoName}
<1>1. /\ Slots \in Nat /\ S \in SUBSET (1 .. Slots) /\ S # {} /\ n # NoName
      /\ n \notin Children
  BY TempfsAssumption DEF tempfs_dir_create
<1>2. free_idx \in S
  <2> HIDE DEF S
  <2>1. Max(S) \in S
    BY <1>1, Extremes
  <2> QED
    BY <2>1 DEF free_idx, S
<1>3. children' = [children EXCEPT ![free_idx] = n]
  BY DEF tempfs_dir_create
<1> HIDE DEF S
<1>4. PICK i \in 1 .. Slots : children[i] = NoName /\ children' = [children EXCEPT ![i] = n]
  BY <1>2, <1>3 DEF S
<1>5. children' \in [1 .. Slots -> Names \cup {NoName}]
      /\ \A j \in 1 .. Slots : children'[j] = IF j = i THEN n ELSE children[j]
  BY <1>4 DEF Types
<1>6. Children' = Children \cup {n}
  <2>1. Children' = {children'[j] : j \in 1 .. Slots} \ {NoName}
    BY DEF Children
  <2>2. ASSUME NEW m \in Children' PROVE m \in Children \cup {n}
    BY <1>5, <2>1 DEF Children
  <2>3. ASSUME NEW m \in Children \cup {n} PROVE m \in Children'
    <3>1. CASE m = n
      BY <1>1, <1>5, <2>1, <3>1
    <3>2. CASE m # n
      <4>1. PICK j \in 1 .. Slots : m = children[j] /\ m # NoName
        BY <2>3, <3>2 DEF Children
      <4>2. j # i
        BY <1>4, <4>1
      <4> QED
        BY <1>5, <2>1, <4>1, <4>2
    <3> QED
      BY <3>1, <3>2
  <2> QED
    BY <2>2, <2>3
<1> QED
  BY <1>1, <1>4, <1>5, <1>6

\* The entries up to a slot are finitely many.
LEMMA RankType ==
    ASSUME NEW ch, NEW i \in 1 .. Slots
    PROVE  IsFiniteSet(Occupied(ch, i)) /\ Rank(ch, i) \in Nat
<1>1. i \in Int /\ Occupied(ch, i) \in SUBSET (1 .. i)
  BY TempfsAssumption DEF Occupied
<1>2. IsFiniteSet(Occupied(ch, i))
  BY <1>1, FS_Interval, FS_Subset
<1> QED
  BY <1>2, FS_CardinalityType DEF Rank

\* Ranks grow from entry to entry.
LEMMA RankGrows ==
    ASSUME NEW ch, NEW i \in 1 .. Slots, NEW j \in 1 .. Slots, i < j, ch[j] # NoName
    PROVE  Rank(ch, i) < Rank(ch, j)
<1> DEFINE A == Occupied(ch, i)
           B == Occupied(ch, j)
<1>1. IsFiniteSet(A) /\ IsFiniteSet(B) /\ Rank(ch, i) \in Nat /\ Rank(ch, j) \in Nat
  BY RankType
<1>2. A \cup {j} \in SUBSET B /\ j \notin A
  BY TempfsAssumption DEF Occupied
<1>3. Rank(ch, i) = Cardinality(A) /\ Rank(ch, j) = Cardinality(B)
  BY DEF Rank
<1> HIDE DEF A, B
<1>4. Cardinality(A \cup {j}) = Cardinality(A) + 1
  BY <1>1, <1>2, FS_AddElement
<1>5. Cardinality(A \cup {j}) <= Cardinality(B)
  BY <1>1, <1>2, FS_Subset
<1> QED
  BY <1>1, <1>3, <1>4, <1>5

\* Nor do ranks shrink when a slot is filled.
LEMMA RankFilled ==
    ASSUME NEW ch \in [1 .. Slots -> Names \cup {NoName}], NEW i \in 1 .. Slots,
           ch[i] = NoName, NEW n \in Names, NEW j \in 1 .. Slots
    PROVE  Rank(ch, j) <= Rank([ch EXCEPT ![i] = n], j)
<1> DEFINE new == [ch EXCEPT ![i] = n]
<1>1. \A k \in 1 .. Slots : new[k] = IF k = i THEN n ELSE ch[k]
  OBVIOUS
<1>2. n # NoName /\ Slots \in Nat
  BY TempfsAssumption
<1> HIDE DEF new
<1>3. IsFiniteSet(Occupied(new, j))
  BY RankType
<1>4. Occupied(ch, j) \in SUBSET Occupied(new, j)
  <2> SUFFICES ASSUME NEW k \in Occupied(ch, j) PROVE k \in Occupied(new, j)
    OBVIOUS
  <2>1. k \in 1 .. j /\ ch[k] # NoName /\ k \in 1 .. Slots
    BY <1>2 DEF Occupied
  <2>2. new[k] # NoName
    BY <1>1, <1>2, <2>1
  <2> QED
    BY <2>1, <2>2 DEF Occupied
<1>5. Rank(ch, j) <= Rank(new, j)
  BY <1>3, <1>4, FS_Subset DEF Rank
<1> QED
  BY <1>5 DEF new

\* A file that is created moves later entries on, never back.
LEMMA CreateKeepsListing ==
    ASSUME NEW ch \in [1 .. Slots -> Names \cup {NoName}], NEW i \in 1 .. Slots,
           ch[i] = NoName, NEW n \in Names, n \notin {ch[j] : j \in 1 .. Slots},
           NEW c \in DirCustody, Listing(ch, c)
    PROVE  Listing([ch EXCEPT ![i] = n], c)
<1> DEFINE new == [ch EXCEPT ![i] = n]
<1>1. \A j \in 1 .. Slots : new[j] = IF j = i THEN n ELSE ch[j]
  OBVIOUS
<1>2. n # NoName /\ Slots \in Nat
  BY TempfsAssumption
<1> HIDE DEF new
<1>3. c.old \subseteq {new[j] : j \in 1 .. Slots} \ {NoName}
  <2> SUFFICES ASSUME NEW m \in c.old PROVE m \in {new[j] : j \in 1 .. Slots} /\ m # NoName
    OBVIOUS
  <2>1. PICK j \in 1 .. Slots : m = ch[j] /\ m # NoName
    BY DEF Listing
  <2>2. new[j] = m
    BY <1>1, <2>1
  <2> QED
    BY <2>1, <2>2
<1>4. ASSUME NEW j \in 1 .. Slots, new[j] \in c.old, Rank(new, j) <= c.offset
      PROVE  new[j] \in c.seen
  <2>1. j # i
    <3>1. n \notin c.old
      BY DEF Listing
    <3> QED
      BY <1>1, <1>4, <3>1
  <2>2. new[j] = ch[j]
    BY <1>1, <2>1
  <2>3. Rank(ch, j) <= Rank(new, j)
    BY RankFilled DEF new
  <2>4. Rank(ch, j) \in Nat /\ Rank(new, j) \in Nat
    BY RankType
  <2>5. ch[j] \in c.old /\ (Rank(ch, j) <= c.offset => ch[j] \in c.seen)
    BY <1>4, <2>2 DEF Listing
  <2>6. c.offset \in Nat
    BY DEF DirCustody
  <2> QED
    BY <1>4, <2>2, <2>3, <2>4, <2>5, <2>6
<1>5. c.ended => c.old \subseteq c.seen
  BY DEF Listing
<1>6. c.seen \subseteq {new[j] : j \in 1 .. Slots} \ {NoName}
  <2> SUFFICES ASSUME NEW m \in c.seen PROVE m \in {new[j] : j \in 1 .. Slots} /\ m # NoName
    OBVIOUS
  <2>1. PICK j \in 1 .. Slots : m = ch[j] /\ m # NoName
    BY DEF Listing
  <2>2. new[j] = m
    BY <1>1, <2>1
  <2> QED
    BY <2>1, <2>2
<1>7. c.offset <= Rank(new, Slots)
  <2>1. Slots \in 1 .. Slots
    BY TempfsAssumption
  <2>2. Rank(ch, Slots) <= Rank(new, Slots)
    BY <2>1, RankFilled DEF new
  <2>3. Rank(ch, Slots) \in Nat /\ Rank(new, Slots) \in Nat
    BY <2>1, RankType
  <2>4. c.offset \in Nat /\ c.offset <= Rank(ch, Slots)
    BY DEF DirCustody, Listing
  <2> QED
    BY <2>2, <2>3, <2>4
<1>8. Listing(new, c)
  BY <1>3, <1>4, <1>5, <1>6, <1>7 DEF Listing
<1> QED
  BY <1>8 DEF new

-----------------------------------------------------------------------------
(* Steps that leave the files alone                                        *)

Custody == {Closed} \cup FileCustody \cup DirCustody

\* The icache may get an inode, a file may be created, and descriptors may be
\* opened, closed, copied and moved inside their file.
LEMMA SmallStep ==
    ASSUME IInv, UNCHANGED <<files, used>>,
           UNCHANGED children \/ \E n \in Names : tempfs_dir_create(n),
           isize' \in [Names -> Nat \cup {NotCached}],
           \A n \in Names : isize'[n] # isize[n] =>
             isize[n] = NotCached /\ isize'[n] = files[n].size,
           custody' \in [Fds -> Custody],
           \A f \in Fds : \/ \E g \in Fds : custody'[f] = custody[g]
                          \/ custody'[f] = Closed
                          \/ /\ custody'[f] \in FileCustody
                             /\ custody'[f].name \in Children'
                             /\ custody'[f].offset \in 0 .. isize'[custody'[f].name]
                          \/ /\ custody'[f] \in DirCustody
                             /\ Listing(children', custody'[f])
    PROVE  IInv'
<1>0. Types /\ MemoryAccounted /\ Absent /\ ListingsSound /\ IsFiniteSet(AllocatedBytes)
  BY DEF IInv
<1>1. /\ children' \in [1 .. Slots -> Names \cup {NoName}]
      /\ Children \subseteq Children'
  <2>1. CASE UNCHANGED children
    BY <1>0, <2>1 DEF Types, Children
  <2>2. CASE \E n \in Names : tempfs_dir_create(n)
    <3>1. PICK n \in Names : tempfs_dir_create(n)
      BY <2>2
    <3>2. children' \in [1 .. Slots -> Names \cup {NoName}] /\ Children' = Children \cup {n}
      BY <1>0, <3>1, Creates
    <3> QED
      BY <3>2
  <2> QED
    BY <2>1, <2>2
<1>2. Types'
  BY <1>0, <1>1 DEF Types, Custody
<1>3. \A c \in DirCustody : Listing(children, c) => Listing(children', c)
  <2>1. CASE UNCHANGED children
    BY <2>1
  <2>2. CASE \E n \in Names : tempfs_dir_create(n)
    <3>1. PICK n \in Names : tempfs_dir_create(n)
      BY <2>2
    <3>2. /\ n \notin Children
          /\ \E i \in 1 .. Slots : children[i] = NoName
                                   /\ children' = [children EXCEPT ![i] = n]
      BY <1>0, <3>1, Creates
    <3>3. n \notin {children[j] : j \in 1 .. Slots}
      BY <3>2, TempfsAssumption DEF Children
    <3>4. PICK i \in 1 .. Slots : children[i] = NoName
                                  /\ children' = [children EXCEPT ![i] = n]
      BY <3>2
    <3>5. children \in [1 .. Slots -> Names \cup {NoName}]
      BY <1>0 DEF Types
    <3> QED
      BY <3>3, <3>4, <3>5, CreateKeepsListing
  <2> QED
    BY <2>1, <2>2
<1>4. Unique(children')
  <2>1. CASE UNCHANGED children
    BY <1>0, <2>1 DEF ListingsSound
  <2>2. CASE \E n \in Names : tempfs_dir_create(n)
    <3>1. PICK n \in Names : tempfs_dir_create(n)
      BY <2>2
    <3>2. PICK i \in 1 .. Slots : children[i] = NoName
                                  /\ children' = [children EXCEPT ![i] = n]
      BY <1>0, <3>1, Creates
    <3>3. \A j \in 1 .. Slots : children'[j] = IF j = i THEN n ELSE children[j]
      BY <1>0, <3>2 DEF Types
    <3>4. \A j \in 1 .. Slots : children[j] # n
      BY <1>0, <3>1, Creates, TempfsAssumption DEF Children
    <3> QED
      BY <1>0, <3>3, <3>4 DEF ListingsSound, Unique
  <2> QED
    BY <2>1, <2>2
<1>5. \A n \in Names : isize[n] \in Nat => isize'[n] = isize[n]
  BY DEF NotCached
<1>6. ASSUME NEW f \in Fds, custody'[f] \in FileCustody
      PROVE  /\ custody'[f].name \in Children'
             /\ custody'[f].offset \in 0 .. isize'[custody'[f].name]
  <2>1. CASE \E g \in Fds : custody'[f] = custody[g]
    <3>1. PICK g \in Fds : custody'[f] = custody[g]
      BY <2>1
    <3>2. g \in OpenFiles
      BY <1>0, <1>6, <3>1, Custodies
    <3>3. custody[g].name \in Children /\ custody[g].offset \in 0 .. isize[custody[g].name]
      BY <1>0, <3>2 DEF MemoryAccounted
    <3>4. custody[g].name \in Names
      BY <1>6, <3>1 DEF FileCustody
    <3>5. isize[custody[g].name] \in Nat
      <4> DEFINE z == isize[custody[g].name]
      <4>1. z \in Nat \cup {NotCached} /\ custody[g].offset \in 0 .. z
        BY <1>0, <3>3, <3>4 DEF Types
      <4> HIDE DEF z
      <4>2. z # NotCached
        BY <4>1 DEF NotCached
      <4> QED
        BY <4>1, <4>2 DEF z
    <3> QED
      BY <1>1, <1>5, <3>1, <3>3, <3>4, <3>5
  <2>2. CASE custody'[f] = Closed
    <3>1. Closed \notin FileCustody
      BY DEF Closed, FileCustody
    <3> QED
      BY <1>6, <2>2, <3>1
  <2>3. CASE custody'[f] \in DirCustody
    <3>1. custody'[f].mode = "dir" /\ custody'[f].mode \in {"r", "w", "rw"}
      BY <1>6, <2>3 DEF DirCustody, FileCustody
    <3> QED
      BY <3>1
  <2> QED
    BY <2>1, <2>2, <2>3
<1>7. ASSUME NEW f \in Fds, custody'[f] \in DirCustody
      PROVE  Listing(children', custody'[f])
  <2>1. CASE \E g \in Fds : custody'[f] = custody[g]
    <3>1. PICK g \in Fds : custody'[f] = custody[g]
      BY <2>1
    <3>2. g \in OpenDirs
      BY <1>0, <1>7, <3>1, Custodies
    <3>3. Listing(children, custody[g])
      BY <1>0, <3>2 DEF ListingsSound
    <3> QED
      BY <1>3, <1>7, <3>1, <3>3
  <2>2. CASE custody'[f] = Closed
    <3>1. Closed \notin DirCustody
      BY DEF Closed, DirCustody
    <3> QED
      BY <1>7, <2>2, <3>1
  <2>3. CASE custody'[f] \in FileCustody
    <3>1. custody'[f].mode = "dir" /\ custody'[f].mode \in {"r", "w", "rw"}
      BY <1>7, <2>3 DEF DirCustody, FileCustody
    <3> QED
      BY <3>1
  <2> QED
    BY <2>1, <2>2, <2>3
<1>8. /\ \A f \in OpenFiles' : f \in Fds /\ custody'[f] \in FileCustody
      /\ \A f \in OpenDirs' : f \in Fds /\ custody'[f] \in DirCustody
  <2>1. \A f \in Fds : custody'[f] \in {Closed} \cup FileCustody \cup DirCustody
    BY DEF Custody
  <2>2. Closed.mode = "closed" /\ \A c \in FileCustody : c.mode \in {"r", "w", "rw"}
    BY DEF Closed, FileCustody
  <2>3. \A c \in DirCustody : c.mode = "dir"
    BY DEF DirCustody
  <2> QED
    BY <2>1, <2>2, <2>3 DEF OpenFiles, OpenDirs
<1>9. AllocatedBytes' = AllocatedBytes
  BY DEF AllocatedBytes
<1>10. MemoryAccounted'
  <2>1. \A n \in Names : /\ Len(files'[n].data) = files'[n].allocated
                         /\ files'[n].size <= files'[n].allocated
                         /\ isize'[n] # NotCached => isize'[n] = files'[n].size
    BY <1>0 DEF MemoryAccounted
  <2>2. used' <= Capacity /\ used' = Cardinality(AllocatedBytes')
    BY <1>0, <1>9 DEF MemoryAccounted
  <2> QED
    BY <1>6, <1>8, <2>1, <2>2 DEF MemoryAccounted
<1>11. Absent'
  BY <1>0, <1>1 DEF Absent
<1>12. ListingsSound'
  BY <1>4, <1>7, <1>8 DEF ListingsSound
<1> QED
  BY <1>0, <1>2, <1>9, <1>10, <1>11, <1>12 DEF IInv

\* The inode of a file, from the icache or put there.
LEMMA CacheStep ==
    ASSUME IInv, NEW n \in Names, cache(n)
    PROVE  /\ isize' \in [Names -> Nat \cup {NotCached}]
           /\ isize'[n] = files[n].size /\ isize'[n] \in Nat
           /\ \A m \in Names : isize'[m] # isize[m] =>
                isize[m] = NotCached /\ isize'[m] = files[m].size
<1>1. /\ isize \in [Names -> Nat \cup {NotCached}] /\ files[n].size \in Nat
      /\ isize[n] # NotCached => isize[n] = files[n].size
  BY DEF IInv, Types, FileStates, MemoryAccounted
<1>2. isize' = [isize EXCEPT ![n] = IF isize[n] = NotCached THEN files[n].size ELSE isize[n]]
  BY DEF cache
<1> QED
  BY <1>1, <1>2

\* Opening files.
LEMMA OpenStep ==
    ASSUME IInv, NEW f \in Fds, NEW n \in Names, NEW mode \in {"r", "w", "rw"},
           vfs_open(f, n, mode) \/ vfs_open_creates(f, n, mode)
    PROVE  IInv'
<1>1. /\ UNCHANGED children \/ tempfs_dir_create(n)
      /\ UNCHANGED <<files, used>> /\ (n \in Children \/ n \in Children')
      /\ cache(n) /\ custody' = [custody EXCEPT ![f] = File(n, mode, 0)]
  BY DEF vfs_open, vfs_open_creates, open
<1>2. Types
  BY DEF IInv
<1>3. n \in Children'
  <2>1. CASE UNCHANGED children
    BY <1>1, <2>1 DEF Children
  <2>2. CASE tempfs_dir_create(n)
    BY <1>2, <2>2, Creates
  <2> QED
    BY <1>1, <2>1, <2>2
<1>4. /\ isize' \in [Names -> Nat \cup {NotCached}] /\ isize'[n] \in Nat
      /\ \A m \in Names : isize'[m] # isize[m] =>
           isize[m] = NotCached /\ isize'[m] = files[m].size
  BY <1>1, CacheStep
<1> DEFINE c == File(n, mode, 0)
<1>5. c \in FileCustody /\ c.name = n /\ c.offset = 0
  BY DEF File, FileCustody
<1> HIDE DEF c
<1>6. custody' \in [Fds -> Custody]
      /\ \A g \in Fds : custody'[g] = IF g = f THEN c ELSE custody[g]
  BY <1>1, <1>2, <1>5 DEF Types, Custody, c
<1>7. c.offset \in 0 .. isize'[c.name] /\ c.name \in Children'
  BY <1>3, <1>4, <1>5
<1>8. \A g \in Fds : \/ \E h \in Fds : custody'[g] = custody[h]
                     \/ /\ custody'[g] \in FileCustody
                        /\ custody'[g].name \in Children'
                        /\ custody'[g].offset \in 0 .. isize'[custody'[g].name]
  BY <1>5, <1>6, <1>7
<1> QED
  <2>1. UNCHANGED children \/ \E m \in Names : tempfs_dir_create(m)
    BY <1>1
  <2>2. UNCHANGED <<files, used>>
    BY <1>1
  <2> QED
    BY <1>4, <1>6, <1>8, <2>1, <2>2, SmallStep

\* Failing to open.
LEMMA OtherOpenStep ==
    ASSUME IInv, NEW f \in Fds, NEW n \in Names,
           vfs_open_creates_only(f, n) \/ vfs_open_fails(f, n)
    PROVE  IInv'
<1>1. /\ UNCHANGED children \/ tempfs_dir_create(n)
      /\ UNCHANGED <<files, used, custody>> /\ (UNCHANGED isize \/ cache(n))
  BY DEF vfs_open_creates_only, vfs_open_fails
<1>2. Types
  BY DEF IInv
<1>3. /\ isize' \in [Names -> Nat \cup {NotCached}]
      /\ \A m \in Names : isize'[m] # isize[m] =>
           isize[m] = NotCached /\ isize'[m] = files[m].size
  BY <1>1, <1>2, CacheStep DEF Types
<1>4. custody' \in [Fds -> Custody]
  BY <1>1, <1>2 DEF Types, Custody
<1>5. \A g \in Fds : \E k \in Fds : custody'[g] = custody[k]
  BY <1>1
<1> QED
  <2>1. UNCHANGED children \/ \E m \in Names : tempfs_dir_create(m)
    BY <1>1
  <2>2. UNCHANGED <<files, used>>
    BY <1>1
  <2> QED
    BY <1>3, <1>4, <1>5, <2>1, <2>2, SmallStep

\* Duplicating and closing.
LEMMA CopyStep ==
    ASSUME IInv, NEW f \in Fds, NEW h \in Fds, vfs_duplicate(f, h) \/ vfs_close(f)
    PROVE  IInv'
<1>1. /\ UNCHANGED <<children, files, used, isize>>
      /\ custody' \in {[custody EXCEPT ![h] = custody[f]], [custody EXCEPT ![f] = Closed]}
  BY DEF vfs_duplicate, vfs_close
<1>2. Types
  BY DEF IInv
<1>3. isize' \in [Names -> Nat \cup {NotCached}] /\ \A m \in Names : isize'[m] = isize[m]
  BY <1>1, <1>2 DEF Types
<1>4. custody' \in [Fds -> Custody]
  BY <1>1, <1>2 DEF Types, Custody
<1>5. \A g \in Fds : custody'[g] = Closed \/ \E k \in Fds : custody'[g] = custody[k]
  BY <1>1, <1>2 DEF Types
<1> QED
  BY <1>1, <1>3, <1>4, <1>5, SmallStep

\* Opening a directory: the listing has passed nothing yet.
LEMMA OpenDirectoryStep ==
    ASSUME IInv, NEW f \in Fds, vfs_open_directory(f)
    PROVE  IInv'
<1> DEFINE c == [mode |-> "dir", offset |-> 0, seen |-> {}, old |-> Children,
                 ended |-> FALSE]
<1>1. /\ UNCHANGED <<children, files, used, isize>>
      /\ custody' = [custody EXCEPT ![f] = c]
  BY DEF vfs_open_directory
<1>2. Types
  BY DEF IInv
<1>3. Children \subseteq Names
  BY <1>2 DEF Types, Children
<1>4. c \in DirCustody /\ c.old = Children /\ c.ended = FALSE /\ c.offset = 0 /\ c.seen = {}
  BY <1>3 DEF DirCustody
<1> HIDE DEF c
<1>5. \A i \in 1 .. Slots : children[i] \in c.old => Rank(children, i) > 0
  <2> SUFFICES ASSUME NEW i \in 1 .. Slots, children[i] # NoName
               PROVE  Rank(children, i) > 0
    BY <1>4 DEF Children
  <2>1. IsFiniteSet(Occupied(children, i)) /\ Rank(children, i) \in Nat
    BY RankType
  <2>2. i \in Occupied(children, i)
    BY TempfsAssumption DEF Occupied
  <2>3. Rank(children, i) # 0
    BY <2>1, <2>2, FS_EmptySet DEF Rank
  <2> QED
    BY <2>1, <2>3
<1>6. Listing(children', c)
  <2>1. \A i \in 1 .. Slots : Rank(children, i) \in Nat
    BY RankType
  <2>2. \A i \in 1 .. Slots : children[i] \in c.old => ~(Rank(children, i) <= c.offset)
    BY <1>4, <1>5, <2>1
  <2>3. c.seen = {} /\ c.offset <= Rank(children, Slots)
    BY <1>4, <2>1, TempfsAssumption
  <2> QED
    BY <1>1, <1>4, <2>2, <2>3 DEF Listing, Children
<1>7. custody' \in [Fds -> Custody]
      /\ \A g \in Fds : custody'[g] = IF g = f THEN c ELSE custody[g]
  BY <1>1, <1>2, <1>4 DEF Types, Custody
<1>8. \A g \in Fds : \/ \E h \in Fds : custody'[g] = custody[h]
                     \/ custody'[g] \in DirCustody /\ Listing(children', custody'[g])
  BY <1>4, <1>6, <1>7
<1>9. isize' \in [Names -> Nat \cup {NotCached}] /\ \A n \in Names : isize'[n] = isize[n]
  BY <1>1, <1>2 DEF Types
<1> QED
  BY <1>1, <1>7, <1>8, <1>9, SmallStep

\* A descriptor moves inside its file.
LEMMA MoveStep ==
    ASSUME IInv, NEW f \in OpenFiles, UNCHANGED <<children, files, used, isize>>,
           NEW position, position \in 0 .. isize[custody[f].name],
           custody' = [custody EXCEPT ![f] = File(custody[f].name, custody[f].mode, position)]
    PROVE  IInv'
<1> DEFINE c == File(custody[f].name, custody[f].mode, position)
           n == custody[f].name
<1>1. Types /\ f \in Fds /\ custody[f] \in FileCustody
  BY Custodies DEF IInv
<1>2. n \in Children /\ n \in Names /\ custody[f].mode \in {"r", "w", "rw"}
  BY <1>1 DEF IInv, MemoryAccounted, FileCustody
<1>3. position \in Nat
  <2>1. isize[n] \in Int
    BY <1>1, <1>2 DEF Types, NotCached
  <2> QED
    BY <2>1
<1>4. c \in FileCustody /\ c.name = n /\ c.offset = position
  BY <1>2, <1>3 DEF File, FileCustody
<1> HIDE DEF c
<1>5. custody' \in [Fds -> Custody]
      /\ \A g \in Fds : custody'[g] = IF g = f THEN c ELSE custody[g]
  BY <1>1, <1>4 DEF Types, Custody, c
<1>6. n \in Children'
  BY <1>2 DEF Children
<1>7. \A g \in Fds : \/ \E h \in Fds : custody'[g] = custody[h]
                     \/ /\ custody'[g] \in FileCustody
                        /\ custody'[g].name \in Children'
                        /\ custody'[g].offset \in 0 .. isize'[custody'[g].name]
  BY <1>4, <1>5, <1>6
<1>8. isize' \in [Names -> Nat \cup {NotCached}] /\ \A m \in Names : isize'[m] = isize[m]
  BY <1>1 DEF Types
<1> QED
  BY <1>5, <1>7, <1>8, SmallStep

\* What is known of an open file.
LEMMA OpenFile ==
    ASSUME IInv, NEW f \in OpenFiles
    PROVE  /\ f \in Fds /\ custody[f] \in FileCustody
           /\ custody[f].name \in Names /\ custody[f].name \in Children
           /\ custody[f].mode \in {"r", "w", "rw"}
           /\ files[custody[f].name] \in FileStates
           /\ isize[custody[f].name] = files[custody[f].name].size
           /\ isize[custody[f].name] \in Nat
           /\ custody[f].offset \in 0 .. isize[custody[f].name]
           /\ Len(files[custody[f].name].data) = files[custody[f].name].allocated
           /\ files[custody[f].name].size <= files[custody[f].name].allocated
<1>1. /\ Types /\ f \in Fds /\ custody[f] \in FileCustody
      /\ custody[f].name \in Children /\ custody[f].offset \in 0 .. isize[custody[f].name]
  BY Custodies DEF IInv, MemoryAccounted
<1> DEFINE n == custody[f].name
           z == isize[n]
<1>2. n \in Names /\ custody[f].offset \in Nat /\ custody[f].mode \in {"r", "w", "rw"}
  BY <1>1 DEF FileCustody
<1>3. files[n] \in FileStates /\ z \in Nat \cup {NotCached}
  BY <1>1, <1>2 DEF Types
<1>4. z # NotCached
  <2>1. custody[f].offset \in 0 .. z
    BY <1>1
  <2> HIDE DEF z
  <2> QED
    BY <1>2, <1>3, <2>1 DEF NotCached
<1>5. /\ z = files[n].size /\ Len(files[n].data) = files[n].allocated
      /\ files[n].size <= files[n].allocated
  BY <1>2, <1>4 DEF IInv, MemoryAccounted
<1> QED
  BY <1>1, <1>2, <1>3, <1>4, <1>5

\* vfs_seek keeps the invariant.
LEMMA SeekStep ==
    ASSUME IInv, NEW f \in Fds, NEW offset \in Offsets,
           NEW whence \in {"SEEK_SET", "SEEK_CUR", "SEEK_END"},
           vfs_seek(f, whence, offset)
    PROVE  IInv'
<1> DEFINE n == custody[f].name
           position == default_checked_seek(isize[n], custody[f].offset, whence, offset)
<1>1. /\ f \in OpenFiles /\ UNCHANGED <<children, files, used, isize>>
      /\ custody' = [custody EXCEPT ![f] = File(n, custody[f].mode, position)]
  BY DEF vfs_seek
<1>2. isize[n] \in Nat /\ custody[f].offset \in Int
  BY <1>1, OpenFile
<1>3. offset \in Int
  BY TempfsAssumption
<1>4. position \in 0 .. isize[n]
  BY <1>2, <1>3, SeekRange
<1> HIDE DEF position
<1> QED
  BY <1>1, <1>4, MoveStep

\* The number of bytes a read returns.
ReadLength(f, size) ==
    LET c == custody[f]
    IN IF c.offset + size > isize[c.name] THEN isize[c.name] - c.offset ELSE size

\* A read stops at the end of the file.
LEMMA ReadLengthFits ==
    ASSUME IInv, NEW f \in OpenFiles, NEW size \in Sizes
    PROVE  /\ ReadLength(f, size) \in Nat
           /\ custody[f].offset + ReadLength(f, size) <= isize[custody[f].name]
<1>1. isize[custody[f].name] \in Nat /\ custody[f].offset \in 0 .. isize[custody[f].name]
  BY OpenFile
<1>2. size \in Nat
  BY TempfsAssumption
<1> QED
  BY <1>1, <1>2 DEF ReadLength

\* vfs_read keeps the invariant.
LEMMA ReadStep ==
    ASSUME IInv, NEW f \in Fds, NEW size \in Sizes, vfs_read(f, size)
    PROVE  IInv'
<1> DEFINE n == custody[f].name
           k == ReadLength(f, size)
           position == default_checked_seek(isize[n], custody[f].offset, "SEEK_CUR", k)
<1>1. /\ f \in OpenFiles /\ UNCHANGED <<children, files, used, isize>>
      /\ custody' = [custody EXCEPT ![f] = File(n, custody[f].mode, position)]
  BY DEF vfs_read, Moved, ReadLength
<1>2. isize[n] \in Nat /\ custody[f].offset \in Int
  BY <1>1, OpenFile
<1>3. k \in Int
  BY <1>1, ReadLengthFits
<1> HIDE DEF k
<1>4. position \in 0 .. isize[n]
  BY <1>2, <1>3, SeekRange
<1> HIDE DEF position
<1> QED
  BY <1>1, <1>4, MoveStep

\* The next entry is the one whose rank comes after those passed.
LEMMA GetdentsStep ==
    ASSUME IInv, NEW f \in Fds, tempfs_dir_getdents(f)
    PROVE  IInv'
<1> DEFINE c == custody[f]
           rest == left(c.offset)
           m == Min(rest)
           d == [mode |-> "dir", old |-> c.old,
                 offset |-> IF rest = {} THEN c.offset ELSE c.offset + 1,
                 seen |-> IF rest = {} THEN c.seen ELSE c.seen \cup {children[m]},
                 ended |-> rest = {}]
<1>1. /\ f \in OpenDirs /\ UNCHANGED <<children, files, used, isize>>
      /\ custody' = [custody EXCEPT ![f] = d]
  BY DEF tempfs_dir_getdents
<1>2. Types /\ c \in DirCustody /\ Listing(children, c)
  BY <1>1, Custodies DEF IInv, ListingsSound
<1>3. c.offset \in Nat /\ c.seen \subseteq Names /\ c.old \subseteq Names
  BY <1>2 DEF DirCustody
<1>4. rest = {i \in 1 .. Slots : children[i] # NoName /\ Rank(children, i) > c.offset}
  BY DEF left, Rank, Occupied
<1> HIDE DEF rest
<1>5. rest # {} => m \in rest /\ \A k \in rest : m <= k
  <2>1. rest \in SUBSET (1 .. Slots) /\ Slots \in Nat
    BY <1>4, TempfsAssumption
  <2> QED
    BY <2>1, Extremes
<1> HIDE DEF m, c
<1>6. \A i \in 1 .. Slots : Rank(children, i) \in Nat
  BY RankType
<1>7. rest # {} => children[m] \in Names
  BY <1>2, <1>4, <1>5 DEF Types
<1>8. /\ d \in DirCustody /\ d.old = c.old /\ d.ended = (rest = {})
      /\ d.offset = (IF rest = {} THEN c.offset ELSE c.offset + 1)
      /\ d.seen = (IF rest = {} THEN c.seen ELSE c.seen \cup {children[m]})
  <2>1. (IF rest = {} THEN c.offset ELSE c.offset + 1) \in Nat
    BY <1>3
  <2>2. (IF rest = {} THEN c.seen ELSE c.seen \cup {children[m]}) \in SUBSET Names
    BY <1>3, <1>7
  <2>3. (rest = {}) \in BOOLEAN
    OBVIOUS
  <2> QED
    BY <1>3, <2>1, <2>2, <2>3 DEF DirCustody
<1> HIDE DEF d
<1>9. ASSUME NEW i \in 1 .. Slots, children[i] \in c.old, Rank(children, i) <= d.offset
      PROVE  children[i] \in d.seen
  <2>1. children[i] # NoName
    BY <1>2, <1>9 DEF Listing
  <2>2. CASE Rank(children, i) <= c.offset
    <3>1. children[i] \in c.seen
      BY <1>2, <1>9, <2>2 DEF Listing
    <3> QED
      BY <1>8, <3>1
  <2>3. CASE ~(Rank(children, i) <= c.offset)
    <3>1. i \in rest /\ Rank(children, i) = c.offset + 1
      BY <1>3, <1>4, <1>6, <1>8, <1>9, <2>1, <2>3
    <3>2. m \in rest /\ m <= i /\ m \in 1 .. Slots /\ Rank(children, m) > c.offset
      BY <1>4, <1>5, <3>1
    <3>3. m = i
      <4> SUFFICES ASSUME m < i PROVE FALSE
        BY <3>2, TempfsAssumption
      <4>1. Rank(children, m) < Rank(children, i)
        BY <2>1, <3>2, RankGrows
      <4> QED
        BY <1>3, <1>6, <3>1, <3>2, <4>1
    <3> QED
      BY <1>8, <3>1, <3>3
  <2> QED
    BY <2>2, <2>3
<1>10. ASSUME d.ended PROVE c.old \subseteq d.seen
  <2> SUFFICES ASSUME NEW x \in c.old PROVE x \in d.seen
    OBVIOUS
  <2>1. rest = {}
    BY <1>8, <1>10
  <2>2. PICK i \in 1 .. Slots : children[i] = x /\ x # NoName
    BY <1>2 DEF Listing
  <2>3. Rank(children, i) <= d.offset
    BY <1>3, <1>4, <1>6, <1>8, <2>1, <2>2
  <2> QED
    BY <1>9, <2>2, <2>3
<1>11. d.seen \subseteq {children[i] : i \in 1 .. Slots} \ {NoName}
  <2>1. rest # {} => m \in 1 .. Slots /\ children[m] # NoName
    BY <1>4, <1>5
  <2> QED
    BY <1>2, <1>8, <2>1 DEF Listing
<1>12. d.offset <= Rank(children, Slots)
  <2>1. Slots \in 1 .. Slots /\ Slots \in Nat /\ Rank(children, Slots) \in Nat
    BY TempfsAssumption, <1>6
  <2>2. ASSUME rest # {} PROVE c.offset + 1 <= Rank(children, Slots)
    <3>1. m \in 1 .. Slots /\ Rank(children, m) > c.offset /\ Rank(children, m) \in Nat
      BY <1>4, <1>5, <1>6, <2>2
    <3>2. Rank(children, m) <= Rank(children, Slots)
      <4>1. IsFiniteSet(Occupied(children, Slots))
        BY <2>1, RankType
      <4>2. Occupied(children, m) \in SUBSET Occupied(children, Slots)
        BY <2>1, <3>1 DEF Occupied
      <4> QED
        BY <4>1, <4>2, FS_Subset DEF Rank
    <3> QED
      BY <1>3, <2>1, <3>1, <3>2
  <2>3. c.offset <= Rank(children, Slots)
    BY <1>2 DEF Listing
  <2> QED
    BY <1>8, <2>2, <2>3
<1>13. Listing(children', d)
  BY <1>1, <1>2, <1>8, <1>9, <1>10, <1>11, <1>12 DEF Listing
<1>14. custody' \in [Fds -> Custody]
       /\ \A g \in Fds : custody'[g] = IF g = f THEN d ELSE custody[g]
  BY <1>1, <1>2, <1>8 DEF Types, Custody
<1>15. \A g \in Fds : \/ \E h \in Fds : custody'[g] = custody[h]
                      \/ custody'[g] \in DirCustody /\ Listing(children', custody'[g])
  BY <1>8, <1>13, <1>14
<1>16. isize' \in [Names -> Nat \cup {NotCached}] /\ \A n \in Names : isize'[n] = isize[n]
  BY <1>1, <1>2 DEF Types
<1> QED
  BY <1>1, <1>14, <1>15, <1>16, SmallStep

-----------------------------------------------------------------------------
(* Writing                                                                 *)

\* New memory comes after the old, and is cleared.
LEMMA GrownIs ==
    ASSUME NEW d \in Seq(Nat), NEW n \in Nat
    PROVE  /\ grown(d, n) \in Seq(Nat) /\ Len(grown(d, n)) = Len(d) + n
           /\ \A k \in 1 .. Len(d) : grown(d, n)[k] = d[k]
<1> DEFINE z == [k \in 1 .. n |-> Zero]
<1>1. z \in Seq(Nat) /\ Len(z) = n
  BY DEF Zero
<1>2. grown(d, n) = d \o z
  BY DEF grown
<1> HIDE DEF z
<1>3. /\ d \o z \in Seq(Nat) /\ Len(d \o z) = Len(d) + Len(z)
      /\ \A k \in 1 .. Len(d) + Len(z) :
           (d \o z)[k] = IF k <= Len(d) THEN d[k] ELSE z[k - Len(d)]
  BY <1>1, ConcatProperties
<1>4. \A k \in 1 .. Len(d) : k \in 1 .. Len(d) + Len(z) /\ k <= Len(d)
  BY <1>1
<1> QED
  BY <1>1, <1>2, <1>3, <1>4

\* The copy of a write puts s at its place and leaves the rest alone.
LEMMA CopiedIs ==
    ASSUME NEW d \in Seq(Nat), NEW s \in Seq(Nat), NEW offset \in Nat
    PROVE  /\ copied(d, offset, s) \in Seq(Nat)
           /\ Len(copied(d, offset, s)) = Len(d)
           /\ \A k \in 1 .. Len(d) : copied(d, offset, s)[k] =
                IF k \in offset + 1 .. offset + Len(s) THEN s[k - offset] ELSE d[k]
<1> DEFINE val(k) == IF k \in offset + 1 .. offset + Len(s) THEN s[k - offset] ELSE d[k]
<1>1. ASSUME NEW k \in 1 .. Len(d) PROVE val(k) \in Nat
  <2>1. CASE k \in offset + 1 .. offset + Len(s)
    <3>1. k - offset \in 1 .. Len(s)
      BY <2>1
    <3>2. s[k - offset] \in Nat
      BY <3>1
    <3> QED
      BY <2>1, <3>2
  <2>2. CASE k \notin offset + 1 .. offset + Len(s)
    BY <2>2
  <2> QED
    BY <2>1, <2>2
<1>2. copied(d, offset, s) = [k \in 1 .. Len(d) |-> val(k)]
  BY DEF copied
<1>3. \A k \in 1 .. Len(d) : copied(d, offset, s)[k] = val(k)
  BY <1>2
<1>4. Len(d) \in Nat
  OBVIOUS
<1> HIDE DEF val
<1>5. copied(d, offset, s) \in Seq(Nat) /\ Len(copied(d, offset, s)) = Len(d)
  BY <1>1, <1>2, <1>4
<1> QED
  BY <1>3, <1>5 DEF val

\* What a write of s through f does to its file n.
Written(f, s, n, offset, size, extra, new) ==
    /\ f \in OpenFiles /\ n = custody[f].name /\ offset = custody[f].offset
    /\ n \in Children /\ s \in Seq(Nat) /\ files[n] \in FileStates
    /\ Len(files[n].data) = files[n].allocated
    /\ isize[n] = files[n].size /\ isize[n] \in Nat /\ isize[n] <= files[n].allocated
    /\ offset <= isize[n]
    /\ size = (IF offset + Len(s) >= isize[n] THEN offset + Len(s) ELSE isize[n])
    /\ used + extra <= Capacity /\ size <= files[n].allocated + extra
    /\ new.allocated = files[n].allocated + extra /\ new.size = size
    /\ new.data = copied(grown(files[n].data, extra), offset, s)
    /\ Len(new.data) = new.allocated
    /\ files' = [files EXCEPT ![n] = new]
    /\ used' = used + extra
    /\ isize' = [isize EXCEPT ![n] = size]
    /\ custody' = [custody EXCEPT ![f] = File(n, custody[f].mode,
         default_checked_seek(size, offset, "SEEK_CUR", Len(s)))]
    /\ result' = [rc |-> Len(s), bytes |-> <<>>]
    /\ UNCHANGED children

\* vfs_write: the file grows to hold what is written.
LEMMA WriteEffect ==
    ASSUME IInv, NEW f \in Fds, NEW s \in Writes, vfs_write(f, s)
    PROVE  \E n \in Names, offset \in Nat, size \in Nat, extra \in Nat, new \in FileStates :
             Written(f, s, n, offset, size, extra, new)
<1> DEFINE c == custody[f]
           n == c.name
           offset == c.offset
           end == offset + Len(s)
           size == Max({end, isize[n]})
           extra == extra_required(n, size)
           data == copied(grown(files[n].data, extra), offset, s)
           new == [allocated |-> files[n].allocated + extra,
                   size |-> IF end > isize[n] THEN end ELSE files[n].size,
                   data |-> data]
<1>1. /\ f \in OpenFiles /\ fits(extra)
      /\ files' = [files EXCEPT ![n] = new]
      /\ used' = used + extra
      /\ isize' = [isize EXCEPT ![n] = size]
      /\ custody' = [custody EXCEPT ![f] = Moved(c, size, Len(s))]
      /\ result' = [rc |-> Len(s), bytes |-> <<>>]
      /\ UNCHANGED children
  BY DEF vfs_write
<1>2. /\ n \in Names /\ n \in Children /\ files[n] \in FileStates
      /\ isize[n] = files[n].size /\ isize[n] \in Nat
      /\ offset \in 0 .. isize[n]
      /\ Len(files[n].data) = files[n].allocated /\ files[n].size <= files[n].allocated
  BY <1>1, OpenFile
<1>3. /\ s \in Seq(Nat) /\ Len(s) \in Nat /\ offset \in Nat /\ end \in Nat
      /\ files[n].data \in Seq(Nat) /\ files[n].allocated \in Nat
  BY <1>2, TempfsAssumption DEF FileStates
<1>4. size = (IF end >= isize[n] THEN end ELSE isize[n]) /\ size \in Nat
  <2> DEFINE i == isize[n]
  <2>1. i \in Nat /\ end \in Nat
    BY <1>2, <1>3
  <2> HIDE DEF i, end
  <2>2. Max({end, i}) = IF end >= i THEN end ELSE i
    BY <2>1, MaxOfTwo
  <2> QED
    BY <2>1, <2>2 DEF i
<1> HIDE DEF size
<1>5. /\ extra \in Nat /\ size <= files[n].allocated + extra
  <2> DEFINE r == round_up(size)
             a == files[n].allocated
  <2>1. r \in Nat /\ r >= size
    BY <1>4, RoundUp
  <2>2. extra = Max({r, a}) - a
    BY DEF extra_required, required_allocated
  <2> HIDE DEF r, a, extra
  <2>3. a \in Nat
    BY <1>3 DEF a
  <2>4. Max({r, a}) = IF r >= a THEN r ELSE a
    BY <2>1, <2>3, MaxOfTwo
  <2>5. extra \in Nat /\ size <= a + extra
    BY <1>4, <2>1, <2>2, <2>3, <2>4
  <2> QED
    BY <2>5 DEF a
<1> HIDE DEF extra
<1>6. data \in Seq(Nat) /\ Len(data) = files[n].allocated + extra
  <2> DEFINE old == files[n].data
             g == grown(old, extra)
  <2>1. old \in Seq(Nat) /\ Len(old) = files[n].allocated
    BY <1>2, <1>3
  <2> HIDE DEF old
  <2>2. g \in Seq(Nat) /\ Len(g) = files[n].allocated + extra
    BY <1>5, <2>1, GrownIs
  <2> HIDE DEF g
  <2>3. copied(g, offset, s) \in Seq(Nat) /\ Len(copied(g, offset, s)) = Len(g)
    BY <1>3, <2>2, CopiedIs
  <2> QED
    BY <2>2, <2>3 DEF g, old
<1> HIDE DEF data
<1>7. /\ new \in FileStates /\ new.allocated = files[n].allocated + extra
      /\ new.size = size /\ new.data = data
  <2> DEFINE z == IF end > isize[n] THEN end ELSE files[n].size
             a == files[n].allocated + extra
  <2>1. z = size
    BY <1>2, <1>3, <1>4
  <2>2. a \in Nat
    <3> DEFINE b == files[n].allocated
    <3>1. b \in Nat
      BY <1>3, Zenon
    <3>2. extra \in Nat
      BY <1>5, Zenon
    <3> HIDE DEF b
    <3>3. b + extra \in Nat
      BY <3>1, <3>2
    <3> QED
      BY <3>3, Zenon DEF b
  <2> HIDE DEF z, a
  <2>3. new = [allocated |-> a, size |-> z, data |-> data]
    BY DEF z, a
  <2> HIDE DEF new
  <2>4. z \in Nat /\ data \in Seq(Nat)
    BY <1>4, <1>6, <2>1, Zenon
  <2>5. new \in FileStates /\ new.allocated = a /\ new.size = z /\ new.data = data
    BY <2>2, <2>3, <2>4 DEF FileStates
  <2> QED
    BY <2>1, <2>5, Zenon DEF a
<1>8. used + extra <= Capacity
  BY <1>1 DEF fits
<1>9. custody' = [custody EXCEPT ![f] = File(n, custody[f].mode,
                    default_checked_seek(size, offset, "SEEK_CUR", Len(s)))]
  BY <1>1 DEF Moved
<1> HIDE DEF new
<1>10. offset <= isize[n] /\ isize[n] <= files[n].allocated
  BY <1>2, <1>3
<1>11. Written(f, s, n, offset, size, extra, new)
  BY <1>1, <1>2, <1>3, <1>4, <1>5, <1>6, <1>7, <1>8, <1>9, <1>10, Zenon DEF data, Written
<1> QED
  BY <1>2, <1>3, <1>4, <1>5, <1>7, <1>11

\* Memory that a write takes for file n is counted once.
LEMMA MemoryGrows ==
    ASSUME IInv, NEW n \in Names, NEW extra \in Nat, NEW new \in FileStates,
           new.allocated = files[n].allocated + extra,
           files' = [files EXCEPT ![n] = new]
    PROVE  /\ IsFiniteSet(AllocatedBytes')
           /\ Cardinality(AllocatedBytes') = Cardinality(AllocatedBytes) + extra
<1> DEFINE a == files[n].allocated
           I == a + 1 .. a + extra
           E == {n} \X I
<1>1. Types /\ IsFiniteSet(AllocatedBytes)
  BY DEF IInv
<1>2. a \in Nat /\ a + 1 \in Int /\ a + extra \in Int
  BY <1>1 DEF Types, FileStates
<1>3. \A m \in Names : files'[m].allocated = IF m = n THEN a + extra ELSE files[m].allocated
  BY <1>1 DEF Types
<1>4. AllocatedBytes' = UNION {{m} \X (1 .. files'[m].allocated) : m \in Names}
  BY DEF AllocatedBytes
<1> HIDE DEF a
<1>5. IsFiniteSet(I) /\ Cardinality(I) = extra
  <2>1. IsFiniteSet(I) /\ Cardinality(I) = IF a + 1 > a + extra THEN 0 ELSE a + extra - (a + 1) + 1
    BY <1>2, FS_Interval
  <2> QED
    BY <1>2, <2>1
<1>6. IsFiniteSet(E) /\ Cardinality(E) = extra
  <2>1. IsFiniteSet({n}) /\ Cardinality({n}) = 1
    BY FS_Singleton
  <2> HIDE DEF I
  <2>2. IsFiniteSet(E) /\ Cardinality(E) = Cardinality({n}) * Cardinality(I)
    BY <1>5, <2>1, FS_Product
  <2> QED
    BY <1>5, <2>1, <2>2
<1>7. \A x : x \in AllocatedBytes' <=> x \in AllocatedBytes \/ x \in E
  <2>1. ASSUME NEW x \in AllocatedBytes' PROVE x \in AllocatedBytes \/ x \in E
    <3>1. PICK m \in Names : x \in {m} \X (1 .. files'[m].allocated)
      BY <1>4
    <3>2. CASE m # n
      <4>1. x \in {m} \X (1 .. files[m].allocated)
        BY <1>3, <3>1, <3>2
      <4> QED
        BY <4>1 DEF AllocatedBytes
    <3>3. CASE m = n
      <4>1. PICK k \in 1 .. a + extra : x = <<n, k>>
        BY <1>3, <3>1, <3>3
      <4>2. k \in 1 .. a \/ k \in I
        BY <1>2
      <4>3. CASE k \in I
        BY <4>1, <4>3
      <4>4. CASE k \in 1 .. a
        <5>1. x \in {n} \X (1 .. files[n].allocated)
          BY <4>1, <4>4 DEF a
        <5> QED
          BY <5>1 DEF AllocatedBytes
      <4> QED
        BY <4>2, <4>3, <4>4
    <3> QED
      BY <3>2, <3>3
  <2>2. ASSUME NEW x \in AllocatedBytes PROVE x \in AllocatedBytes'
    <3>1. PICK m \in Names : x \in {m} \X (1 .. files[m].allocated)
      BY DEF AllocatedBytes
    <3>2. x \in {m} \X (1 .. files'[m].allocated)
      <4>1. PICK k \in 1 .. files[m].allocated : x = <<m, k>>
        BY <3>1
      <4>2. k \in 1 .. files'[m].allocated
        <5>1. CASE m = n
          BY <1>2, <1>3, <4>1, <5>1 DEF a
        <5>2. CASE m # n
          BY <1>3, <4>1, <5>2
        <5> QED
          BY <5>1, <5>2
      <4> QED
        BY <4>1, <4>2
    <3> QED
      BY <1>4, <3>2
  <2>3. ASSUME NEW x \in E PROVE x \in AllocatedBytes'
    <3>1. PICK k \in I : x = <<n, k>>
      BY <2>3
    <3>2. k \in 1 .. files'[n].allocated
      BY <1>2, <1>3, <3>1
    <3>3. x \in {n} \X (1 .. files'[n].allocated)
      BY <3>1, <3>2
    <3> QED
      BY <1>4, <3>3
  <2> QED
    BY <2>1, <2>2, <2>3
<1>8. AllocatedBytes \cap E = {}
  <2> SUFFICES ASSUME NEW x \in AllocatedBytes, x \in E PROVE FALSE
    OBVIOUS
  <2>1. PICK k \in I : x = <<n, k>>
    OBVIOUS
  <2>2. PICK m \in Names : x \in {m} \X (1 .. files[m].allocated)
    BY DEF AllocatedBytes
  <2>3. m = n /\ k \in 1 .. a
    BY <2>1, <2>2 DEF a
  <2> QED
    BY <1>2, <2>1, <2>3
<1> HIDE DEF E
<1>9. AllocatedBytes' = AllocatedBytes \cup E
  BY <1>7
<1> DEFINE A == AllocatedBytes
<1> HIDE DEF A
<1>10. /\ IsFiniteSet(A \cup E)
       /\ Cardinality(A \cup E) = Cardinality(A) + Cardinality(E) - Cardinality(A \cap E)
  BY <1>1, <1>6, FS_Union DEF A
<1>11. Cardinality(A \cap E) = 0
  BY <1>8, FS_EmptySet DEF A
<1>12. Cardinality(A) \in Nat
  BY <1>1, FS_CardinalityType DEF A
<1>13. Cardinality(A \cup E) = Cardinality(A) + extra
  BY <1>6, <1>10, <1>11, <1>12
<1> QED
  BY <1>9, <1>10, <1>13 DEF A

\* vfs_write keeps the invariant.
LEMMA WriteStep ==
    ASSUME IInv, NEW f \in Fds, NEW s \in Writes, vfs_write(f, s)
    PROVE  IInv'
<1>0. Types /\ MemoryAccounted /\ Absent /\ ListingsSound
  BY DEF IInv
<1>a. PICK n \in Names, offset \in Nat, size \in Nat, extra \in Nat, new \in FileStates :
             Written(f, s, n, offset, size, extra, new)
  BY WriteEffect
<1>1. /\ f \in OpenFiles /\ n = custody[f].name /\ offset = custody[f].offset
      /\ n \in Children /\ s \in Seq(Nat) /\ files[n] \in FileStates
      /\ isize[n] \in Nat
      /\ size = (IF offset + Len(s) >= isize[n] THEN offset + Len(s) ELSE isize[n])
      /\ used + extra <= Capacity /\ size <= files[n].allocated + extra
      /\ new.allocated = files[n].allocated + extra /\ new.size = size
      /\ Len(new.data) = new.allocated
      /\ files' = [files EXCEPT ![n] = new]
      /\ used' = used + extra
      /\ isize' = [isize EXCEPT ![n] = size]
      /\ custody' = [custody EXCEPT ![f] = File(n, custody[f].mode,
            default_checked_seek(size, offset, "SEEK_CUR", Len(s)))]
      /\ UNCHANGED children
  BY <1>a, Zenon DEF Written
<1> DEFINE position == default_checked_seek(size, offset, "SEEK_CUR", Len(s))
           c == File(n, custody[f].mode, position)
<1>2. position \in 0 .. size
  <2> DEFINE l == Len(s)
             w == "SEEK_CUR"
  <2>1. l \in Int /\ offset \in Int /\ w \in {"SEEK_SET", "SEEK_CUR", "SEEK_END"}
    BY <1>1
  <2> HIDE DEF l, w
  <2>2. default_checked_seek(size, offset, w, l) \in 0 .. size
    BY <2>1, SeekRange
  <2> QED
    BY <2>2 DEF l, w
<1> HIDE DEF position
<1>3. c \in FileCustody /\ c.name = n /\ c.offset = position
  <2>1. custody[f].mode \in {"r", "w", "rw"}
    BY <1>1, OpenFile
  <2> QED
    BY <1>2, <2>1 DEF File, FileCustody
<1>4. custody' = [custody EXCEPT ![f] = c]
  BY <1>1 DEF position
<1> HIDE DEF c
<1>5. custody' \in [Fds -> Custody]
      /\ \A g \in Fds : custody'[g] = IF g = f THEN c ELSE custody[g]
  BY <1>0, <1>3, <1>4 DEF Types, Custody
<1>6. /\ files' \in [Names -> FileStates]
      /\ \A m \in Names : files'[m] = IF m = n THEN new ELSE files[m]
  BY <1>0, <1>1 DEF Types
<1>7. /\ isize' \in [Names -> Nat \cup {NotCached}]
      /\ \A m \in Names : isize'[m] = IF m = n THEN size ELSE isize[m]
  BY <1>0, <1>1 DEF Types
<1>8. Types'
  BY <1>0, <1>1, <1>5, <1>6, <1>7 DEF Types, Custody
<1>9. Children' = Children
  BY <1>1 DEF Children
<1>10. /\ IsFiniteSet(AllocatedBytes')
       /\ Cardinality(AllocatedBytes') = Cardinality(AllocatedBytes) + extra
  BY <1>1, MemoryGrows
<1>11. /\ \A g \in OpenFiles' : g \in Fds /\ custody'[g] \in FileCustody
       /\ \A g \in OpenDirs' : g \in OpenDirs /\ custody'[g] = custody[g]
  <2>1. c.mode \in {"r", "w", "rw"}
    BY <1>3 DEF FileCustody
  <2>2. OpenDirs' = {g \in Fds : custody'[g].mode = "dir"}
    BY DEF OpenDirs
  <2>3. \A g \in OpenDirs' : g # f
    BY <1>5, <2>1, <2>2
  <2>4. OpenFiles' = {g \in Fds : custody'[g].mode \in {"r", "w", "rw"}}
    BY DEF OpenFiles
  <2>5. ASSUME NEW g \in OpenFiles' PROVE g \in Fds /\ custody'[g] \in FileCustody
    <3>1. CASE g = f
      BY <1>3, <1>5, <3>1
    <3>2. CASE g # f
      <4>1. g \in OpenFiles
        BY <1>5, <2>4, <3>2 DEF OpenFiles
      <4> QED
        BY <1>0, <1>5, <3>2, <4>1, Custodies
    <3> QED
      BY <3>1, <3>2
  <2> QED
    BY <1>5, <2>2, <2>3, <2>5 DEF OpenDirs
<1>12. ASSUME NEW g \in OpenFiles'
       PROVE  /\ custody'[g].name \in Children'
              /\ custody'[g].offset \in 0 .. isize'[custody'[g].name]
  <2>1. CASE g = f
    <3>1. g \in Fds /\ custody'[g] = c
      BY <1>5, <1>11, <2>1
    <3>2. isize'[n] = size
      BY <1>1, <1>7
    <3>3. custody'[g].name = n /\ custody'[g].offset = position
      BY <1>3, <3>1, Zenon
    <3>4. n \in Children'
      BY <1>1, <1>9, Zenon
    <3>5. position \in 0 .. isize'[n]
      BY <1>2, <3>2, Zenon
    <3> QED
      BY <3>3, <3>4, <3>5, Zenon
  <2>2. CASE g # f
    <3>1. g \in Fds /\ custody'[g] = custody[g] /\ custody[g] \in FileCustody
      BY <1>5, <1>11, <2>2
    <3>2. g \in OpenFiles
      BY <1>0, <3>1, Custodies
    <3> DEFINE m == custody[g].name
    <3>3. /\ m \in Names /\ m \in Children /\ isize[m] \in Nat
          /\ custody[g].offset \in 0 .. isize[m]
      BY <3>2, OpenFile
    <3>4. isize'[m] \in Nat /\ isize[m] <= isize'[m]
      <4>1. CASE m = n
        <5>1. isize'[m] = size /\ isize[m] = isize[n]
          BY <1>7, <4>1
        <5>2. size >= isize[n]
          BY <1>1
        <5> QED
          BY <1>1, <5>1, <5>2
      <4>2. CASE m # n
        BY <1>7, <3>3, <4>2
      <4> QED
        BY <4>1, <4>2
    <3>5. custody[g].offset \in 0 .. isize'[m]
      BY <3>3, <3>4
    <3> QED
      BY <1>9, <3>1, <3>3, <3>5
  <2> QED
    BY <2>1, <2>2
<1>13. \A m \in Names : /\ Len(files'[m].data) = files'[m].allocated
                        /\ files'[m].size <= files'[m].allocated
                        /\ isize'[m] # NotCached => isize'[m] = files'[m].size
  <2> SUFFICES ASSUME NEW m \in Names
               PROVE  /\ Len(files'[m].data) = files'[m].allocated
                      /\ files'[m].size <= files'[m].allocated
                      /\ isize'[m] # NotCached => isize'[m] = files'[m].size
    OBVIOUS
  <2>1. CASE m = n
    BY <1>1, <1>6, <1>7, <2>1
  <2>2. CASE m # n
    BY <1>0, <1>6, <1>7, <2>2 DEF MemoryAccounted
  <2> QED
    BY <2>1, <2>2
<1>14. used' <= Capacity /\ used' = Cardinality(AllocatedBytes')
  BY <1>0, <1>1, <1>10 DEF MemoryAccounted
<1>15. MemoryAccounted'
  BY <1>12, <1>13, <1>14 DEF MemoryAccounted
<1>16. Absent'
  BY <1>0, <1>1, <1>6, <1>9 DEF Absent
<1>17. ListingsSound'
  BY <1>0, <1>1, <1>11 DEF ListingsSound
<1> QED
  BY <1>8, <1>10, <1>15, <1>16, <1>17 DEF IInv

\* A call that changes nothing.
LEMMA IdleStep ==
    ASSUME IInv, UNCHANGED <<children, files, used, isize, custody>>
    PROVE  IInv'
<1>1. Types
  BY DEF IInv
<1>2. custody' \in [Fds -> Custody] /\ isize' \in [Names -> Nat \cup {NotCached}]
  BY <1>1 DEF Types, Custody
<1>3. \A f \in Fds : \E g \in Fds : custody'[f] = custody[g]
  OBVIOUS
<1>4. \A n \in Names : isize'[n] = isize[n]
  OBVIOUS
<1> QED
  BY <1>2, <1>3, <1>4, SmallStep

-----------------------------------------------------------------------------
(* The theorems                                                            *)

\* Every call keeps the invariant.
LEMMA StepInvariant == IInv /\ [Next]_vars => IInv'
<1> SUFFICES ASSUME IInv, [Next]_vars PROVE IInv'
  OBVIOUS
<1>1. CASE UNCHANGED vars
  BY <1>1, IdleStep DEF vars
<1>2. ASSUME NEW f \in Fds, NEW n \in Names, NEW mode \in {"r", "w", "rw"},
             vfs_open(f, n, mode) \/ vfs_open_creates(f, n, mode)
      PROVE  IInv'
  BY <1>2, OpenStep
<1>3. ASSUME NEW f \in Fds, NEW n \in Names,
             vfs_open_creates_only(f, n) \/ vfs_open_fails(f, n)
      PROVE  IInv'
  BY <1>3, OtherOpenStep
<1>4. ASSUME NEW f \in Fds, vfs_open_directory(f) PROVE IInv'
  BY <1>4, OpenDirectoryStep
<1>5. ASSUME NEW f \in Fds, NEW g \in Fds, vfs_duplicate(f, g) PROVE IInv'
  BY <1>5, CopyStep
<1>6. ASSUME NEW f \in Fds, vfs_close(f) PROVE IInv'
  BY <1>6, CopyStep
<1>7. ASSUME NEW f \in Fds, NEW whence \in {"SEEK_SET", "SEEK_CUR", "SEEK_END"},
             NEW offset \in Offsets, vfs_seek(f, whence, offset)
      PROVE  IInv'
  BY <1>7, SeekStep
<1>8. ASSUME NEW f \in Fds, NEW size \in Sizes, vfs_read(f, size) PROVE IInv'
  BY <1>8, ReadStep
<1>9. ASSUME NEW f \in Fds, NEW s \in Writes, vfs_write(f, s) PROVE IInv'
  BY <1>9, WriteStep
<1>10. ASSUME NEW f \in Fds, NEW s \in Writes, vfs_write_fails(f, s) PROVE IInv'
  BY <1>10, IdleStep DEF vfs_write_fails
<1>11. ASSUME NEW f \in Fds, tempfs_dir_getdents(f) PROVE IInv'
  BY <1>11, GetdentsStep
<1> QED
  BY <1>1, <1>2, <1>3, <1>4, <1>5, <1>6, <1>7, <1>8, <1>9, <1>10, <1>11 DEF Next

\* The invariant holds in every state, whatever the calls: the positions of
\* descriptors, the two sizes of a file and its memory fit together.
THEOREM TempfsInvariant == Spec => []IInv
<1> QED
  BY InitInvariant, StepInvariant, PTL DEF Spec

\* The copies of read and write stay inside the memory of the file, the limit
\* of the filesystem holds and no byte of it is lost or counted twice.
THEOREM MemoryStaysAccounted == Spec => []MemoryAccounted
<1>1. IInv => MemoryAccounted
  BY DEF IInv
<1> QED
  BY <1>1, TempfsInvariant, PTL

\* As many entries as a listing has passed have at most that rank.
LEMMA Passed ==
    ASSUME NEW ch, NEW k \in Nat, k <= Rank(ch, Slots)
    PROVE  k <= Cardinality({i \in 1 .. Slots : ch[i] # NoName /\ Rank(ch, i) <= k})
<1> DEFINE P == {i \in 1 .. Slots : ch[i] # NoName /\ Rank(ch, i) <= k}
           reach == {i \in 1 .. Slots : k <= Rank(ch, i)}
<1>1. Slots \in Nat /\ Slots \in 1 .. Slots
  BY TempfsAssumption
<1>2. IsFiniteSet(P) /\ Cardinality(P) \in Nat
  <2>1. P \in SUBSET (1 .. Slots)
    OBVIOUS
  <2>2. IsFiniteSet(1 .. Slots)
    BY <1>1, FS_Interval
  <2> HIDE DEF P
  <2>3. IsFiniteSet(P)
    BY <2>1, <2>2, FS_Subset
  <2> QED
    BY <2>3, FS_CardinalityType
<1>3. \A i \in 1 .. Slots : IsFiniteSet(Occupied(ch, i)) /\ Rank(ch, i) \in Nat
  BY RankType
<1>4. reach \in SUBSET Nat /\ reach # {}
  BY <1>1
<1> HIDE DEF reach
<1>5. PICK m \in reach : \A i \in reach : m <= i
  BY <1>4, LeastNatural
<1>6. m \in 1 .. Slots /\ k <= Rank(ch, m) /\ \A i \in 1 .. m - 1 : ~(k <= Rank(ch, i))
  BY <1>1, <1>5 DEF reach
<1>7. CASE k = 0
  BY <1>2, <1>7 DEF P
<1>8. CASE k # 0
  <2>1. Rank(ch, m) <= k
    <3>1. CASE m = 1
      <4>1. Occupied(ch, m) \in SUBSET {1}
        BY <3>1 DEF Occupied
      <4>2. IsFiniteSet({1}) /\ Cardinality({1}) = 1
        BY FS_Singleton
      <4>3. Rank(ch, m) <= 1
        BY <4>1, <4>2, FS_Subset DEF Rank
      <4> QED
        BY <1>3, <1>6, <1>8, <4>3
    <3>2. CASE m # 1
      <4> DEFINE j == m - 1
      <4>1. j \in 1 .. Slots /\ j \in 1 .. m - 1 /\ m \notin 1 .. j /\ 1 .. m = (1 .. j) \cup {m}
        BY <1>1, <1>6, <3>2
      <4> HIDE DEF j
      <4>2. Occupied(ch, m) \in SUBSET (Occupied(ch, j) \cup {m}) /\ m \notin Occupied(ch, j)
        BY <4>1 DEF Occupied
      <4>3. /\ IsFiniteSet(Occupied(ch, j) \cup {m})
            /\ Cardinality(Occupied(ch, j) \cup {m}) = Cardinality(Occupied(ch, j)) + 1
        BY <1>3, <4>1, <4>2, FS_AddElement
      <4>4. Rank(ch, m) <= Rank(ch, j) + 1
        BY <4>2, <4>3, FS_Subset DEF Rank
      <4>5. Rank(ch, j) < k /\ Rank(ch, j) \in Nat /\ Rank(ch, m) \in Nat
        BY <1>3, <1>6, <4>1
      <4> QED
        BY <4>4, <4>5
    <3> QED
      BY <3>1, <3>2
  <2>2. Occupied(ch, m) \in SUBSET P
    <3> SUFFICES ASSUME NEW i \in Occupied(ch, m) PROVE i \in P
      OBVIOUS
    <3>1. i \in 1 .. m /\ i \in 1 .. Slots /\ ch[i] # NoName
      BY <1>1, <1>6 DEF Occupied
    <3>2. Rank(ch, i) <= k
      <4>1. CASE i = m
        BY <2>1, <4>1
      <4>2. CASE i # m
        <5>1. i \in 1 .. m - 1
          BY <1>1, <1>6, <3>1, <4>2
        <5>2. ~(k <= Rank(ch, i)) /\ Rank(ch, i) \in Nat
          BY <1>3, <1>6, <3>1, <5>1
        <5> QED
          BY <5>2
      <4> QED
        BY <4>1, <4>2
    <3> QED
      BY <3>1, <3>2
  <2> HIDE DEF P
  <2>3. Rank(ch, m) <= Cardinality(P)
    BY <1>2, <2>2, FS_Subset DEF Rank
  <2>4. Rank(ch, m) \in Nat
    BY <1>3, <1>6
  <2>5. k <= Cardinality(P)
    BY <1>2, <1>6, <2>3, <2>4
  <2> QED
    BY <2>5 DEF P
<1> QED
  BY <1>7, <1>8

\* The entries a listing has passed are those it has returned, and entries that
\* were created since it began.
LEMMA RepeatsBounded ==
    ASSUME NEW ch, Unique(ch), NEW c \in DirCustody, Listing(ch, c)
    PROVE  LET now == {ch[i] : i \in 1 .. Slots} \ {NoName}
           IN c.offset <= Cardinality(c.seen) + Cardinality(now \ c.old)
<1> DEFINE all == {ch[i] : i \in 1 .. Slots}
           now == all \ {NoName}
           P == {i \in 1 .. Slots : ch[i] # NoName /\ Rank(ch, i) <= c.offset}
           f == [i \in P |-> ch[i]]
           U == c.seen \cup (now \ c.old)
<1>1. c.offset \in Nat /\ c.offset <= Cardinality(P)
  BY Passed DEF DirCustody, Listing
<1>2. IsFiniteSet(now)
  <2> DEFINE g == [i \in 1 .. Slots |-> ch[i]]
  <2>1. g \in Surjection(1 .. Slots, all)
    BY DEF Surjection
  <2>2. IsFiniteSet(1 .. Slots)
    BY TempfsAssumption, FS_Interval
  <2> HIDE DEF g, all, now
  <2>3. IsFiniteSet(all)
    BY <2>1, <2>2, FS_Surjection
  <2> QED
    BY <2>3, FS_Subset DEF now
<1>3. /\ IsFiniteSet(c.seen) /\ IsFiniteSet(now \ c.old)
      /\ Cardinality(c.seen) \in Nat /\ Cardinality(now \ c.old) \in Nat
  <2>1. c.seen \in SUBSET now /\ now \ c.old \in SUBSET now
    BY DEF Listing
  <2> HIDE DEF now
  <2> QED
    BY <1>2, <2>1, FS_Subset, FS_CardinalityType
<1>4. /\ IsFiniteSet(U) /\ Cardinality(U) \in Nat
      /\ Cardinality(U) <= Cardinality(c.seen) + Cardinality(now \ c.old)
  <2> DEFINE b == now \ c.old
  <2> HIDE DEF now, b
  <2>1. /\ IsFiniteSet(c.seen \cup b)
        /\ Cardinality(c.seen \cup b) = Cardinality(c.seen) + Cardinality(b)
                                          - Cardinality(c.seen \cap b)
    BY <1>3, FS_Union DEF b
  <2>2. c.seen \cap b \in SUBSET b /\ IsFiniteSet(b)
    BY <1>3 DEF b
  <2>3. Cardinality(c.seen \cap b) \in Nat
    BY <2>2, FS_Subset, FS_CardinalityType
  <2>4. Cardinality(c.seen \cup b) \in Nat
    BY <2>1, FS_CardinalityType
  <2> QED
    BY <1>3, <2>1, <2>3, <2>4 DEF b
<1>5. f \in Injection(P, U)
  <2>1. ASSUME NEW i \in P PROVE ch[i] \in U
    BY DEF Listing
  <2>2. \A i, j \in P : ch[i] = ch[j] => i = j
    BY DEF Unique
  <2> HIDE DEF P, U
  <2>3. f \in [P -> U] /\ \A i, j \in P : f[i] = f[j] => i = j
    BY <2>1, <2>2
  <2> HIDE DEF f
  <2> QED
    BY <2>3 DEF Injection, IsInjective
<1> HIDE DEF P, U, f
<1>6. Cardinality(P) <= Cardinality(U) /\ IsFiniteSet(P)
  BY <1>4, <1>5, FS_Injection
<1>7. Cardinality(P) \in Nat
  BY <1>6, FS_CardinalityType
<1> QED
  BY <1>1, <1>3, <1>4, <1>6, <1>7

\* A listing of the directory that has come to its end misses no entry that
\* was there when it began, although tempfs_dir_create fills the slots from
\* the last to the first while it goes on; what it returns again is at most
\* one entry for each that was created.
THEOREM ListingsAreComplete == Spec => []ListingComplete
<1>1. IInv => ListingComplete
  <2> SUFFICES ASSUME IInv, NEW f \in OpenDirs
               PROVE  /\ custody[f].ended => custody[f].old \subseteq custody[f].seen
                      /\ custody[f].offset <= Cardinality(custody[f].seen)
                                              + Cardinality(Children \ custody[f].old)
    BY DEF ListingComplete
  <2>1. Listing(children, custody[f]) /\ Unique(children) /\ custody[f] \in DirCustody
    BY Custodies DEF IInv, ListingsSound
  <2>2. custody[f].offset <= Cardinality(custody[f].seen)
                            + Cardinality(Children \ custody[f].old)
    BY <2>1, RepeatsBounded DEF Children
  <2> QED
    BY <2>1, <2>2 DEF Listing
<1> QED
  BY <1>1, TempfsInvariant, PTL

-----------------------------------------------------------------------------
(* Programs see files                                                      *)

Contents == [n \in Children |-> SubSeq(files[n].data, 1, files[n].size)]

\* The content of a file, from its memory.
LEMMA Prefix ==
    ASSUME NEW d \in Seq(Nat), NEW z \in Nat, z <= Len(d)
    PROVE  /\ SubSeq(d, 1, z) \in Seq(Nat) /\ Len(SubSeq(d, 1, z)) = z
           /\ \A i \in 1 .. z : SubSeq(d, 1, z)[i] = d[i]
<1> DEFINE e == SubSeq(d, 1, z)
<1>1. \A i \in 1 .. z : d[i] \in Nat /\ d[1 + i - 1] = d[i]
  OBVIOUS
<1>2. /\ e \in Seq(Nat) /\ Len(e) = IF 1 <= z THEN z - 1 + 1 ELSE 0
      /\ \A i \in 1 .. z - 1 + 1 : e[i] = d[1 + i - 1]
  BY <1>1, SubSeqProperties
<1>3. z - 1 + 1 = z /\ Len(e) = z
  BY <1>2
<1> QED
  BY <1>1, <1>2, <1>3

\* A part of what is inside a file is a part of its memory.
LEMMA PartOfPrefix ==
    ASSUME NEW d \in Seq(Nat), NEW z \in Nat, z <= Len(d),
           NEW p \in Nat, NEW q \in Nat, q <= z
    PROVE  SubSeq(SubSeq(d, 1, z), p + 1, q) = SubSeq(d, p + 1, q)
<1> DEFINE e == SubSeq(d, 1, z)
<1>1. \A i \in 1 .. z : d[i] \in Nat /\ d[1 + i - 1] = d[i]
  OBVIOUS
<1>2. /\ e \in Seq(Nat) /\ Len(e) = z
      /\ \A i \in 1 .. z : e[i] = d[i]
  BY Prefix
<1> HIDE DEF e
<1> DEFINE a == SubSeq(e, p + 1, q)
           b == SubSeq(d, p + 1, q)
           l == q - (p + 1) + 1
<1>3. \A i \in p + 1 .. q : i \in 1 .. z /\ e[i] \in Nat /\ d[i] \in Nat
  BY <1>1, <1>2
<1>4. /\ a \in Seq(Nat) /\ Len(a) = IF p + 1 <= q THEN l ELSE 0
      /\ \A i \in 1 .. l : a[i] = e[p + 1 + i - 1]
  BY <1>3, SubSeqProperties
<1>5. /\ b \in Seq(Nat) /\ Len(b) = IF p + 1 <= q THEN l ELSE 0
      /\ \A i \in 1 .. l : b[i] = d[p + 1 + i - 1]
  BY <1>3, SubSeqProperties
<1>6. \A i \in 1 .. l : a[i] = b[i]
  <2> SUFFICES ASSUME NEW i \in 1 .. l PROVE a[i] = b[i]
    OBVIOUS
  <2>1. p + 1 + i - 1 \in 1 .. z
    OBVIOUS
  <2> QED
    BY <1>2, <1>4, <1>5, <2>1
<1> HIDE DEF a, b
<1>7. Len(a) = Len(b) /\ \A i \in 1 .. Len(a) : a[i] = b[i]
  BY <1>4, <1>5, <1>6
<1>8. a = b
  BY <1>4, <1>5, <1>7, SeqEqual
<1> QED
  BY <1>8 DEF a, b, e

\* The copy of a write, seen from outside: bytes over the old content.
LEMMA WriteOverwrites ==
    ASSUME NEW d \in Seq(Nat), NEW s \in Seq(Nat), NEW z \in Nat, z <= Len(d),
           NEW offset \in Nat, offset <= z, NEW extra \in Nat, NEW size \in Nat,
           size = (IF offset + Len(s) >= z THEN offset + Len(s) ELSE z),
           size <= Len(d) + extra
    PROVE  SubSeq(copied(grown(d, extra), offset, s), 1, size)
             = FilesImplemented!Overwrite(SubSeq(d, 1, z), offset, s)
<1> DEFINE g == grown(d, extra)
           c == copied(g, offset, s)
           e == SubSeq(d, 1, z)
           a == SubSeq(c, 1, size)
<1>1. /\ g \in Seq(Nat) /\ Len(g) = Len(d) + extra
      /\ \A k \in 1 .. Len(d) : g[k] = d[k]
  BY GrownIs
<1> HIDE DEF g
<1>2. /\ c \in Seq(Nat) /\ Len(c) = Len(g)
      /\ \A k \in 1 .. Len(g) : c[k] =
           IF k \in offset + 1 .. offset + Len(s) THEN s[k - offset] ELSE g[k]
  <2>1. g \in Seq(Nat)
    BY <1>1
  <2> QED
    BY <2>1, CopiedIs, ZenonT(60)
<1> HIDE DEF c
<1>3. /\ e \in Seq(Nat) /\ Len(e) = z /\ \A k \in 1 .. z : e[k] = d[k]
  BY Prefix
<1>4. /\ a \in Seq(Nat) /\ Len(a) = size /\ \A k \in 1 .. size : a[k] = c[k]
  <2>1. Len(c) = Len(d) + extra
    BY <1>1, <1>2
  <2>2. size <= Len(c)
    BY <2>1
  <2> QED
    BY <1>2, <2>2, Prefix
<1> HIDE DEF e, a
<1> DEFINE w == FilesImplemented!Overwrite(e, offset, s)
<1>5. (IF offset + Len(s) > Len(e) THEN offset + Len(s) ELSE Len(e)) = size
  BY <1>3
<1>6. w = [k \in 1 .. size |->
             IF k \in offset + 1 .. offset + Len(s) THEN s[k - offset] ELSE e[k]]
  BY <1>5 DEF FilesImplemented!Overwrite
<1>7. ASSUME NEW k \in 1 .. size
      PROVE  a[k] = IF k \in offset + 1 .. offset + Len(s) THEN s[k - offset] ELSE e[k]
  <2>1. k \in 1 .. Len(g)
    BY <1>1
  <2>2. CASE k \in offset + 1 .. offset + Len(s)
    BY <1>2, <1>4, <2>1, <2>2
  <2>3. CASE k \notin offset + 1 .. offset + Len(s)
    <3>1. k \in 1 .. z /\ k \in 1 .. Len(d)
      BY <2>3
    <3>2. a[k] = g[k]
      BY <1>2, <1>4, <2>1, <2>3
    <3> QED
      BY <1>1, <1>3, <2>3, <3>1, <3>2
  <2> QED
    BY <2>2, <2>3
<1>8. a = [k \in 1 .. size |-> a[k]]
  BY <1>4
<1>9. a = w
  BY <1>6, <1>7, <1>8
<1> QED
  BY <1>9 DEF a, c, e, g

\* Steps that leave the files and their names alone.
LEMMA SameContents ==
    ASSUME UNCHANGED <<children, files>>
    PROVE  Children' = Children /\ Contents' = Contents
BY DEF Contents, Children

\* A new file is empty: its inode is.
LEMMA CreatedContents ==
    ASSUME IInv, NEW n \in Names, tempfs_dir_create(n), UNCHANGED files
    PROVE  /\ n \notin DOMAIN Contents
           /\ Contents' = [m \in DOMAIN Contents \cup {n} |->
                             IF m = n THEN <<>> ELSE Contents[m]]
<1>1. n \notin Children /\ Children' = Children \cup {n}
  BY Creates DEF IInv
<1>2. files[n] = NoFile
  BY <1>1 DEF IInv, Absent
<1>3. SubSeq(files[n].data, 1, files[n].size) = <<>>
  <2>1. files[n].size = 0
    BY <1>2 DEF NoFile
  <2> QED
    BY <2>1, SubSeqEmpty
<1>4. Contents' = [m \in Children' |-> SubSeq(files[m].data, 1, files[m].size)]
  BY DEF Contents
<1>5. \A m \in Children : Contents[m] = SubSeq(files[m].data, 1, files[m].size)
  BY DEF Contents
<1>6. DOMAIN Contents = Children
  BY DEF Contents
<1> QED
  BY <1>1, <1>3, <1>4, <1>5, <1>6

\* The content of an open file.
LEMMA OpenContents ==
    ASSUME IInv, NEW f \in OpenFiles
    PROVE  LET n == custody[f].name
           IN /\ n \in DOMAIN Contents /\ Contents[n] = SubSeq(files[n].data, 1, files[n].size)
              /\ Contents[n] \in Seq(Nat) /\ Len(Contents[n]) = files[n].size
<1> DEFINE n == custody[f].name
           d == files[n].data
           z == files[n].size
<1>1. n \in Children /\ files[n] \in FileStates /\ Len(d) = files[n].allocated
      /\ z <= files[n].allocated
  BY OpenFile
<1>2. d \in Seq(Nat) /\ z \in Nat /\ z <= Len(d)
  BY <1>1 DEF FileStates
<1> HIDE DEF d, z
<1>3. SubSeq(d, 1, z) \in Seq(Nat) /\ Len(SubSeq(d, 1, z)) = z
  BY <1>2, Prefix
<1>4. DOMAIN Contents = Children /\ Contents[n] = SubSeq(d, 1, z)
  BY <1>1 DEF Contents, d, z
<1> QED
  BY <1>1, <1>3, <1>4 DEF d, z

\* Reading is reading of the file's content.
LEMMA ReadReads ==
    ASSUME IInv, NEW f \in Fds, NEW size \in Sizes, vfs_read(f, size)
    PROVE  \E n \in DOMAIN Contents : \E p \in 0 .. Len(Contents[n]) :
             \E q \in p .. Len(Contents[n]) :
               /\ result' = [rc |-> q - p, bytes |-> SubSeq(Contents[n], p + 1, q)]
               /\ Contents' = Contents
<1> DEFINE n == custody[f].name
           p == custody[f].offset
           l == ReadLength(f, size)
           d == files[n].data
           z == files[n].size
<1>1. /\ f \in OpenFiles /\ UNCHANGED <<children, files>>
      /\ result' = [rc |-> l, bytes |-> SubSeq(d, p + 1, p + l)]
  BY DEF vfs_read, ReadLength, tempfs_file_inode_read
<1>2. l \in Nat /\ p + l <= isize[n]
  BY <1>1, ReadLengthFits
<1>3. /\ isize[n] = z /\ z \in Nat /\ p \in 0 .. isize[n] /\ files[n] \in FileStates
      /\ Len(d) = files[n].allocated /\ z <= files[n].allocated
  BY <1>1, OpenFile
<1>4. d \in Seq(Nat) /\ z <= Len(d)
  BY <1>3 DEF FileStates
<1>5. n \in DOMAIN Contents /\ Contents[n] = SubSeq(d, 1, z) /\ Len(Contents[n]) = z
  BY <1>1, OpenContents
<1>6. Contents' = Contents
  BY <1>1, SameContents
<1> HIDE DEF n, p, l, d, z
<1> DEFINE q == p + l
<1>7. p \in Nat /\ q \in Nat /\ q <= z /\ q - p = l
  BY <1>2, <1>3
<1>8. result' = [rc |-> l, bytes |-> SubSeq(d, p + 1, q)]
  BY <1>1
<1> HIDE DEF q
<1>9. SubSeq(Contents[n], p + 1, q) = SubSeq(d, p + 1, q)
  <2>1. z \in Nat
    BY <1>3
  <2>2. SubSeq(SubSeq(d, 1, z), p + 1, q) = SubSeq(d, p + 1, q)
    BY <1>4, <1>7, <2>1, PartOfPrefix
  <2> QED
    BY <1>5, <2>2, Zenon
<1>10. p \in 0 .. Len(Contents[n]) /\ q \in p .. Len(Contents[n])
  <2>1. p \in 0 .. z
    BY <1>3, Zenon
  <2>2. z \in Nat
    BY <1>3, Zenon
  <2>3. l \in Nat
    BY <1>2, Zenon
  <2>4. q >= p
    BY <1>7, <2>3
  <2>5. q \in p .. z
    BY <1>7, <2>2, <2>4
  <2> QED
    BY <1>5, <2>1, <2>5, Zenon
<1>11. result' = [rc |-> q - p, bytes |-> SubSeq(Contents[n], p + 1, q)]
  BY <1>7, <1>8, <1>9
<1> QED
  BY <1>5, <1>6, <1>10, <1>11, Zenon

\* Writing is writing over the file's content.
LEMMA WriteWrites ==
    ASSUME IInv, NEW f \in Fds, NEW s \in Writes, vfs_write(f, s)
    PROVE  \E n \in DOMAIN Contents : \E p \in 0 .. Len(Contents[n]) :
             /\ Contents' = [Contents EXCEPT ![n] =
                               FilesImplemented!Overwrite(Contents[n], p, s)]
             /\ result' = [rc |-> Len(s), bytes |-> <<>>]
<1>1. PICK n \in Names, offset \in Nat, size \in Nat, extra \in Nat, new \in FileStates :
        Written(f, s, n, offset, size, extra, new)
  BY WriteEffect
<1> DEFINE d == files[n].data
           z == files[n].size
<1>2. /\ f \in OpenFiles /\ n = custody[f].name
      /\ n \in Children /\ s \in Seq(Nat) /\ files[n] \in FileStates
      /\ Len(d) = files[n].allocated
      /\ isize[n] = z /\ isize[n] \in Nat /\ isize[n] <= files[n].allocated
      /\ offset <= isize[n]
      /\ size = (IF offset + Len(s) >= isize[n] THEN offset + Len(s) ELSE isize[n])
      /\ size <= files[n].allocated + extra
      /\ new.size = size /\ new.data = copied(grown(d, extra), offset, s)
      /\ files' = [files EXCEPT ![n] = new]
      /\ result' = [rc |-> Len(s), bytes |-> <<>>]
      /\ UNCHANGED children
  BY <1>1, Zenon DEF Written
<1>3. d \in Seq(Nat) /\ z \in Nat /\ z <= Len(d) /\ offset <= z
      /\ size = (IF offset + Len(s) >= z THEN offset + Len(s) ELSE z)
      /\ size <= Len(d) + extra
  BY <1>2 DEF FileStates
<1>4. n \in DOMAIN Contents /\ Contents[n] = SubSeq(d, 1, z) /\ Len(Contents[n]) = z
  BY <1>2, OpenContents
<1> HIDE DEF d, z
<1>5. SubSeq(new.data, 1, new.size)
        = FilesImplemented!Overwrite(Contents[n], offset, s)
  <2>1. s \in Seq(Nat)
    BY <1>2
  <2>2. SubSeq(copied(grown(d, extra), offset, s), 1, size)
          = FilesImplemented!Overwrite(SubSeq(d, 1, z), offset, s)
    BY <1>3, <2>1, WriteOverwrites
  <2> QED
    BY <1>2, <1>4, <2>2, Zenon
<1>6. Children' = Children /\ DOMAIN Contents = Children
  BY <1>2 DEF Children, Contents
<1>7. Contents' = [m \in Children |-> SubSeq(files'[m].data, 1, files'[m].size)]
  BY <1>6 DEF Contents
<1>8. /\ files'[n] = new
      /\ \A m \in Children : m # n => files'[m] = files[m]
  <2>1. files \in [Names -> FileStates]
    BY DEF IInv, Types
  <2>2. Children \subseteq Names
    BY DEF IInv, Types, Children
  <2> QED
    BY <1>2, <2>1, <2>2
<1>9. \A m \in Children : m # n => SubSeq(files'[m].data, 1, files'[m].size) = Contents[m]
  BY <1>8 DEF Contents
<1> DEFINE w == FilesImplemented!Overwrite(Contents[n], offset, s)
<1> HIDE DEF w
<1>10. SubSeq(files'[n].data, 1, files'[n].size) = w
  BY <1>5, <1>8 DEF w
<1>11. Contents' = [Contents EXCEPT ![n] = w]
  <2>1. [Contents EXCEPT ![n] = w] = [m \in Children |-> IF m = n THEN w ELSE Contents[m]]
    BY <1>6
  <2>2. \A m \in Children : SubSeq(files'[m].data, 1, files'[m].size)
                               = IF m = n THEN w ELSE Contents[m]
    BY <1>9, <1>10
  <2> QED
    BY <1>7, <2>1, <2>2
<1>12. offset \in 0 .. Len(Contents[n])
  BY <1>3, <1>4
<1> QED
  BY <1>2, <1>4, <1>11, <1>12 DEF w

\* Each call is a call on files, or one that programs cannot tell apart.
LEMMA StepRefines ==
    ASSUME IInv, [Next]_vars
    PROVE  [FilesImplemented!Next]_(FilesImplemented!vars)
<1>0. Refused = FilesImplemented!Refused /\ Done = FilesImplemented!Done
  BY DEF Refused, Done, FilesImplemented!Refused, FilesImplemented!Done
<1>1. CASE UNCHANGED vars
  BY <1>1 DEF vars, FilesImplemented!vars, Children
<1>2. ASSUME UNCHANGED <<children, files>>, result' \in {Refused, Done}
      PROVE  FilesImplemented!Next
  BY <1>0, <1>2, SameContents DEF FilesImplemented!Next, FilesImplemented!Other, Contents
<1>3. ASSUME NEW n \in Names, tempfs_dir_create(n), UNCHANGED files,
             result' \in {Refused, Done}
      PROVE  FilesImplemented!Next
  BY <1>0, <1>3, CreatedContents
  DEF FilesImplemented!Next, FilesImplemented!Create, Contents
<1>4. ASSUME NEW f \in Fds, NEW size \in Sizes, vfs_read(f, size)
      PROVE  FilesImplemented!Next
  BY <1>4, ReadReads, Zenon DEF FilesImplemented!Next, FilesImplemented!Read, Contents
<1>5. ASSUME NEW f \in Fds, NEW s \in Writes, vfs_write(f, s)
      PROVE  FilesImplemented!Next
  <2>1. PICK n \in DOMAIN Contents : \E p \in 0 .. Len(Contents[n]) :
          /\ Contents' = [Contents EXCEPT ![n] =
                            FilesImplemented!Overwrite(Contents[n], p, s)]
          /\ result' = [rc |-> Len(s), bytes |-> <<>>]
    BY <1>5, WriteWrites, Zenon
  <2>2. PICK p \in 0 .. Len(Contents[n]) :
          /\ Contents' = [Contents EXCEPT ![n] =
                            FilesImplemented!Overwrite(Contents[n], p, s)]
          /\ result' = [rc |-> Len(s), bytes |-> <<>>]
    BY <2>1
  <2>3. FilesImplemented!Write(n, p, s)
    BY <2>2, Zenon DEF FilesImplemented!Write, Contents
  <2> QED
    BY <2>3, Zenon DEF FilesImplemented!Next, Contents
<1>6. ASSUME NEW f \in Fds, NEW n \in Names, NEW mode \in {"r", "w", "rw"},
             \/ vfs_open(f, n, mode) \/ vfs_open_creates(f, n, mode)
             \/ vfs_open_creates_only(f, n) \/ vfs_open_fails(f, n)
      PROVE  FilesImplemented!Next
  <2>1. /\ UNCHANGED files /\ result' \in {Refused, Done}
        /\ UNCHANGED children \/ tempfs_dir_create(n)
    BY <1>6 DEF vfs_open, vfs_open_creates, open, vfs_open_creates_only, vfs_open_fails
  <2> QED
    BY <1>2, <1>3, <2>1
<1>7. ASSUME NEW f \in Fds, NEW g \in Fds,
             \/ vfs_open_directory(f) \/ vfs_duplicate(f, g) \/ vfs_close(f)
             \/ tempfs_dir_getdents(f)
      PROVE  FilesImplemented!Next
  <2>1. UNCHANGED <<children, files>> /\ result' \in {Refused, Done}
    BY <1>7 DEF vfs_open_directory, vfs_duplicate, vfs_close, tempfs_dir_getdents
  <2> QED
    BY <1>2, <2>1
<1>8. ASSUME NEW f \in Fds, NEW offset \in Offsets,
             NEW whence \in {"SEEK_SET", "SEEK_CUR", "SEEK_END"},
             vfs_seek(f, whence, offset)
      PROVE  FilesImplemented!Next
  BY <1>2, <1>8 DEF vfs_seek
<1>9. ASSUME NEW f \in Fds, NEW s \in Writes, vfs_write_fails(f, s)
      PROVE  FilesImplemented!Next
  BY <1>2, <1>9 DEF vfs_write_fails
<1>10. ASSUME NEW f \in Fds, NEW n \in Names,
              vfs_open_creates_only(f, n) \/ vfs_open_fails(f, n)
       PROVE  FilesImplemented!Next
  BY <1>6, <1>10
<1> QED
  BY <1>1, <1>4, <1>5, <1>6, <1>7, <1>8, <1>9, <1>10 DEF Next

\* The files in memory implement the files of module Files: what a program
\* reads at a position is what was last written there (vfs_read, vfs_write and
\* vfs_seek over tempfs_file_inode_read, _write and _ioctl), through whichever
\* descriptor, and a call that is refused leaves no trace.
THEOREM TempfsImplementsFiles == Spec => FilesSpec
<1>1. Init => FilesImplemented!Init
  <2> SUFFICES ASSUME Init PROVE FilesImplemented!Init
    OBVIOUS
  <2>1. Children = {}
    BY DEF Init, Children
  <2>2. Contents = <<>>
    <3>1. Contents = [n \in 1 .. 0 |-> 0]
      BY <2>1 DEF Contents
    <3>2. Contents \in Seq(Nat) /\ Len(Contents) = 0
      BY <3>1
    <3> QED
      BY <3>2, EmptySeq
  <2> QED
    BY <2>2 DEF Init, Contents, Done, FilesImplemented!Init, FilesImplemented!Done
<1> QED
  BY <1>1, TempfsInvariant, StepRefines, PTL DEF Spec, FilesSpec, FilesImplemented!Spec
=============================================================================
