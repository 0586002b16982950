------------------------------- MODULE Fat32 -------------------------------
(***************************************************************************)
(* The FAT32 file system (kernel/vfs/fat32/fat32.cpp) on a block device    *)
(* that other programs use too, through its file in /dev.  The driver      *)
(* waits for the disk without yielding, so one call runs at a time; what   *)
(* can go wrong is that a sector cannot be read, and that a sector of the  *)
(* FAT that was read earlier is looked at again.                           *)
(*                                                                         *)
(* The unit of the medium is a FAT entry, a directory entry or a datum:    *)
(* DirEntry tells what the values that are directory entries say, EndOfDir *)
(* is an entry whose name begins with 0, and the values that are neither   *)
(* are cancelled entries or parts of long names.                           *)
(***************************************************************************)
EXTENDS BlockDevice, SequencesExt

CONSTANTS
    RsvdSecCnt, FATSz32, SecPerClus,    \* of the BIOS parameter block
    BootSignature,  \* last unit of sector 0
    InfoSignature,  \* last unit of sector 1, the FSInfo
    EndOfChain,     \* 0x0ffffff8
    SectorWrap,     \* 2^32: sectors of clusters are computed in 32 bits
    EndOfDir,
    DirEntry,       \* value |-> [name, cluster, size, dir]
    Names,          \* names looked up
    FileOffsets, FileSizes, Counts,     \* arguments of read and getdents
    MaxCalls        \* bound: calls of the file system and of raw writes

ASSUME Fat32Assumption ==
    /\ {RsvdSecCnt, FATSz32, SecPerClus, SectorWrap} \subseteq Nat \ {0}
    /\ {BootSignature, InfoSignature, EndOfChain, EndOfDir} \subseteq Nat
    /\ FileOffsets \cup FileSizes \cup Counts \subseteq Nat /\ MaxCalls \in Nat

Invalid == -1       \* INVALID_SECTOR
RootCluster == 2
ClusterSize == SecPerClus * SectorSize

VARIABLES
    mounted,
    fatcache,       \* [sector_idx, buffer]
    fs,             \* the call in progress, and its locals
    rewritten,      \* addresses written through /dev
    calls

vars == <<op, asked, read_only, medium, before, buffer, offset, size, done,
          temp, pc, rc, mounted, fatcache, fs, rewritten, calls>>

EmptyCache ==
    [sector_idx |-> Invalid, buffer |-> [i \in 0 .. SectorSize - 1 |-> 0]]

Idle ==
    [call |-> "none", at |-> "idle", then |-> "idle", rc |-> "ok", cluster |-> 0,
     first |-> 0, filesize |-> 0, start |-> 0, steps |-> 0, pos |-> 0, left |-> 0,
     sector |-> 0, name |-> None, out |-> <<>>, asked |-> 0]

Init ==
    /\ DeviceInit
    /\ mounted = FALSE
    /\ fatcache = EmptyCache
    /\ fs = Idle
    /\ rewritten = {} /\ calls = 0

TypeOK ==
    /\ DeviceTypeOK
    /\ mounted \in BOOLEAN
    /\ fatcache.sector_idx \in {Invalid} \cup Nat
    /\ fs.call \in {"none", "mount", "read", "lookup", "getdents"}
    /\ fs.at \in {"idle", "bpb", "info", "fat", "chain", "data", "data_wait",
                  "next", "check", "dir", "dir_wait", "dir_next", "return"}
    /\ fs.rc \in {"ok", "io", "nomem", "noent", "inval"}
    /\ rewritten \subseteq Addresses /\ calls \in 0 .. MaxCalls

-----------------------------------------------------------------------------
is_valid_cluster(c) == c < EndOfChain /\ c >= 2

\* Free and reserved entries lie before the first cluster; so do the marks at
\* the end of chains, where the product wraps (clusters of 16 sectors or more).
cluster_idx_to_sector(c) ==
    (RsvdSecCnt + FATSz32 + (c - 2) * SecPerClus) % SectorWrap

fat_sector(c) == RsvdSecCnt + c \div SectorSize

min(a, b) == IF a < b THEN a ELSE b

returned == pc = "end"

goto(at) == fs' = [fs EXCEPT !.at = at]

return(code) == fs' = [fs EXCEPT !.at = "return", !.rc = code]

\* getdents ignores how the walk through the directory ended.
fails(code) == return(IF fs.call = "getdents" THEN "ok" ELSE code)

read_sector(sector) == Call("read", sector * SectorSize, SectorSize)

\* What read_sector returns.  Beyond the end of the device nothing is read,
\* and that counts as success.
outcome == IF rc # "ok" THEN rc ELSE IF done \in {0, SectorSize} THEN "ok" ELSE "io"

sector_read == [i \in 0 .. SectorSize - 1 |-> buffer[i]]

begins == fs.at = "idle" /\ returned /\ calls < MaxCalls /\ calls' = calls + 1

-----------------------------------------------------------------------------
(* fat32_try_create                                                        *)

fat32_try_create ==
    /\ ~mounted /\ begins
    /\ fs' = [Idle EXCEPT !.call = "mount", !.at = "bpb"]
    /\ read_sector(0)
    /\ UNCHANGED <<mounted, fatcache, rewritten>>

\* The sectors 0 and 1 must be there and have their signatures.
signed(signature) ==
    IF rc # "ok" THEN rc
    ELSE IF done = SectorSize /\ buffer[SectorSize - 1] = signature THEN "ok" ELSE "inval"

bpb_read ==
    /\ fs.at = "bpb" /\ returned
    /\ IF signed(BootSignature) = "ok"
         THEN goto("info") /\ read_sector(1)
         ELSE return(signed(BootSignature)) /\ UNCHANGED device
    /\ UNCHANGED <<mounted, fatcache, rewritten, calls>>

info_read ==
    /\ fs.at = "info" /\ returned
    /\ return(signed(InfoSignature))
    /\ mounted' = (signed(InfoSignature) = "ok")
    /\ fatcache' = EmptyCache
    /\ UNCHANGED <<device, rewritten, calls>>

\* No memory for the Filesystem.
info_read_nomem ==
    /\ fs.at = "info" /\ returned
    /\ signed(InfoSignature) = "ok"
    /\ return("nomem")
    /\ UNCHANGED <<device, mounted, fatcache, rewritten, calls>>

-----------------------------------------------------------------------------
(* next_cluster: the FAT is read a sector at a time and the last sector is *)
(* kept.  fs.then is where the caller goes on.                             *)

begin_fill_keeping(sector) == UNCHANGED fatcache

\* While the buffer is filled its contents are nobody's.
begin_fill(sector) == fatcache' = [fatcache EXCEPT !.sector_idx = Invalid]

cached(sector) == fatcache.sector_idx = sector

\* f is what the caller's locals become.
next_cluster(f, then) ==
    LET sector == fat_sector(fs.cluster)
    IN IF cached(sector)
         THEN /\ fs' = [f EXCEPT !.cluster = fatcache.buffer[@ % SectorSize],
                                 !.at = then]
              /\ UNCHANGED <<device, fatcache>>
         ELSE /\ fs' = [f EXCEPT !.at = "fat", !.then = then]
              /\ begin_fill(sector)
              /\ read_sector(sector)

fat_read ==
    /\ fs.at = "fat" /\ returned
    /\ IF outcome = "ok"
         THEN \* beyond the end of the device the buffer stays as it was
              /\ fatcache' = [sector_idx |-> fat_sector(fs.cluster),
                              buffer |-> IF done = 0 THEN fatcache.buffer
                                         ELSE sector_read]
              /\ fs' = [fs EXCEPT !.cluster = fatcache'.buffer[@ % SectorSize],
                                  !.at = fs.then]
         ELSE \* the storage may have trashed the buffer
              /\ fatcache' = [fatcache EXCEPT !.buffer = [i \in 0 .. SectorSize - 1 |-> 0]]
              /\ fails(outcome)
    /\ UNCHANGED <<device, mounted, rewritten, calls>>

-----------------------------------------------------------------------------
(* fat32_file_inode_read                                                   *)

\* The files somebody can have open: those of the directory entries.
Files == {DirEntry[v] : v \in {w \in DOMAIN DirEntry : ~DirEntry[w].dir}}

fat32_file_inode_read(f, off, n) ==
    LET start == min(off, f.size)
    IN /\ mounted /\ begins
       /\ fs' = [Idle EXCEPT !.call = "read", !.at = "chain", !.cluster = f.cluster,
                             !.first = f.cluster, !.filesize = f.size,
                             !.start = start, !.pos = start,
                             !.left = min(n, f.size - start), !.asked = n,
                             !.steps = start \div ClusterSize]
       /\ UNCHANGED <<device, mounted, fatcache, rewritten>>

\* step_cluster_chain: an invalid cluster ends the walk, and is where the
\* caller reads.
chain_ends ==
    fs.steps = 0 \/ (fs.start \div ClusterSize > fs.steps /\ ~is_valid_cluster(fs.cluster))

step_cluster_chain ==
    /\ fs.at = "chain" /\ ~chain_ends
    /\ next_cluster([fs EXCEPT !.steps = @ - 1], "chain")
    /\ UNCHANGED <<mounted, rewritten, calls>>

step_cluster_chain_done ==
    /\ fs.at = "chain" /\ chain_ends
    /\ goto("data")
    /\ UNCHANGED <<device, mounted, fatcache, rewritten, calls>>

offset_in_cluster_lost == 0

offset_in_cluster == fs.pos % ClusterSize

this_read == min(fs.left, ClusterSize - offset_in_cluster)

read_data ==
    /\ fs.at = "data" /\ fs.left > 0
    /\ goto("data_wait")
    /\ Call("read",
            SectorSize * cluster_idx_to_sector(fs.cluster) + offset_in_cluster,
            this_read)
    /\ UNCHANGED <<mounted, fatcache, rewritten, calls>>

data_read ==
    /\ fs.at = "data_wait" /\ returned
    /\ IF rc # "ok" \/ done # this_read THEN return(IF rc # "ok" THEN rc ELSE "io")
       ELSE fs' = [fs EXCEPT !.at = IF fs.left > this_read THEN "next" ELSE "data",
                             !.out = @ \o [k \in 1 .. this_read |-> buffer[k - 1]],
                             !.pos = @ + this_read, !.left = @ - this_read]
    /\ UNCHANGED <<device, mounted, fatcache, rewritten, calls>>

data_next ==
    /\ fs.at = "next"
    /\ next_cluster(fs, "check")
    /\ UNCHANGED <<mounted, rewritten, calls>>

data_check ==
    /\ fs.at = "check"
    /\ IF is_valid_cluster(fs.cluster) THEN goto("data") ELSE return("io")
    /\ UNCHANGED <<device, mounted, fatcache, rewritten, calls>>

data_done ==
    /\ fs.at = "data" /\ fs.left = 0
    /\ return("ok")
    /\ UNCHANGED <<device, mounted, fatcache, rewritten, calls>>

-----------------------------------------------------------------------------
(* foreach_8_3_directory_entry, for lookup and getdents                    *)

Directories ==
    {RootCluster} \cup {DirEntry[v].cluster : v \in {w \in DOMAIN DirEntry : DirEntry[w].dir}}

fat32_dir_inode_lookup(c, name) ==
    /\ mounted /\ begins
    /\ fs' = [Idle EXCEPT !.call = "lookup", !.at = "dir", !.cluster = c,
                          !.first = c, !.name = name]
    /\ UNCHANGED <<device, mounted, fatcache, rewritten>>

fat32_dir_inode_getdents(c, off, count) ==
    /\ mounted /\ begins
    /\ fs' = [Idle EXCEPT !.call = "getdents", !.at = "dir", !.cluster = c,
                          !.first = c, !.start = off, !.pos = off,
                          !.left = count, !.asked = count]
    /\ UNCHANGED <<device, mounted, fatcache, rewritten>>

read_directory ==
    /\ fs.at = "dir"
    /\ IF is_valid_cluster(fs.cluster)
         THEN /\ goto("dir_wait")
              /\ read_sector(cluster_idx_to_sector(fs.cluster) + fs.sector)
         ELSE fails("noent") /\ UNCHANGED device
    /\ UNCHANGED <<mounted, fatcache, rewritten, calls>>

\* The entries of a sector up to the end of the directory, and of those the
\* ones handle_entry_cb sees.
listed(sector) ==
    LET ends == {i \in 0 .. SectorSize - 1 : sector[i] = EndOfDir}
        upto == IF ends = {} THEN SectorSize
                ELSE CHOOSE i \in ends : \A j \in ends : i <= j
    IN SelectSeq([k \in 1 .. upto |-> sector[k - 1]],
                 LAMBDA v : v \in DOMAIN DirEntry)

has_end(sector) == \E i \in 0 .. SectorSize - 1 : sector[i] = EndOfDir

\* The callback of lookup.
lookup_sector(f, entries) ==
    LET found == {k \in DOMAIN entries : DirEntry[entries[k]].name = f.name}
    IN IF found = {} THEN f
       ELSE [f EXCEPT !.at = "return",
                      !.out = <<entries[CHOOSE k \in found : \A j \in found : k <= j]>>]

getdents_sector_unskipped(f, entries) ==
    LET n == min(f.left, Len(entries))
    IN [f EXCEPT !.out = @ \o SubSeq(entries, 1, n), !.left = @ - n, !.pos = 0,
                 !.at = IF f.left < Len(entries) THEN "return" ELSE @]

\* The callback of getdents: skip, then copy, until nothing more is asked
\* for, which it notices at the entry after the last.
getdents_sector(f, entries) ==
    LET skip == IF f.left = 0 THEN 0 ELSE min(f.pos, Len(entries))
        n == min(f.left, Len(entries) - skip)
    IN [f EXCEPT !.out = @ \o SubSeq(entries, skip + 1, skip + n),
                 !.left = @ - n, !.pos = @ - skip,
                 !.at = IF f.left < Len(entries) - skip THEN "return" ELSE @]

\* After the last entry or the last sector of the cluster, the next cluster.
directory_goes_on(f) ==
    IF has_end(sector_read) \/ f.sector = SecPerClus - 1
      THEN [f EXCEPT !.at = "dir_next", !.sector = 0]
      ELSE [f EXCEPT !.at = "dir", !.sector = @ + 1]

directory_read ==
    LET f == IF fs.call = "lookup" THEN lookup_sector(fs, listed(sector_read))
             ELSE getdents_sector(fs, listed(sector_read))
    IN /\ fs.at = "dir_wait" /\ returned
       /\ IF outcome # "ok" THEN fails(outcome)
          ELSE fs' = IF f.at = "return" THEN f ELSE directory_goes_on(f)
       /\ UNCHANGED <<device, mounted, fatcache, rewritten, calls>>

directory_next ==
    /\ fs.at = "dir_next"
    /\ next_cluster(fs, "dir")
    /\ UNCHANGED <<mounted, rewritten, calls>>

-----------------------------------------------------------------------------
\* The caller has its answer.
answered ==
    /\ fs.at = "return"
    /\ fs' = Idle
    /\ UNCHANGED <<device, mounted, fatcache, rewritten, calls>>

\* A program reads or writes the device file.
raw(o, off, n) ==
    /\ begins
    /\ Call(o, off, n)
    /\ rewritten' = IF o = "write" /\ ~read_only
                      THEN rewritten \cup ((off .. off + n - 1) \cap Addresses)
                      ELSE rewritten
    /\ UNCHANGED <<mounted, fatcache, fs>>

device_works == Step /\ UNCHANGED <<mounted, fatcache, fs, rewritten, calls>>

Next ==
    \/ fat32_try_create \/ bpb_read \/ info_read \/ info_read_nomem
    \/ fat_read
    \/ \E f \in Files, off \in FileOffsets, n \in FileSizes :
         fat32_file_inode_read(f, off, n)
    \/ step_cluster_chain \/ step_cluster_chain_done
    \/ read_data \/ data_read \/ data_next \/ data_check \/ data_done
    \/ \E c \in Directories, name \in Names : fat32_dir_inode_lookup(c, name)
    \/ \E c \in Directories, off \in FileOffsets, count \in Counts :
         fat32_dir_inode_getdents(c, off, count)
    \/ read_directory \/ directory_read \/ directory_next
    \/ answered
    \/ \E o \in {"read", "write"}, off \in Offsets, n \in Sizes : raw(o, off, n)
    \/ device_works

Spec == Init /\ [][Next]_vars

-----------------------------------------------------------------------------
(* Properties                                                              *)

FatAddresses ==
    SectorSize * RsvdSecCnt .. SectorSize * (RsvdSecCnt + FATSz32) - 1

\* A cluster that the FAT has an entry for.
InFat(c) == is_valid_cluster(c) /\ c < SectorSize * FATSz32

\* The n-th cluster of the chain that begins with c, or where it ends before.
ChainCluster(c, n) ==
    LET walk[k \in Nat] ==
          IF k = 0 THEN c
          ELSE IF InFat(walk[k - 1])
                 THEN medium[SectorSize * RsvdSecCnt + walk[k - 1]]
               ELSE walk[k - 1]
    IN walk[n]

\* The chain has a cluster for unit k.
Reaches(c, k) == InFat(ChainCluster(c, k \div ClusterSize))

\* The k-th unit of the chain that begins with c.
Unit(c, k) ==
    medium[SectorSize * cluster_idx_to_sector(ChainCluster(c, k \div ClusterSize))
           + (k % ClusterSize)]

\* Whatever the file system and the users of the raw device read and write,
\* each of their transfers is exact.
TransfersSound == TypeOK /\ TransfersExact

\* A cached sector of the FAT is what is on the medium, whichever reads have
\* failed in between, as long as nobody writes to the FAT through /dev.
CacheHonest ==
    fatcache.sector_idx \in 0 .. SectorCount - 1 =>
       \A i \in 0 .. SectorSize - 1 :
         LET a == fatcache.sector_idx * SectorSize + i
         IN a \notin rewritten => fatcache.buffer[i] = medium[a]

\* A read of a file that succeeds returns all units of the range that the
\* file has, each from its place in the file's chain of clusters, if the chain
\* reaches the place where the read begins: within the range the end of the
\* chain, a free or a reserved entry is an error.  Only the seek to the first
\* unit follows such an entry, and then the answer is whatever lies there.
\* A read fails only for a device that fails or a chain too short for it.
ReadsFile ==
    fs.call = "read" /\ fs.at = "return" /\ FatAddresses \cap rewritten = {} =>
       IF fs.rc = "ok"
         THEN /\ Len(fs.out) = min(fs.asked, fs.filesize - fs.start)
              /\ Reaches(fs.first, fs.start) =>
                   \A k \in DOMAIN fs.out :
                     /\ Reaches(fs.first, fs.start + k - 1)
                     /\ fs.out[k] = Unit(fs.first, fs.start + k - 1)
         ELSE rc # "ok" \/ ~Reaches(fs.first, fs.pos + fs.left - 1)

\* The entries of the directory that begins with cluster c, those of each of
\* its clusters up to the mark that ends the directory.
DirClusters(c) ==
    CHOOSE k \in 0 .. SectorCount : ~InFat(ChainCluster(c, k))
      /\ \A j \in 0 .. k - 1 : InFat(ChainCluster(c, j))

ClusterEntries(c, n) ==
    LET units == [k \in 1 .. ClusterSize |-> Unit(c, n * ClusterSize + k - 1)]
        marks == {k \in DOMAIN units : units[k] = EndOfDir}
        upto == IF marks = {} THEN ClusterSize
                ELSE (CHOOSE k \in marks : \A j \in marks : k <= j) - 1
    IN SelectSeq(SubSeq(units, 1, upto), LAMBDA v : v \in DOMAIN DirEntry)

Listing(c) ==
    FlattenSeq([n \in 1 .. DirClusters(c) |-> ClusterEntries(c, n - 1)])

\* Listing a directory in pieces gives its entries in order, each once, and
\* none from behind the mark that ends a cluster's entries; looking a name up
\* finds the entry the listing has for it.  When a sector cannot be read the
\* piece is only shorter.
DirectoryAnswers ==
    fs.at = "return" /\ rewritten = {} =>
       /\ fs.call = "getdents" =>
            LET wanted == SubSeq(Listing(fs.first), fs.start + 1,
                                 min(fs.start + fs.asked, Len(Listing(fs.first))))
            IN IsPrefix(fs.out, wanted) /\ (rc = "ok" => fs.out = wanted)
       /\ fs.call = "lookup" =>
            LET named == SelectSeq(Listing(fs.first),
                                   LAMBDA v : DirEntry[v].name = fs.name)
            IN /\ fs.rc = "ok" => named # <<>> /\ fs.out = <<Head(named)>>
               /\ fs.rc = "noent" => named = <<>>
=============================================================================
