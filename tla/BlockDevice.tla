---------------------------- MODULE BlockDevice ----------------------------
(***************************************************************************)
(* SimpleBlockDevice::read and ::write (kernel/drivers/device.cpp): byte   *)
(* ranges on top of read_sector and write_sector, either of which may fail *)
(* at any sector.  Call starts a call, Step is a step of it, and pc "end"  *)
(* says that it has returned.                                              *)
(*                                                                         *)
(* The k-th byte a caller writes is New(k), which is nowhere on the medium *)
(* before: so a byte out of place can be told.                             *)
(***************************************************************************)
EXTENDS Integers, FiniteSets

CONSTANTS
    SectorSize,
    SectorCount,
    Offsets,        \* offsets and sizes callers pass
    Sizes,
    Media,          \* what may be on the medium
    None

ASSUME BlockDeviceAssumption ==
    /\ SectorSize \in Nat \ {0} /\ SectorCount \in Nat
    /\ Offsets \subseteq Int /\ Sizes \subseteq Nat

VARIABLES
    op,             \* "read" or "write"
    asked,          \* the arguments: [offset, size]
    read_only,
    medium,
    before,         \* the medium when the call began
    buffer,         \* the caller's buffer, for a read
    offset, size,   \* as in the code: what is left to do
    done,           \* read or written in the code
    temp,           \* whether temp_buffer has been allocated
    pc, rc

device == <<op, asked, read_only, medium, before, buffer, offset, size, done,
            temp, pc, rc>>

Total == SectorSize * SectorCount
Addresses == 0 .. Total - 1
New(k) == 1000 + k

DeviceTypeOK ==
    /\ op \in {"read", "write"} /\ read_only \in BOOLEAN
    /\ asked \in [offset : Int, size : Nat]
    /\ medium \in [Addresses -> Nat] /\ before \in [Addresses -> Nat]
    /\ DOMAIN buffer = Addresses
    /\ \A k \in Addresses : buffer[k] \in Nat \cup {None}
    /\ offset \in Int /\ size \in Nat /\ done \in 0 .. Total
    /\ temp \in BOOLEAN
    /\ pc \in {"start", "head", "sectors", "tail", "end", "kassert"}
    /\ rc \in {"ok", "rofs", "nomem", "io"}

DeviceInit ==
    /\ op = "read" /\ read_only \in BOOLEAN
    /\ asked = [offset |-> 0, size |-> 0]
    /\ medium \in Media /\ before = medium
    /\ buffer = [k \in Addresses |-> None]
    /\ offset = 0 /\ size = 0
    /\ done = 0 /\ temp = FALSE
    /\ pc = "end" /\ rc = "ok"

Call(o, off, n) ==
    /\ pc = "end"
    /\ op' = o /\ asked' = [offset |-> off, size |-> n]
    /\ before' = medium
    /\ buffer' = [k \in Addresses |-> None]
    /\ offset' = off /\ size' = n
    /\ done' = 0 /\ temp' = FALSE
    /\ pc' = "start" /\ rc' = "ok"
    /\ UNCHANGED <<read_only, medium>>

-----------------------------------------------------------------------------
clamp(low, x, high) ==
    LET top == IF x < high THEN x ELSE high
    IN IF top > low THEN top ELSE low

Return(code) ==
    /\ rc' = code /\ pc' = "end"
    /\ UNCHANGED <<op, asked, read_only, medium, before, buffer, offset, size, done,
                   temp>>

\* A write to a read-only device is refused, otherwise the range is clipped.
begin ==
    /\ pc = "start"
    /\ IF op = "write" /\ read_only THEN Return("rofs")
       ELSE /\ offset' = clamp(0, offset, Total)
            /\ size' = clamp(0, size, Total - offset')
            /\ pc' = "head"
            /\ UNCHANGED <<op, asked, read_only, medium, before, buffer, done, temp,
                           rc>>

copy_whole_sector(n) ==
    IF op = "read"
      THEN /\ buffer' = [k \in Addresses |->
                           IF k \in done .. done + n - 1
                             THEN medium[offset + (k - done)] ELSE buffer[k]]
           /\ UNCHANGED medium
      ELSE /\ medium' = [a \in Addresses |->
                           IF a >= offset /\ a < offset + SectorSize
                             THEN New(done + (a - offset)) ELSE medium[a]]
           /\ UNCHANGED buffer

\* Move n bytes between the caller's buffer and one sector.  A write of part
\* of a sector reads it first, so that the rest of it keeps its bytes.
copy(n) ==
    IF op = "read"
      THEN /\ buffer' = [k \in Addresses |->
                           IF k \in done .. done + n - 1
                             THEN medium[offset + (k - done)] ELSE buffer[k]]
           /\ UNCHANGED medium
      ELSE /\ medium' = [a \in Addresses |->
                           IF a \in offset .. offset + n - 1
                             THEN New(done + (a - offset)) ELSE medium[a]]
           /\ UNCHANGED buffer

Advance(n) ==
    /\ copy(n)
    /\ done' = done + n /\ offset' = offset + n /\ size' = size - n
    /\ UNCHANGED <<op, asked, read_only, before, rc>>

head_length ==
    LET rest == SectorSize - (offset % SectorSize)
    IN IF size < rest THEN size ELSE rest

\* The part of the first sector; the assertion after it wants the sector to
\* have been used up to its end.
head ==
    /\ pc = "head" /\ offset % SectorSize # 0
    /\ Advance(head_length)
    /\ temp' = TRUE
    /\ pc' = IF offset' % SectorSize = 0 THEN "sectors" ELSE "kassert"

head_aligned ==
    /\ pc = "head" /\ offset % SectorSize = 0
    /\ pc' = "sectors"
    /\ UNCHANGED <<op, asked, read_only, medium, before, buffer, offset, size, done,
                   temp, rc>>

whole_sector ==
    /\ pc = "sectors" /\ size >= SectorSize
    /\ Advance(SectorSize)
    /\ UNCHANGED <<temp, pc>>

sectors_done ==
    /\ pc = "sectors" /\ size < SectorSize
    /\ pc' = "tail"
    /\ UNCHANGED <<op, asked, read_only, medium, before, buffer, offset, size, done,
                   temp, rc>>

tail ==
    /\ pc = "tail" /\ size > 0
    /\ Advance(size)
    /\ temp' = TRUE /\ pc' = "tail"

transferred_all ==
    /\ pc = "tail" /\ size = 0
    /\ Return("ok")

\* read_sector or write_sector fails; what was done before stays done.
sector_fails ==
    /\ \/ pc = "head" /\ offset % SectorSize # 0
       \/ pc = "sectors" /\ size >= SectorSize
       \/ pc = "tail" /\ size > 0
    /\ Return("io")

malloc_fails ==
    /\ \/ pc = "head" /\ offset % SectorSize # 0
       \/ pc = "tail" /\ size > 0 /\ ~temp
    /\ Return("nomem")

Step ==
    \/ begin
    \/ head \/ head_aligned
    \/ whole_sector \/ sectors_done
    \/ tail \/ transferred_all
    \/ sector_fails \/ malloc_fails

-----------------------------------------------------------------------------
(* Properties                                                              *)

First == clamp(0, asked.offset, Total)

\* Whatever fails and wherever, exactly the first bytes of the range have been
\* transferred, each to its place, and no other byte of the medium or of the
\* caller's buffer has changed.
Transferred ==
    /\ \A a \in Addresses :
         medium[a] = IF op = "write" /\ a \in First .. First + done - 1
                       THEN New(a - First) ELSE before[a]
    /\ \A k \in Addresses :
         buffer[k] = IF op = "read" /\ k < done THEN before[First + k] ELSE None

\* A call that succeeds has transferred all bytes of the range that exist.
Complete ==
    pc = "end" /\ rc = "ok" =>
      done = Cardinality({a \in Addresses :
                            a \in First .. First + asked.size - 1})

\* The assertion in the middle of the call fails for the ranges that begin
\* and end inside one sector, away from its ends, and for no others.
AssertsInsideSectorOnly ==
    pc = "kassert" =>
       LET last == First + clamp(0, asked.size, Total - First)
       IN /\ First % SectorSize # 0
          /\ last \div SectorSize = First \div SectorSize

\* SimpleBlockDevice::read and ::write transfer exactly the bytes they report.
TransfersExact == Transferred /\ Complete /\ AssertsInsideSectorOnly
=============================================================================
