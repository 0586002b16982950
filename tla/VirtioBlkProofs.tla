-------------------------- MODULE VirtioBlkProofs --------------------------
(***************************************************************************)
(* The virtio block driver, for every size of its queue and any number of  *)
(* sectors, frames, timeouts and late answers: descriptors are conserved,  *)
(* no completion is lost, a read returns the sector that was asked for     *)
(* unless it began while an answer to an abandoned one was due or unseen,  *)
(* and the driver stops only after it has abandoned a read.                *)
(***************************************************************************)
EXTENDS VirtioBlk, VirtqueueProofs

-----------------------------------------------------------------------------
(* Natural numbers                                                         *)

\* Counting modulo m.
LEMMA ModSucc ==
    ASSUME NEW u \in Nat, NEW m \in Nat \ {0}
    PROVE  (u + 1) % m = IF (u % m) + 1 < m THEN (u % m) + 1 ELSE 0
<1> DEFINE q == u \div m
           r == u % m
<1>1. q \in Nat /\ r \in 0 .. m - 1 /\ u = m * q + r
  BY DivMod
<1> HIDE DEF q, r
<1>2. CASE r + 1 < m
  <2>1. u + 1 = m * q + (r + 1)
    BY <1>1
  <2>2. (m * q + (r + 1)) % m = r + 1
    BY <1>1, <1>2, ModUnique
  <2> QED
    BY <1>2, <2>1, <2>2 DEF r
<1>3. CASE r + 1 = m
  <2>1. m * (q + 1) = m * q + m
    BY <1>1
  <2>2. u + 1 = m * (q + 1) + 0
    BY <1>1, <1>3, <2>1
  <2>3. (m * (q + 1) + 0) % m = 0
    BY <1>1, ModUnique
  <2> QED
    BY <1>1, <1>3, <2>2, <2>3 DEF r
<1> QED
  BY <1>1, <1>2, <1>3

-----------------------------------------------------------------------------
(* The descriptors of a request                                            *)

\* read_sector finds three descriptors when none is in use, and chaining them
\* does not disturb the others.
LEMMA TakeThree ==
    ASSUME NEW q \in Queues, Partition(q, {})
    PROVE  LET q1 == virtio_virtq_alloc_desc(q)
               q2 == virtio_virtq_alloc_desc(q1)
               q3 == virtio_virtq_alloc_desc(q2)
               h == allocated(q)
               b == allocated(q1)
               d == allocated(q2)
               r == chained(chained(chained(q3, h, b), b, d), d, 0)
           IN /\ {h, b, d} \subseteq Descs /\ h # b /\ h # d /\ b # d
              /\ r \in Queues /\ Partition(r, {h, b, d})
<1> DEFINE q1 == virtio_virtq_alloc_desc(q)
           q2 == virtio_virtq_alloc_desc(q1)
           q3 == virtio_virtq_alloc_desc(q2)
           h == allocated(q)
           b == allocated(q1)
           d == allocated(q2)
           r1 == chained(q3, h, b)
           r2 == chained(r1, b, d)
           r == chained(r2, d, 0)
           left == Descs \ {h, b, d}
<1>1. PICK n : Free(q, n, Descs)
  BY DEF Partition
<1>2. n \in Nat /\ n >= 3 /\ 0 \in 0 .. Size /\ Descs \subseteq 0 .. Size
  <2>1. PICK s : FreeChain(q, n, s) /\ Elements(n, s) = Descs
    BY <1>1 DEF Free
  <2>2. n = Size
    BY <2>1, ChainLength
  <2> QED
    BY <2>2, VirtqueueAssumption, VirtioBlkAssumption DEF Descs
<1>3. h \in Descs /\ q1 \in Queues /\ Free(q1, n - 1, Descs \ {h})
  <2>1. n > 0
    BY <1>2
  <2> HIDE DEF r, left
  <2> QED
    BY <1>1, <2>1, TakeOne
<1> HIDE DEF q1, h
<1>4. b \in Descs \ {h} /\ q2 \in Queues /\ Free(q2, n - 2, Descs \ {h, b})
  <2>1. n - 1 > 0 /\ (n - 1) - 1 = n - 2
    BY <1>2
  <2>2. (Descs \ {h}) \ {b} = Descs \ {h, b}
    OBVIOUS
  <2>3. b \in Descs \ {h} /\ q2 \in Queues /\ Free(q2, (n - 1) - 1, (Descs \ {h}) \ {b})
    BY <1>3, <2>1, TakeOne
  <2> QED
    BY <2>1, <2>2, <2>3
<1> HIDE DEF q2, b
<1>5. d \in Descs \ {h, b} /\ q3 \in Queues /\ Free(q3, n - 3, left)
  <2>1. n - 2 > 0 /\ (n - 2) - 1 = n - 3
    BY <1>2
  <2>2. (Descs \ {h, b}) \ {d} = left
    OBVIOUS
  <2>3. d \in Descs \ {h, b} /\ q3 \in Queues
        /\ Free(q3, (n - 2) - 1, (Descs \ {h, b}) \ {d})
    BY <1>4, <2>1, TakeOne
  <2> QED
    BY <2>1, <2>2, <2>3
<1> HIDE DEF q3, d
<1>6. h \notin left /\ b \notin left /\ d \notin left
  OBVIOUS
<1>7. r1 \in Queues /\ Free(r1, n - 3, left)
  BY <1>2, <1>3, <1>4, <1>5, <1>6, ChainOne
<1> HIDE DEF r1
<1>8. r2 \in Queues /\ Free(r2, n - 3, left)
  BY <1>2, <1>4, <1>5, <1>6, <1>7, ChainOne
<1> HIDE DEF r2
<1>9. r \in Queues /\ Free(r, n - 3, left)
  BY <1>2, <1>5, <1>6, <1>8, ChainOne
<1> HIDE DEF r
<1>10. left \cap {h, b, d} = {} /\ left \cup {h, b, d} = Descs
  BY <1>3, <1>4, <1>5
<1> HIDE DEF left
<1>11. Partition(r, {h, b, d})
  BY <1>9, <1>10 DEF Partition
<1> QED
  BY <1>3, <1>4, <1>5, <1>9, <1>11 DEF q1, q2, q3, h, b, d, r1, r2, r

\* cleanup_block_request puts the three descriptors back.
LEMMA GiveThree ==
    ASSUME NEW q \in Queues, NEW h \in Descs, NEW b \in Descs, NEW d \in Descs,
           h # b, h # d, b # d, Partition(q, {h, b, d})
    PROVE  LET r == virtio_virtq_free_desc(
                      virtio_virtq_free_desc(virtio_virtq_free_desc(q, h), b), d)
           IN r \in Queues /\ Partition(r, {})
<1> DEFINE q1 == virtio_virtq_free_desc(q, h)
           q2 == virtio_virtq_free_desc(q1, b)
           q3 == virtio_virtq_free_desc(q2, d)
<1>1. PICK n, F : Free(q, n, F) /\ F = Descs \ {h, b, d}
  BY DEF Partition
<1>2. q1 \in Queues /\ Free(q1, n + 1, F \cup {h})
  BY <1>1, GiveOne
<1> HIDE DEF q1
<1>3. q2 \in Queues /\ Free(q2, (n + 1) + 1, (F \cup {h}) \cup {b})
  <2>1. b \notin F \cup {h}
    BY <1>1
  <2> QED
    BY <1>2, <2>1, GiveOne
<1> HIDE DEF q2
<1>4. q3 \in Queues /\ Free(q3, ((n + 1) + 1) + 1, ((F \cup {h}) \cup {b}) \cup {d})
  <2>1. d \notin (F \cup {h}) \cup {b}
    BY <1>1
  <2> QED
    BY <1>3, <2>1, GiveOne
<1> HIDE DEF q3
<1>5. ((F \cup {h}) \cup {b}) \cup {d} = Descs
  BY <1>1
<1>6. Descs \cap {} = {} /\ Descs \cup {} = Descs
  OBVIOUS
<1>7. Partition(q3, {})
  BY <1>4, <1>5, <1>6, Zenon DEF Partition
<1> QED
  BY <1>4, <1>7 DEF q1, q2, q3

-----------------------------------------------------------------------------
(* The used ring                                                           *)

\* The slot of the next used buffer moves on by one.
LEMMA NextSlot ==
    ASSUME NEW u \in 0 .. Wrap - 1
    PROVE  ((u + 1) % Wrap) % Size = ((u % Size) + 1) % Size
<1> DEFINE r == u % Size
<1>1. Size \in Nat \ {0} /\ r \in 0 .. Size - 1
      /\ ((u + 1) % Wrap) % Size = IF r + 1 < Size THEN r + 1 ELSE 0
  BY VirtqueueAssumption, SlotSucc
<1> HIDE DEF r
<1> DEFINE x == r + 1
<1>2. x \in 0 .. 2 * Size - 1
  BY <1>1
<1> HIDE DEF x
<1>3. x % Size = IF x < Size THEN x ELSE x - Size
  BY <1>1, <1>2, ModSmall
<1>4. (r + 1) % Size = IF r + 1 < Size THEN r + 1 ELSE 0
  BY <1>1, <1>3 DEF x
<1> QED
  BY <1>1, <1>4 DEF r
\* ... so that it is not the same one.
LEMMA NextDiffers ==
    ASSUME NEW k \in Descs
    PROVE  (k + 1) % Size \in Descs /\ (k + 1) % Size # k
<1> DEFINE x == k + 1
<1>1. Size \in Nat \ {0} /\ Size >= 3 /\ k \in 0 .. Size - 1
  BY VirtqueueAssumption, VirtioBlkAssumption DEF Descs
<1>2. x \in 0 .. 2 * Size - 1 /\ x = k + 1
  BY <1>1
<1> HIDE DEF x
<1>3. x % Size = IF x < Size THEN x ELSE x - Size
  BY <1>1, <1>2, ModSmall
<1>4. x % Size \in 0 .. Size - 1 /\ x % Size # k
  BY <1>1, <1>2, <1>3
<1> QED
  BY <1>4 DEF Descs, x

-----------------------------------------------------------------------------
(* The list of requests                                                    *)

\* Whatever pointers the list consists of, adding to it and unlinking from it
\* leave pointers.
LEMMA ListLinks ==
    ASSUME NEW l \in Links, NEW f \in Frames
    PROVE  add(l, f) \in Links /\ remove(l, f) \in Links
<1> DEFINE p == l.prev[f]
           n == l.next[f]
<1>1. /\ l.first \in Pointers /\ l.prev \in [Frames -> Pointers]
      /\ l.next \in [Frames -> Pointers]
      /\ p \in Pointers /\ n \in Pointers /\ f \in Pointers /\ None \in Pointers
  BY DEF Links, Pointers
<1>2. add(l, f) \in Links
  <2>1. [l.next EXCEPT ![f] = l.first] \in [Frames -> Pointers]
    BY <1>1
  <2>2. [g \in Frames |-> IF g = l.first THEN f ELSE IF g = f THEN None ELSE l.prev[g]]
          \in [Frames -> Pointers]
    BY <1>1
  <2> QED
    BY <1>1, <2>1, <2>2 DEF add, Links
<1>3. remove(l, f) \in Links
  <2> HIDE DEF p, n
  <2>1. (IF p = None THEN n ELSE l.first) \in Pointers
    BY <1>1
  <2>2. [g \in Frames |-> IF g = p THEN n ELSE l.next[g]] \in [Frames -> Pointers]
    BY <1>1
  <2>3. [g \in Frames |-> IF g = n THEN p ELSE l.prev[g]] \in [Frames -> Pointers]
    BY <1>1
  <2> QED
    BY <2>1, <2>2, <2>3 DEF remove, Links, p, n
<1> QED
  BY <1>2, <1>3

\* find_first finds a request or nothing, and the first request if that is it.
LEMMA FindFirst ==
    ASSUME NEW l, NEW d
    PROVE  /\ find_first(l, d) \in Pointers
           /\ with_head(l.first, d) => find_first(l, d) = l.first
<1> DEFINE p == path(l)
           found == {k \in Steps : with_head(p[k], d)}
<1>1. find_first(l, d) = IF with_head(l.first, d) THEN l.first
                         ELSE IF found = {} THEN None
                         ELSE p[CHOOSE k \in found : \A j \in found : k <= j]
  BY DEF find_first
<1>2. found \in SUBSET Nat
  <2>1. Cardinality(Frames) \in Nat
    BY VirtioBlkAssumption, FS_CardinalityType
  <2> QED
    BY <2>1 DEF Steps
<1>3. \A k \in found : p[k] \in Frames
  BY DEF with_head
<1> HIDE DEF p, found
<1>4. CASE found # {}
  <2>1. \E k \in found : \A j \in found : k <= j
    BY <1>2, <1>4, LeastNatural
  <2>2. (CHOOSE k \in found : \A j \in found : k <= j) \in found
    BY <2>1
  <2>3. p[CHOOSE k \in found : \A j \in found : k <= j] \in Frames
    BY <1>3, <2>2
  <2> QED
    BY <1>1, <1>4, <2>3 DEF Pointers, with_head
<1>5. CASE found = {}
  BY <1>1, <1>5 DEF Pointers, with_head
<1> QED
  BY <1>4, <1>5

-----------------------------------------------------------------------------
(* The inductive invariant.  While a read is under way that no earlier one *)
(* disturbs, its request, the device and the used ring are in one of four  *)
(* phases.  Until a read has been abandoned there are no other reads.      *)

\* The device has the request.
Outstanding ==
    /\ req.taken /\ m_requests.first = frame /\ heads[frame] = req.head
    /\ \E t \in Tickets :
         inflight = {[head |-> req.head, sector |-> sector_idx, frame |-> frame, ticket |-> t]}
    /\ used_slot = last_seen_used_idx
    /\ ~irq_status /\ ~in_irq

\* s_read_tempbuffer holds the sector, if the device has not failed.
HasData == req.status = "ok" => tempbuffer = sector_idx

\* The device has answered, and the handler has not come to it.
Answered ==
    /\ req.taken /\ m_requests.first = frame /\ heads[frame] = req.head
    /\ inflight = {} /\ HasData
    /\ used_slot = (last_seen_used_idx + 1) % Size
    /\ used_ring[last_seen_used_idx] = req.head
    /\ irq_status
    /\ in_irq => scan.idx = last_seen_used_idx /\ scan.used = used_slot

\* The handler has released the request's lock.
Seen ==
    /\ ~req.taken /\ inflight = {} /\ HasData
    /\ irq_status /\ in_irq /\ scan.idx = used_slot /\ scan.used = used_slot

\* The handler has returned.
Released == ~req.taken /\ HasData /\ Quiet

Phases == Outstanding \/ Answered \/ Seen \/ Released

Clean == ~wild /\ abandoned = 0

\* The list of requests is empty, or holds the one of the read under way.
Tidy ==
    /\ pc = "idle" => Quiet /\ m_requests.first = None
    /\ pc # "idle" =>
         /\ ~stray
         /\ m_requests.prev[frame] = None /\ m_requests.next[frame] = None
         /\ ~req.taken => m_requests.first = None

Distinct ==
    pc # "idle" => /\ req.head # req.body /\ req.head # req.status_desc
                   /\ req.body # req.status_desc

IInv ==
    /\ TypeOK /\ Distinct /\ Partition(queue, Owned)
    /\ OnlyTimeoutsHalt /\ ReadsRightSector
    /\ halted = "no" /\ pc # "idle" /\ ~stray => Phases
    /\ halted = "no" /\ Clean => Tidy

\* At the start every descriptor is free and nothing is outstanding.
LEMMA InitInvariant == Init => IInv
<1> SUFFICES ASSUME Init PROVE IInv
  OBVIOUS
<1> USE DEF Init
<1>1. /\ VirtqueueTypeOK /\ queue \in Queues /\ Partition(queue, {}) /\ used_slot = 0
      /\ 0 \in Descs
  BY AllFree, VirtqueueAssumption DEF Descs
<1>2. TypeOK
  <2>1. req \in Request
    BY <1>1 DEF Request, NoRequest
  <2>2. frame \in Frames /\ sector_idx \in Sectors
    BY VirtioBlkAssumption
  <2>3. result \in Results
    BY DEF Results, NoResult
  <2>4. m_requests \in Links
    BY DEF Links, Pointers
  <2>5. heads \in [Frames -> Descs] /\ scan \in [idx : Descs, used : Descs]
    BY <1>1
  <2>6. inflight \subseteq Taken /\ abandoned \in Nat
    OBVIOUS
  <2> QED
    BY <1>1, <2>1, <2>2, <2>3, <2>4, <2>5, <2>6 DEF TypeOK
<1>3. Partition(queue, Owned)
  <2>1. Owned = {}
    BY DEF Owned
  <2> QED
    BY <1>1, <2>1
<1>4. Tidy
  <2>1. last_seen_used_idx = 0 /\ irq_status = FALSE /\ in_irq = FALSE
    BY DEF virtq_alloc
  <2> QED
    BY <1>1, <2>1 DEF Tidy, Quiet
<1> QED
  BY <1>2, <1>3, <1>4 DEF IInv, Distinct, OnlyTimeoutsHalt, ReadsRightSector, NoResult

-----------------------------------------------------------------------------
(* The steps                                                               *)

\* The kernel stops only where a read has been abandoned, or the list was not
\* empty at first.
LEMMA HaltStep ==
    ASSUME IInv, ~Clean, NEW why \in {"panic", "hang", "undefined"}, Halt(why)
    PROVE  IInv'
<1>1. halted' = why /\ why # "no"
  BY DEF Halt
<1>2. UNCHANGED <<queue, inflight, used_idx, used_ring, irq_status, tempbuffer,
                  last_seen_used_idx, in_irq, scan, wild, m_requests, heads, req,
                  frame, sector_idx, stray, abandoned, pc, result>>
  BY DEF Halt, device, handler, list, reading, used
<1>3. TypeOK'
  BY <1>1, <1>2 DEF IInv, TypeOK, VirtqueueTypeOK
<1>4. Distinct' /\ Partition(queue, Owned)' /\ ReadsRightSector'
  <2>1. Distinct' /\ ReadsRightSector'
    BY <1>2 DEF IInv, Distinct, ReadsRightSector
  <2>2. queue' = queue /\ Owned' = Owned
    BY <1>2 DEF Owned
  <2> QED
    BY <2>1, <2>2 DEF IInv
<1>5. OnlyTimeoutsHalt'
  BY <1>2 DEF IInv, TypeOK, Clean, OnlyTimeoutsHalt
<1> QED
  BY <1>1, <1>3, <1>4, <1>5 DEF IInv

\* read_sector up to the wait.
LEMMA ReadStep ==
    ASSUME IInv, NEW sector \in Sectors, NEW f \in Frames, read_sector(sector, f)
    PROVE  IInv'
<1> DEFINE q1 == virtio_virtq_alloc_desc(queue)
           q2 == virtio_virtq_alloc_desc(q1)
           q3 == virtio_virtq_alloc_desc(q2)
           h == allocated(queue)
           b == allocated(q1)
           d == allocated(q2)
           r == chained(chained(chained(q3, h, b), b, d), d, 0)
           enough == {h, b, d} \subseteq Descs
           t == CHOOSE t \in free_tickets : TRUE
           new == [head |-> h, sector |-> sector, frame |-> f, ticket |-> t]
<1>1. halted = "no" /\ pc = "idle" /\ ~in_irq /\ free_tickets # {}
  BY DEF read_sector, Driver
<1>2. \/ /\ enqueue_block_request(q3, h, b, d, sector, f)
         /\ frame' = f /\ sector_idx' = sector /\ stray' = ~Quiet
         /\ pc' = "wait" /\ result' = NoResult
         /\ UNCHANGED <<used, irq_status, tempbuffer, handler, wild, abandoned, halted>>
      \/ /\ wild \/ ~enough \/ m_requests.first \notin {None, f}
         /\ Halt("undefined")
  BY DEF read_sector
<1>3. queue \in Queues /\ Partition(queue, {})
  BY <1>1 DEF IInv, TypeOK, VirtqueueTypeOK, Queues, Owned
<1>4. /\ {h, b, d} \subseteq Descs /\ h # b /\ h # d /\ b # d
      /\ r \in Queues /\ Partition(r, {h, b, d})
  BY <1>3, TakeThree
<1>5. t \in Tickets
  BY <1>1 DEF free_tickets
<1> HIDE DEF q1, q2, q3, h, b, d, t
<1>6. CASE /\ wild \/ ~enough \/ m_requests.first \notin {None, f}
           /\ Halt("undefined")
  <2>1. ~Clean
    BY <1>1, <1>4, <1>6 DEF IInv, Clean, Tidy
  <2> QED
    BY <1>6, <2>1, HaltStep
<1>7. CASE /\ enqueue_block_request(q3, h, b, d, sector, f)
           /\ frame' = f /\ sector_idx' = sector /\ stray' = ~Quiet
           /\ pc' = "wait" /\ result' = NoResult
           /\ UNCHANGED <<used, irq_status, tempbuffer, handler, wild, abandoned, halted>>
  <2>1. /\ queue' = r
        /\ inflight' = inflight \cup {new}
        /\ m_requests' = add(m_requests, f)
        /\ heads' = [heads EXCEPT ![f] = h]
        /\ req' = [head |-> h, body |-> b, status_desc |-> d, taken |-> TRUE,
                   status |-> "ok"]
    BY <1>7 DEF enqueue_block_request, virtio_virtq_enqueue_desc, t
  <2>2. /\ frame' = f /\ sector_idx' = sector /\ stray' = ~Quiet
        /\ pc' = "wait" /\ result' = NoResult
        /\ UNCHANGED <<used_idx, used_ring, irq_status, tempbuffer,
                       last_seen_used_idx, in_irq, scan, wild, abandoned, halted>>
    BY <1>7 DEF handler, used
  <2> HIDE DEF r, enough, new
  <2>3. /\ req' \in Request /\ req'.head = h /\ req'.body = b /\ req'.status_desc = d
        /\ req'.taken = TRUE
    BY <1>4, <2>1 DEF Request
  <2>4. new \in Taken
    BY <1>4, <1>5 DEF Taken, new
  <2>5. m_requests' \in Links /\ m_requests'.first = f
    BY <2>1, ListLinks DEF add, IInv, TypeOK
  <2>6. heads' \in [Frames -> Descs] /\ heads'[f] = h
    BY <1>4, <2>1 DEF IInv, TypeOK
  <2>7. TypeOK'
    <3>1. VirtqueueTypeOK'
      BY <1>4, <2>1, <2>2 DEF IInv, TypeOK, VirtqueueTypeOK, Queues
    <3>2. inflight' \subseteq Taken
      BY <2>1, <2>4 DEF IInv, TypeOK
    <3>3. result' \in Results
      BY <2>2 DEF Results, NoResult
    <3> QED
      BY <2>2, <2>3, <2>5, <2>6, <3>1, <3>2, <3>3 DEF IInv, TypeOK
  <2>8. Distinct'
    BY <1>4, <2>3 DEF Distinct
  <2>9. Partition(queue, Owned)'
    <3>1. Owned' = {h, b, d}
      BY <2>2, <2>3 DEF Owned
    <3> QED
      BY <1>4, <2>1, <3>1
  <2>10. OnlyTimeoutsHalt' /\ ReadsRightSector'
    BY <1>1, <2>2 DEF OnlyTimeoutsHalt, ReadsRightSector, NoResult
  <2>11. ASSUME Quiet PROVE Outstanding'
    <3>1. inflight' = {new} /\ used_slot' = used_slot
      BY <2>1, <2>2, <2>11 DEF Quiet, used_slot
    <3>2. inflight' = {[head |-> req'.head, sector |-> sector_idx', frame |-> frame',
                        ticket |-> t]}
      BY <2>2, <2>3, <3>1 DEF new
    <3>3. \E k \in Tickets :
            inflight' = {[head |-> req'.head, sector |-> sector_idx', frame |-> frame',
                          ticket |-> k]}
      BY <1>5, <3>2
    <3> QED
      BY <2>2, <2>3, <2>5, <2>6, <2>11, <3>1, <3>3 DEF Outstanding, Quiet
  <2>12. ASSUME Clean PROVE Tidy'
    <3>1. Quiet /\ m_requests.first = None
      BY <1>1, <2>12 DEF IInv, Tidy
    <3>2. m_requests'.next[f] = None /\ m_requests'.prev[f] = None
      <4>1. /\ m_requests'.next = [m_requests.next EXCEPT ![f] = m_requests.first]
            /\ m_requests'.prev = [g \in Frames |-> IF g = m_requests.first THEN f
                                     ELSE IF g = f THEN None ELSE m_requests.prev[g]]
        BY <2>1 DEF add
      <4>2. m_requests.next \in [Frames -> Pointers] /\ f # None
        BY VirtioBlkAssumption DEF IInv, TypeOK, Links
      <4> QED
        BY <3>1, <4>1, <4>2
    <3> QED
      BY <2>2, <2>3, <3>1, <3>2 DEF Tidy
  <2>13. Clean' => Clean
    BY <2>2 DEF Clean
  <2>14. pc' # "idle" /\ (~stray' => Quiet)
    BY <2>2
  <2> QED
    BY <2>7, <2>8, <2>9, <2>10, <2>11, <2>12, <2>13, <2>14 DEF IInv, Phases
<1> QED
  BY <1>2, <1>6, <1>7

\* When a read returns, its descriptors are free again.  Until a read has been
\* abandoned, the handler has taken its request off the list.
LEMMA CleanupStep ==
    ASSUME IInv, halted = "no", ~in_irq, pc # "idle",
           NEW rc \in {"ok", "io", "timedout"}, NEW data \in Sectors \cup {None},
           rc = "ok" => data = sector_idx \/ stray,
           cleanup_block_request(rc, data)
    PROVE  IInv'
<1> DEFINE r == virtio_virtq_free_desc(
                  virtio_virtq_free_desc(
                    virtio_virtq_free_desc(queue, req.head), req.body),
                  req.status_desc)
           freed ==
             /\ queue' = r
             /\ m_requests' = IF m_requests.next[frame] = None THEN m_requests
                              ELSE remove(m_requests, frame)
             /\ abandoned' = abandoned + (IF req.taken THEN 1 ELSE 0)
             /\ result' = [rc |-> rc, data |-> data]
             /\ pc' = "idle" /\ req' = NoRequest
             /\ UNCHANGED <<device, handler, wild, heads, reading, halted>>
<1>1. freed \/ (m_requests.next[frame] \notin {None, frame} /\ Halt("undefined"))
  BY DEF cleanup_block_request
<1>2. /\ queue \in Queues /\ Partition(queue, {req.head, req.body, req.status_desc})
      /\ req.head \in Descs /\ req.body \in Descs /\ req.status_desc \in Descs
      /\ req.head # req.body /\ req.head # req.status_desc /\ req.body # req.status_desc
      /\ req.taken \in BOOLEAN
  BY DEF IInv, TypeOK, VirtqueueTypeOK, Queues, Request, Owned, Distinct
<1>3. r \in Queues /\ Partition(r, {})
  BY <1>2, GiveThree
<1> HIDE DEF r
<1>4. ASSUME Clean
      PROVE  m_requests.next[frame] = None /\ (~req.taken => Quiet /\ m_requests.first = None)
  <2>1. Tidy /\ Phases
    BY <1>4 DEF IInv, Tidy
  <2> QED
    BY <2>1 DEF Tidy, Phases, Outstanding, Answered, Seen, Released
<1>5. CASE m_requests.next[frame] \notin {None, frame} /\ Halt("undefined")
  BY <1>4, <1>5, HaltStep
<1>6. CASE freed
  <2>1. /\ queue' = r
        /\ m_requests' = IF m_requests.next[frame] = None THEN m_requests
                         ELSE remove(m_requests, frame)
        /\ abandoned' = abandoned + (IF req.taken THEN 1 ELSE 0)
        /\ result' = [rc |-> rc, data |-> data]
        /\ pc' = "idle" /\ req' = NoRequest
        /\ UNCHANGED <<inflight, used_idx, used_ring, irq_status, tempbuffer,
                       last_seen_used_idx, in_irq, scan, wild, heads, frame, sector_idx,
                       stray, halted>>
    BY <1>6 DEF device, handler, reading, used
  <2> HIDE DEF freed
  <2>2. m_requests' \in Links
    BY <2>1, ListLinks DEF IInv, TypeOK
  <2>3. abandoned' \in Nat /\ (req.taken => abandoned' # 0) /\ (~req.taken => abandoned' = abandoned)
    BY <1>2, <2>1 DEF IInv, TypeOK
  <2>4. TypeOK'
    <3>1. VirtqueueTypeOK'
      BY <1>3, <2>1 DEF IInv, TypeOK, VirtqueueTypeOK, Queues
    <3>2. result' \in Results
      BY <2>1 DEF Results
    <3>3. req' \in Request
      BY <2>1, VirtqueueAssumption DEF Request, NoRequest, Descs
    <3> QED
      BY <2>1, <2>2, <2>3, <3>1, <3>2, <3>3 DEF IInv, TypeOK
  <2>5. Distinct' /\ Partition(queue, Owned)'
    <3>1. Owned' = {}
      BY <2>1 DEF Owned
    <3> QED
      BY <1>3, <2>1, <3>1 DEF Distinct
  <2>6. ReadsRightSector' /\ OnlyTimeoutsHalt'
    BY <2>1 DEF ReadsRightSector, OnlyTimeoutsHalt
  <2>7. ASSUME Clean' PROVE Tidy'
    <3>1. Clean /\ ~req.taken
      BY <1>2, <2>1, <2>3, <2>7 DEF Clean
    <3>2. Quiet /\ m_requests.first = None /\ m_requests' = m_requests
      BY <1>4, <2>1, <3>1
    <3>3. Quiet'
      BY <2>1, <3>2 DEF Quiet, used_slot
    <3> QED
      BY <2>1, <3>2, <3>3 DEF Tidy
  <2> QED
    BY <2>1, <2>4, <2>5, <2>6, <2>7 DEF IInv
<1> QED
  BY <1>1, <1>5, <1>6

\* The wait ends.
LEMMA WaitStep == IInv /\ WaitNext => IInv'
<1> SUFFICES ASSUME IInv, WaitNext PROVE IInv'
  OBVIOUS
<1>1. CASE wait_succeeds
  <2>1. halted = "no" /\ ~in_irq /\ pc # "idle" /\ ~req.taken
    BY <1>1 DEF wait_succeeds, Driver
  <2>2. CASE req.status = "ok"
    <3>1. cleanup_block_request("ok", tempbuffer)
      BY <1>1, <2>2 DEF wait_succeeds
    <3>2. tempbuffer = sector_idx \/ stray
      BY <2>1, <2>2 DEF IInv, Phases, Outstanding, Answered, Seen, Released, HasData
    <3>3. tempbuffer \in Sectors \cup {None}
      BY DEF IInv, TypeOK
    <3> QED
      BY <2>1, <3>1, <3>2, <3>3, CleanupStep
  <2>3. CASE req.status # "ok"
    <3>1. cleanup_block_request("io", None)
      BY <1>1, <2>3 DEF wait_succeeds
    <3> QED
      BY <2>1, <3>1, CleanupStep
  <2> QED
    BY <2>2, <2>3
<1>2. CASE wait_times_out
  <2>1. /\ halted = "no" /\ pc = "wait" /\ pc' = "timed_out"
        /\ UNCHANGED <<queue, inflight, used_idx, used_ring, irq_status, tempbuffer,
                       last_seen_used_idx, in_irq, scan, wild, m_requests, heads, req,
                       frame, sector_idx, stray, abandoned, result, halted>>
    BY <1>2 DEF wait_times_out, Driver, device, handler, list, reading, used
  <2>2. TypeOK' /\ Distinct'
    BY <2>1 DEF IInv, TypeOK, VirtqueueTypeOK, Distinct
  <2>3. Partition(queue, Owned)'
    <3>1. queue' = queue /\ Owned' = Owned
      BY <2>1 DEF Owned
    <3> QED
      BY <3>1 DEF IInv
  <2>4. OnlyTimeoutsHalt' /\ ReadsRightSector'
    BY <2>1 DEF IInv, OnlyTimeoutsHalt, ReadsRightSector
  <2>5. used_slot' = used_slot
    BY <2>1 DEF used_slot
  <2>6. ~stray' => Phases'
    <3>1. ~stray => Phases
      BY <2>1 DEF IInv
    <3>2. HasData' <=> HasData
      BY <2>1 DEF HasData
    <3> QED
      BY <2>1, <2>5, <3>1, <3>2 DEF Phases, Outstanding, Answered, Seen, Released, Quiet
  <2>7. Clean' => Tidy'
    BY <2>1 DEF IInv, Clean, Tidy
  <2> QED
    BY <2>2, <2>3, <2>4, <2>6, <2>7 DEF IInv
<1>3. CASE give_up
  <2>1. /\ halted = "no" /\ ~in_irq /\ pc # "idle"
        /\ cleanup_block_request("timedout", None)
    BY <1>3 DEF give_up, Driver
  <2> QED
    BY <2>1, CleanupStep
<1> QED
  BY <1>1, <1>2, <1>3 DEF WaitNext

\* The device answers.  The answer to the read under way, if no earlier read
\* disturbs it, is the first that the handler has not seen.
LEMMA DeviceStep ==
    ASSUME IInv, NEW r \in inflight, NEW status \in {"ok", "error"},
           device_completes(r, status)
    PROVE  IInv'
<1> DEFINE slot == used_idx % Size
<1>1. /\ halted = "no" /\ inflight' = inflight \ {r}
      /\ tempbuffer' = IF status = "ok" THEN r.sector ELSE tempbuffer
      /\ used_ring' = [used_ring EXCEPT ![slot] = r.head]
      /\ used_idx' = (used_idx + 1) % Wrap
      /\ irq_status' = TRUE
  BY DEF device_completes, put_used
<1>2. UNCHANGED <<queue, last_seen_used_idx, in_irq, scan, wild, m_requests, heads,
                  frame, sector_idx, stray, abandoned, pc, result>>
  BY DEF device_completes, handler, list, reading
<1>3. \/ /\ req' = IF r.frame \in live THEN [req EXCEPT !["status"] = status] ELSE req
         /\ halted' = halted
      \/ r.frame \notin live /\ halted' = "undefined" /\ req' = req
  BY DEF device_completes
<1>4. r.head \in Descs /\ r.sector \in Sectors
  BY DEF IInv, TypeOK, Taken
<1>5. slot \in Descs /\ used_idx \in 0 .. Wrap - 1 /\ used_idx' \in 0 .. Wrap - 1
  <2>1. used_idx \in 0 .. Wrap - 1 /\ Wrap \in Nat \ {0} /\ Size \in Nat \ {0}
    BY VirtqueueAssumption DEF IInv, TypeOK, VirtqueueTypeOK
  <2>2. used_idx \in Nat /\ used_idx + 1 \in Nat
    BY <2>1
  <2> QED
    BY <1>1, <2>1, <2>2, DivMod DEF Descs
<1> HIDE DEF slot
<1>6. /\ req' \in Request /\ req'.head = req.head /\ req'.body = req.body
      /\ req'.status_desc = req.status_desc /\ req'.taken = req.taken
      /\ r.frame \in live => req'.status = status
  BY <1>3 DEF IInv, TypeOK, Request
<1>7. TypeOK'
  <2>1. VirtqueueTypeOK'
    BY <1>1, <1>2, <1>4, <1>5 DEF IInv, TypeOK, VirtqueueTypeOK
  <2>2. inflight' \subseteq Taken /\ tempbuffer' \in Sectors \cup {None}
    BY <1>1, <1>4 DEF IInv, TypeOK
  <2>3. halted' \in {"no", "panic", "hang", "undefined"}
    BY <1>1, <1>3
  <2> QED
    BY <1>2, <1>6, <2>1, <2>2, <2>3 DEF IInv, TypeOK
<1>8. Distinct' /\ Partition(queue, Owned)' /\ ReadsRightSector'
  <2>1. Distinct' /\ ReadsRightSector'
    BY <1>2, <1>6 DEF IInv, Distinct, ReadsRightSector
  <2>2. Owned' = Owned /\ queue' = queue
    BY <1>2, <1>6 DEF Owned
  <2> QED
    BY <2>1, <2>2 DEF IInv
<1>9. ASSUME pc # "idle", ~stray
      PROVE  r.frame \in live /\ Answered'
  <2>1. Outstanding
    BY <1>1, <1>9 DEF IInv, Phases, Answered, Seen, Released, Quiet
  <2>2. PICK t \in Tickets :
          inflight = {[head |-> req.head, sector |-> sector_idx, frame |-> frame, ticket |-> t]}
    BY <2>1 DEF Outstanding
  <2>3. r.head = req.head /\ r.sector = sector_idx /\ r.frame = frame /\ inflight' = {}
    BY <1>1, <2>2
  <2>4. r.frame \in live
    BY <1>9, <2>3 DEF live
  <2>5. slot = last_seen_used_idx /\ used_slot' = (last_seen_used_idx' + 1) % Size
    BY <1>1, <1>2, <1>5, <2>1, NextSlot DEF Outstanding, used_slot, slot
  <2>6. used_ring'[last_seen_used_idx'] = req'.head
    BY <1>1, <1>2, <1>5, <1>6, <2>3, <2>5 DEF IInv, TypeOK, VirtqueueTypeOK
  <2>7. HasData'
    BY <1>1, <1>2, <1>6, <2>3, <2>4 DEF HasData
  <2>8. Answered'
    BY <1>1, <1>2, <1>6, <2>1, <2>3, <2>5, <2>6, <2>7 DEF Outstanding, Answered
  <2> QED
    BY <2>4, <2>8
<1>10. ASSUME Clean PROVE pc # "idle" /\ ~stray /\ Tidy'
  <2>1. Tidy
    BY <1>1, <1>10 DEF IInv
  <2>2. pc # "idle" /\ ~stray
    BY <2>1 DEF Tidy, Quiet
  <2> QED
    BY <1>2, <1>6, <2>1, <2>2 DEF Tidy
<1>11. OnlyTimeoutsHalt'
  <2>1. CASE Clean
    BY <1>1, <1>3, <1>9, <1>10, <2>1 DEF OnlyTimeoutsHalt
  <2>2. CASE ~Clean
    BY <1>2, <2>2 DEF IInv, TypeOK, Clean, OnlyTimeoutsHalt
  <2> QED
    BY <2>1, <2>2
<1>12. Clean' <=> Clean
  BY <1>2 DEF Clean
<1> QED
  BY <1>2, <1>7, <1>8, <1>9, <1>10, <1>11, <1>12 DEF IInv, Phases

\* The interrupt handler starts.
LEMMA HandlerStarts == IInv /\ handle_irq => IInv'
<1> SUFFICES ASSUME IInv, handle_irq PROVE IInv'
  OBVIOUS
<1>1. /\ halted = "no" /\ irq_status /\ ~in_irq
      /\ in_irq' = TRUE
      /\ scan' = [idx |-> last_seen_used_idx, used |-> used_slot]
      /\ UNCHANGED <<queue, inflight, used_idx, used_ring, irq_status, tempbuffer,
                     last_seen_used_idx, wild, m_requests, heads, req, frame, sector_idx,
                     stray, abandoned, pc, result, halted>>
  BY DEF handle_irq, Interrupted, device, list, reading, used
<1>2. used_slot' = used_slot /\ used_slot \in Descs
  <2>1. used_idx \in 0 .. Wrap - 1 /\ Wrap \in Nat \ {0} /\ Size \in Nat \ {0}
    BY VirtqueueAssumption DEF IInv, TypeOK, VirtqueueTypeOK
  <2>2. used_idx \in Nat
    BY <2>1
  <2> QED
    BY <1>1, <2>1, <2>2, DivMod DEF Descs, used_slot
<1>3. TypeOK'
  BY <1>1, <1>2 DEF IInv, TypeOK, VirtqueueTypeOK
<1>4. Distinct' /\ Partition(queue, Owned)'
  <2>1. Distinct' /\ Owned' = Owned /\ queue' = queue
    BY <1>1 DEF IInv, Distinct, Owned
  <2> QED
    BY <2>1 DEF IInv
<1>5. OnlyTimeoutsHalt' /\ ReadsRightSector'
  BY <1>1 DEF IInv, OnlyTimeoutsHalt, ReadsRightSector
<1>6. ASSUME pc # "idle", ~stray PROVE Answered'
  <2>1. Answered
    BY <1>1, <1>6 DEF IInv, Phases, Outstanding, Seen, Released, Quiet
  <2>2. HasData' <=> HasData
    BY <1>1 DEF HasData
  <2>3. scan'.idx = last_seen_used_idx /\ scan'.used = used_slot
    BY <1>1
  <2> QED
    BY <1>1, <1>2, <2>1, <2>2, <2>3 DEF Answered
<1>7. Clean' => Tidy'
  <2>1. Clean => Tidy /\ pc # "idle"
    BY <1>1 DEF IInv, Tidy, Quiet
  <2> QED
    BY <1>1, <2>1 DEF Clean, Tidy
<1> QED
  BY <1>1, <1>3, <1>4, <1>5, <1>6, <1>7 DEF IInv, Phases

\* It comes to a used buffer.  If no earlier read disturbs the one under way,
\* its request is the first of the list, and found there.
LEMMA ProcessStep == IInv /\ process_used_buffer => IInv'
<1> SUFFICES ASSUME IInv, process_used_buffer PROVE IInv'
  OBVIOUS
<1> DEFINE f == find_first(m_requests, used_ring[scan.idx])
           found ==
             /\ f # None
             /\ req' = IF f \in live THEN [req EXCEPT !["taken"] = FALSE] ELSE req
             /\ m_requests' = remove(m_requests, f)
             /\ scan' = [scan EXCEPT !["idx"] = (scan.idx + 1) % Size]
             /\ used_ring' = [used_ring EXCEPT ![scan.idx] = 0]
             /\ UNCHANGED <<queue, inflight, used_idx, irq_status, tempbuffer,
                            last_seen_used_idx, in_irq, wild, heads, frame, sector_idx,
                            stray, abandoned, pc, result, halted>>
           why == IF endless(m_requests) THEN "hang" ELSE "panic"
<1>1. /\ halted = "no" /\ in_irq /\ scan.idx # scan.used
      /\ found \/ (f = None /\ Halt(why)) \/ (dead_linked /\ Halt("undefined"))
  BY DEF process_used_buffer, reading
<1>2. f \in Pointers /\ (with_head(m_requests.first, used_ring[scan.idx]) => f = m_requests.first)
  BY FindFirst
<1>3. why \in {"panic", "hang", "undefined"}
  OBVIOUS
<1> HIDE DEF f, why
<1>4. ASSUME pc # "idle", ~stray
      PROVE  Answered /\ f = frame /\ frame # None /\ scan.idx = last_seen_used_idx
  <2>1. Answered
    BY <1>1, <1>4 DEF IInv, Phases, Outstanding, Seen, Released, Quiet
  <2>2. scan.idx = last_seen_used_idx /\ with_head(m_requests.first, used_ring[scan.idx])
    BY <1>1, <2>1 DEF Answered, with_head, IInv, TypeOK
  <2>3. frame # None
    BY VirtioBlkAssumption DEF IInv, TypeOK
  <2> QED
    BY <1>2, <2>1, <2>2, <2>3 DEF Answered
<1>5. ASSUME Clean PROVE Tidy /\ pc # "idle" /\ ~stray
  BY <1>1, <1>5 DEF IInv, Tidy, Quiet
<1>6. CASE f = None /\ Halt(why)
  BY <1>3, <1>4, <1>5, <1>6, HaltStep
<1>7. CASE dead_linked /\ Halt("undefined")
  <2>1. ASSUME Clean PROVE FALSE
    <3>1. m_requests.first = frame /\ m_requests.next[frame] = None /\ live = {frame}
      BY <1>4, <1>5, <2>1 DEF Answered, Tidy, live
    <3> QED
      BY <1>7, <3>1 DEF dead_linked
  <2> QED
    BY <1>7, <2>1, HaltStep
<1>8. CASE found
  <2>1. f \in Frames
    BY <1>2, <1>8 DEF Pointers
  <2>2. /\ req' \in Request /\ req'.head = req.head /\ req'.body = req.body
        /\ req'.status_desc = req.status_desc /\ req'.status = req.status
        /\ f \in live => ~req'.taken
    BY <1>8 DEF IInv, TypeOK, Request
  <2>3. scan' \in [idx : Descs, used : Descs] /\ scan'.idx = (scan.idx + 1) % Size
        /\ scan'.used = scan.used
    <3>1. scan \in [idx : Descs, used : Descs] /\ (scan.idx + 1) % Size \in Descs
      BY NextDiffers DEF IInv, TypeOK
    <3> QED
      BY <1>8, <3>1
  <2>4. /\ m_requests' = remove(m_requests, f)
        /\ used_ring' = [used_ring EXCEPT ![scan.idx] = 0]
        /\ UNCHANGED <<queue, inflight, used_idx, irq_status, tempbuffer,
                       last_seen_used_idx, in_irq, wild, heads, frame, sector_idx, stray,
                       abandoned, pc, result, halted>>
    BY <1>8
  <2> HIDE DEF found
  <2>5. TypeOK'
    <3>1. 0 \in Descs
      BY VirtqueueAssumption DEF Descs
    <3>2. VirtqueueTypeOK'
      BY <2>4, <3>1 DEF IInv, TypeOK, VirtqueueTypeOK
    <3>3. m_requests' \in Links
      BY <2>1, <2>4, ListLinks DEF IInv, TypeOK
    <3> QED
      BY <2>2, <2>3, <2>4, <3>2, <3>3 DEF IInv, TypeOK
  <2>6. Distinct' /\ Partition(queue, Owned)'
    <3>1. Distinct' /\ Owned' = Owned /\ queue' = queue
      BY <2>2, <2>4 DEF IInv, Distinct, Owned
    <3> QED
      BY <3>1 DEF IInv
  <2>7. OnlyTimeoutsHalt' /\ ReadsRightSector'
    BY <2>4 DEF IInv, OnlyTimeoutsHalt, ReadsRightSector
  <2>8. used_slot' = used_slot
    BY <2>4 DEF used_slot
  <2>9. ASSUME pc # "idle", ~stray PROVE ~req'.taken /\ Seen'
    <3>1. Answered /\ f = frame /\ scan.idx = last_seen_used_idx
      BY <1>4, <2>9
    <3>2. ~req'.taken
      BY <2>2, <2>9, <3>1 DEF live
    <3>3. scan'.idx = used_slot' /\ scan'.used = used_slot'
      BY <1>1, <2>3, <2>8, <3>1 DEF Answered
    <3>4. HasData'
      BY <2>2, <2>4, <3>1 DEF Answered, HasData
    <3> QED
      BY <1>1, <2>4, <3>1, <3>2, <3>3, <3>4 DEF Answered, Seen
  <2>10. ASSUME Clean' PROVE Tidy'
    <3>1. Clean
      BY <2>4, <2>10 DEF Clean
    <3>2. Tidy /\ pc # "idle" /\ ~stray /\ f = frame
      BY <1>4, <1>5, <3>1
    <3>3. m_requests.prev[frame] = None /\ m_requests.next[frame] = None
      BY <3>2 DEF Tidy
    <3>4. /\ m_requests'.first = None
          /\ m_requests'.prev[frame] = None /\ m_requests'.next[frame] = None
      <4>1. m_requests' = [first |-> None,
                           next |-> [g \in Frames |-> IF g = None THEN None ELSE m_requests.next[g]],
                           prev |-> [g \in Frames |-> IF g = None THEN None ELSE m_requests.prev[g]]]
        BY <2>4, <3>2, <3>3 DEF remove
      <4>2. frame \in Frames
        BY DEF IInv, TypeOK
      <4> QED
        BY <3>3, <4>1, <4>2
    <3> QED
      BY <2>4, <3>2, <3>4 DEF Tidy
  <2> QED
    BY <2>4, <2>5, <2>6, <2>7, <2>9, <2>10 DEF IInv, Phases
<1> QED
  BY <1>1, <1>6, <1>7, <1>8

\* It acknowledges the interrupt and returns.
LEMMA ReturnStep == IInv /\ handle_irq_returns => IInv'
<1> SUFFICES ASSUME IInv, handle_irq_returns PROVE IInv'
  OBVIOUS
<1>1. /\ halted = "no" /\ in_irq /\ scan.idx = scan.used
      /\ last_seen_used_idx' = scan.used
      /\ in_irq' = FALSE /\ irq_status' = FALSE
      /\ scan' = [idx |-> 0, used |-> 0]
      /\ UNCHANGED <<queue, inflight, used_idx, used_ring, tempbuffer, wild, m_requests,
                     heads, req, frame, sector_idx, stray, abandoned, pc, result, halted>>
  BY DEF handle_irq_returns, list, reading, used
<1>2. TypeOK'
  <2>1. 0 \in Descs
    BY VirtqueueAssumption DEF Descs
  <2> QED
    BY <1>1, <2>1 DEF IInv, TypeOK, VirtqueueTypeOK
<1>3. Distinct' /\ Partition(queue, Owned)'
  <2>1. Distinct' /\ Owned' = Owned /\ queue' = queue
    BY <1>1 DEF IInv, Distinct, Owned
  <2> QED
    BY <2>1 DEF IInv
<1>4. OnlyTimeoutsHalt' /\ ReadsRightSector'
  BY <1>1 DEF IInv, OnlyTimeoutsHalt, ReadsRightSector
<1>5. ASSUME pc # "idle", ~stray PROVE Released'
  <2>1. ~Answered
    <3> SUFFICES ASSUME Answered PROVE FALSE
      OBVIOUS
    <3>1. scan.idx = last_seen_used_idx /\ scan.used = (last_seen_used_idx + 1) % Size
      BY <1>1 DEF Answered
    <3>2. last_seen_used_idx \in Descs
      BY DEF IInv, TypeOK, VirtqueueTypeOK
    <3> QED
      BY <1>1, <3>1, <3>2, NextDiffers
  <2>2. Seen
    BY <1>1, <1>5, <2>1 DEF IInv, Phases, Outstanding, Released, Quiet
  <2>3. HasData' /\ used_slot' = used_slot
    BY <1>1, <2>2 DEF Seen, HasData, used_slot
  <2> QED
    BY <1>1, <2>2, <2>3 DEF Seen, Released, Quiet
<1>6. Clean' => Tidy'
  <2>1. Clean => Tidy /\ pc # "idle"
    BY <1>1 DEF IInv, Tidy, Quiet
  <2> QED
    BY <1>1, <2>1 DEF Clean, Tidy
<1> QED
  BY <1>1, <1>2, <1>3, <1>4, <1>5, <1>6 DEF IInv, Phases

\* A read that no earlier one disturbs goes through the four phases, whatever
\* happened before, and every descriptor is accounted for.
THEOREM VirtioBlkInvariant == Spec => []IInv
<1>1. Init => IInv
  BY InitInvariant
<1>2. IInv /\ [Next]_vars => IInv'
  <2> SUFFICES ASSUME IInv, [Next]_vars PROVE IInv'
    OBVIOUS
  <2>1. CASE \E sector \in Sectors, f \in Frames : read_sector(sector, f)
    BY <2>1, ReadStep
  <2>2. CASE WaitNext
    BY <2>2, WaitStep
  <2>3. CASE HandlerNext
    BY <2>3, HandlerStarts, ProcessStep, ReturnStep DEF HandlerNext
  <2>4. CASE \E r \in inflight, status \in {"ok", "error"} : device_completes(r, status)
    BY <2>4, DeviceStep
  <2>5. CASE UNCHANGED vars
    <3>1. UNCHANGED <<queue, inflight, used_idx, used_ring, irq_status, tempbuffer,
                      last_seen_used_idx, in_irq, scan, wild, m_requests, heads, req,
                      frame, sector_idx, stray, abandoned, pc, result, halted>>
      BY <2>5 DEF vars, device, handler, list, reading, used
    <3>2. TypeOK' /\ Distinct' /\ OnlyTimeoutsHalt' /\ ReadsRightSector'
      BY <3>1 DEF IInv, TypeOK, VirtqueueTypeOK, Distinct, OnlyTimeoutsHalt,
                  ReadsRightSector
    <3>3. Owned' = Owned /\ queue' = queue /\ used_slot' = used_slot
      BY <3>1 DEF Owned, used_slot
    <3>4. Partition(queue, Owned)'
      BY <3>3 DEF IInv
    <3>5. Quiet' = Quiet /\ HasData' = HasData
      BY <3>1, <3>3 DEF Quiet, HasData
    <3>6. halted' = "no" /\ pc' # "idle" /\ ~stray' => Phases'
      BY <3>1, <3>3, <3>5 DEF IInv, Phases, Outstanding, Answered, Seen, Released
    <3>7. halted' = "no" /\ Clean' => Tidy'
      BY <3>1, <3>5 DEF IInv, Clean, Tidy
    <3> QED
      BY <3>2, <3>4, <3>6, <3>7 DEF IInv
  <2> QED
    BY <2>1, <2>2, <2>3, <2>4, <2>5 DEF Next
<1> QED
  BY <1>1, <1>2, PTL DEF Spec

\* Through errors, timeouts and late answers, for every queue size: no
\* descriptor is lost or freed twice, no completion is overlooked, and the
\* driver stops only after it has abandoned a request.
THEOREM RequestsStaySound == Spec => []RequestsSound
<1>1. IInv => RequestsSound
  <2> SUFFICES ASSUME IInv PROVE RequestsSound
    OBVIOUS
  <2>1. queue \in Queues
    BY DEF IInv, TypeOK, VirtqueueTypeOK, Queues
  <2>2. DescriptorsConserved
    <3>1. PICK n, F : Free(queue, n, F) /\ F \cap Owned = {} /\ F \cup Owned = Descs
      BY DEF IInv, Partition
    <3>2. PICK s : FreeChain(queue, n, s) /\ Elements(n, s) = F
      BY <3>1 DEF Free
    <3>3. free_list[Size] = Size /\ FreeDescs = F
      BY <2>1, <3>2, FreeListIsChain
    <3>4. ASSUME pc # "idle" PROVE Cardinality(Owned) = 3
      <4> DEFINE S1 == {req.head}
                 S2 == S1 \cup {req.body}
                 S3 == S2 \cup {req.status_desc}
      <4>1. req.body \notin S1 /\ req.status_desc \notin S2
        BY <3>4 DEF IInv, Distinct
      <4>2. IsFiniteSet(S1) /\ Cardinality(S1) = 1
        BY FS_Singleton
      <4> HIDE DEF S1
      <4>3. IsFiniteSet(S2) /\ Cardinality(S2) = 2
        BY <4>1, <4>2, FS_AddElement
      <4> HIDE DEF S2
      <4>4. IsFiniteSet(S3) /\ Cardinality(S3) = 3
        BY <4>1, <4>3, FS_AddElement
      <4>5. Owned = S3
        BY <3>4 DEF Owned, S1, S2
      <4> QED
        BY <4>4, <4>5
    <3> QED
      BY <3>1, <3>3, <3>4 DEF DescriptorsConserved
  <2>3. CompletionSeen
    <3> SUFFICES ASSUME halted = "no", pc # "idle", ~stray, req.taken, inflight = {}
                 PROVE  irq_status /\ (in_irq => scan.idx # scan.used)
      BY DEF CompletionSeen
    <3>1. Answered
      BY DEF IInv, Phases, Outstanding, Seen, Released
    <3>2. last_seen_used_idx \in Descs
      BY DEF IInv, TypeOK, VirtqueueTypeOK
    <3>3. (last_seen_used_idx + 1) % Size # last_seen_used_idx
      BY <3>2, NextDiffers
    <3> QED
      BY <3>1, <3>3 DEF Answered
  <2> QED
    BY <2>2, <2>3 DEF IInv, RequestsSound
<1> QED
  BY <1>1, VirtioBlkInvariant, PTL

\* A read that succeeds returns the sector that was asked for, also after reads
\* that were abandoned, unless an answer to one of them was still due or unseen
\* when it began.
THEOREM ReadsReturnTheirSector == Spec => []ReadsRightSector
<1>1. IInv => ReadsRightSector
  BY DEF IInv
<1> QED
  BY <1>1, VirtioBlkInvariant, PTL
=============================================================================
