----------------------------- MODULE VirtioBlk -----------------------------
(***************************************************************************)
(* Reading a sector through a split virtqueue (kernel/drivers/block/       *)
(* virtioblk.cpp over kernel/drivers/bus/virtio/virtio.cpp): the driver,   *)
(* its interrupt handler, and the device.                                  *)
(*                                                                         *)
(* read_sector holds s_read_tempbuffer_lock and spins until it is done, so *)
(* there is one request at a time.  The request is a variable on the stack *)
(* of read_sector, in one of several frames: once the function has         *)
(* returned it is dead, and a later request may have the same frame.  A    *)
(* dead request that something still points to holds what it held, or its  *)
(* memory has got another use: then it is undefined what happens.  Of dead *)
(* requests the model keeps their links and their first descriptors, which *)
(* is all that anything reads.                                             *)
(***************************************************************************)
EXTENDS Virtqueue

CONSTANTS
    Sectors,
    Frames,         \* the places on the stacks where a request can be
    Tickets,        \* bound: as many requests may wait for the device
    MaxAbandoned,   \* bound: after as many, read_sector is not called again
    None

ASSUME VirtioBlkAssumption ==
    /\ Size >= 3 /\ Sectors # {} /\ None \notin Sectors
    /\ Frames # {} /\ IsFiniteSet(Frames) /\ None \notin Frames
    /\ MaxAbandoned \in Nat

VARIABLES
    inflight,           \* requests the device has taken, see Taken
    wild,               \* m_requests was not empty in the memory malloc gave
    m_requests,         \* the list of requests, see Links
    heads,              \* descriptor_idx[0] of the request in each frame
    req,                \* the request of the last read
    frame,              \* where it is
    sector_idx,         \* what the last read is to read
    stray,              \* history: when it began, an answer to an
                        \* earlier one was still to come or to be seen
    abandoned,          \* history: reads that have returned without their answer
    tempbuffer,         \* the sector whose data s_read_tempbuffer holds
    scan,               \* idx and used of the handler's loop
    pc,
    result,             \* what the last read has returned
    halted              \* "no", or the way the kernel stopped

device == <<inflight, used, irq_status, tempbuffer>>
handler == <<last_seen_used_idx, in_irq, scan>>
list == <<wild, m_requests, heads>>
reading == <<frame, sector_idx, stray>>
vars == <<queue, device, handler, list, req, reading, abandoned, pc, result, halted>>

Request == [head : Descs, body : Descs, status_desc : Descs,
            taken : BOOLEAN, status : {"ok", "error"}]

\* The ticket tells requests with the same head apart.
Taken == [head : Descs, sector : Sectors, frame : Frames, ticket : Tickets]

Pointers == Frames \cup {None}

Links == [first : Pointers, prev : [Frames -> Pointers], next : [Frames -> Pointers]]

Results == [rc : {"none", "ok", "io", "timedout"}, data : Sectors \cup {None}]

NoResult == [rc |-> "none", data |-> None]

TypeOK ==
    /\ VirtqueueTypeOK
    /\ inflight \subseteq Taken
    /\ wild \in BOOLEAN /\ m_requests \in Links /\ heads \in [Frames -> Descs]
    /\ req \in Request
    /\ frame \in Frames /\ sector_idx \in Sectors
    /\ stray \in BOOLEAN /\ abandoned \in Nat
    /\ tempbuffer \in Sectors \cup {None}
    /\ scan \in [idx : Descs, used : Descs]
    /\ pc \in {"idle", "wait", "timed_out"}
    /\ result \in Results
    /\ halted \in {"no", "panic", "hang", "undefined"}

NoRequest == [head |-> 0, body |-> 0, status_desc |-> 0, taken |-> FALSE, status |-> "ok"]

\* The constructor does not initialize m_requests.
Init ==
    /\ virtq_alloc
    /\ inflight = {}
    /\ wild \in BOOLEAN
    /\ m_requests = [first |-> None, prev |-> [f \in Frames |-> None],
                     next |-> [f \in Frames |-> None]]
    /\ heads = [f \in Frames |-> 0]
    /\ req = NoRequest
    /\ frame = (CHOOSE f \in Frames : TRUE)
    /\ sector_idx = (CHOOSE s \in Sectors : TRUE)
    /\ stray = FALSE /\ abandoned = 0
    /\ tempbuffer = None
    /\ scan = [idx |-> 0, used |-> 0]
    /\ pc = "idle"
    /\ result = NoResult
    /\ halted = "no"

-----------------------------------------------------------------------------
(* IntrusiveLinkedList, for a list l of requests.  Nothing reads its tail. *)

add(l, f) ==
    [first |-> f,
     next |-> [l.next EXCEPT ![f] = l.first],
     prev |-> [g \in Frames |-> IF g = l.first THEN f
                                ELSE IF g = f THEN None ELSE l.prev[g]]]

\* A request without a predecessor is taken for the first one.
remove(l, f) ==
    LET p == l.prev[f]
        n == l.next[f]
    IN [first |-> IF p = None THEN n ELSE l.first,
        next |-> [g \in Frames |-> IF g = p THEN n ELSE l.next[g]],
        prev |-> [g \in Frames |-> IF g = n THEN p ELSE l.prev[g]]]

\* The requests from the first one on.  The end is reached within as many steps
\* as there are frames, or never.
Steps == 0 .. Cardinality(Frames)

path(l) ==
    LET p[k \in Steps] ==
          IF k = 0 THEN l.first
          ELSE IF p[k - 1] = None THEN None ELSE l.next[p[k - 1]]
    IN p

endless(l) == \A k \in Steps : path(l)[k] # None

with_head(f, d) == f \in Frames /\ heads[f] = d

find_first(l, d) ==
    LET p == path(l)
        found == {k \in Steps : with_head(p[k], d)}
    IN IF with_head(l.first, d) THEN l.first
       ELSE IF found = {} THEN None
       ELSE p[CHOOSE k \in found : \A j \in found : k <= j]

\* The request of a read that has not returned.
live == IF pc = "idle" THEN {} ELSE {frame}

\* A walk along the list, or unlinking its first request, gets to a dead one.
dead_linked ==
    m_requests.first # None
      /\ ~({m_requests.first, m_requests.next[m_requests.first]} \subseteq live \cup {None})

-----------------------------------------------------------------------------
(* The driver.  While the handler runs, the driver does not.               *)

Driver(place) == halted = "no" /\ ~in_irq /\ pc = place

Halt(why) ==
    /\ halted' = why
    /\ UNCHANGED <<queue, device, handler, list, req, reading, abandoned, pc, result>>

\* The device may take the request as soon as it is in the available ring.
free_tickets == {t \in Tickets : \A r \in inflight : r.ticket # t}

virtio_virtq_enqueue_desc(h, sector, f) ==
    inflight' = inflight \cup
      {[head |-> h, sector |-> sector, frame |-> f,
        ticket |-> CHOOSE t \in free_tickets : TRUE]}

\* Three descriptors are allocated, chained and handed to the device; h, b
\* and s are their indices.
enqueue_block_request(q, h, b, s, sector, f) ==
    /\ queue' = chained(chained(chained(q, h, b), b, s), s, 0)
    /\ virtio_virtq_enqueue_desc(h, sector, f)
    /\ m_requests' = add(m_requests, f)
    /\ heads' = [heads EXCEPT ![f] = h]
    /\ req' = [head |-> h, body |-> b, status_desc |-> s, taken |-> TRUE, status |-> "ok"]

\* The device has answered everything, and the handler has seen it.
Quiet == inflight = {} /\ used_slot = last_seen_used_idx /\ ~irq_status /\ ~in_irq

\* read_sector up to the wait.  With fewer than three descriptors the cleanup
\* would use a request that was never initialized; add writes to the first
\* request of the list.
read_sector(sector, f) ==
    /\ Driver("idle") /\ free_tickets # {} /\ abandoned < MaxAbandoned
    /\ LET q1 == virtio_virtq_alloc_desc(queue)
           q2 == virtio_virtq_alloc_desc(q1)
           h == allocated(queue)
           b == allocated(q1)
           s == allocated(q2)
           enough == {h, b, s} \subseteq Descs
       IN \/ /\ ~wild /\ enough
             /\ enqueue_block_request(virtio_virtq_alloc_desc(q2),
                                      h, b, s, sector, f)
             /\ frame' = f /\ sector_idx' = sector /\ stray' = ~Quiet
             /\ pc' = "wait" /\ result' = NoResult
             /\ UNCHANGED <<used, irq_status, tempbuffer, handler, wild,
                            abandoned, halted>>
          \/ /\ wild \/ ~enough \/ m_requests.first \notin {None, f}
             /\ Halt("undefined")

\* cleanup_block_request unlinks the request if another one follows it, also
\* when the handler has done so; then read_sector returns.
cleanup_block_request(rc, data) ==
    \/ /\ queue' = virtio_virtq_free_desc(
                     virtio_virtq_free_desc(
                       virtio_virtq_free_desc(queue, req.head),
                       req.body),
                     req.status_desc)
       /\ m_requests' = IF m_requests.next[frame] = None THEN m_requests
                        ELSE remove(m_requests, frame)
       /\ abandoned' = abandoned + (IF req.taken THEN 1 ELSE 0)
       /\ result' = [rc |-> rc, data |-> data]
       /\ pc' = "idle" /\ req' = NoRequest
       /\ UNCHANGED <<device, handler, wild, heads, reading, halted>>
    \/ /\ m_requests.next[frame] \notin {None, frame}
       /\ Halt("undefined")

wait_succeeds_unchecked ==
    /\ Driver("wait") /\ ~req.taken
    /\ cleanup_block_request("ok", tempbuffer)

\* The spinlock has been released by the handler.
wait_succeeds ==
    /\ Driver("wait") /\ ~req.taken
    /\ IF req.status = "ok" THEN cleanup_block_request("ok", tempbuffer)
                                   ELSE cleanup_block_request("io", None)

wait_times_out_never == FALSE /\ UNCHANGED vars

\* spinlock_take_with_timeout gives up; the answer may still come before ...
wait_times_out ==
    /\ Driver("wait") /\ req.taken
    /\ pc' = "timed_out"
    /\ UNCHANGED <<queue, device, handler, list, req, reading, abandoned, result, halted>>

\* ... the request is cleaned up.
give_up ==
    /\ Driver("timed_out")
    /\ cleanup_block_request("timedout", None)

-----------------------------------------------------------------------------
(* The device (external), as the driver sees it.                           *)

\* It fetches the data into s_read_tempbuffer, unless that fails, writes the
\* status byte into the request's frame and appends to the used ring, also
\* when the request is dead: it has read the descriptors when it took it.
device_completes(r, status) ==
    /\ halted = "no" /\ r \in inflight
    /\ inflight' = inflight \ {r}
    /\ tempbuffer' = IF status = "ok" THEN r.sector ELSE tempbuffer
    /\ put_used(r.head)
    /\ \/ /\ req' = IF r.frame \in live THEN [req EXCEPT !["status"] = status] ELSE req
          /\ UNCHANGED halted
       \/ /\ r.frame \notin live
          /\ halted' = "undefined" /\ UNCHANGED req
    /\ UNCHANGED <<queue, handler, list, reading, abandoned, pc, result>>

-----------------------------------------------------------------------------
(* handle_irq, one used buffer at a time                                   *)

handle_irq ==
    /\ halted = "no" /\ Interrupted
    /\ in_irq' = TRUE
    /\ scan' = [idx |-> last_seen_used_idx, used |-> used_slot]
    /\ UNCHANGED <<queue, device, last_seen_used_idx, list, req, reading, abandoned, pc,
                   result, halted>>

\* The request is found by its first descriptor, its lock released, and it is
\* unlinked.  The entry is not read again before the device writes it, so the
\* model forgets it.
process_used_buffer ==
    LET f == find_first(m_requests, used_ring[scan.idx])
    IN /\ halted = "no" /\ in_irq /\ scan.idx # scan.used
       /\ \/ /\ f # None
             /\ req' = IF f \in live THEN [req EXCEPT !["taken"] = FALSE] ELSE req
             /\ m_requests' = remove(m_requests, f)
             /\ scan' = [scan EXCEPT !["idx"] = (scan.idx + 1) % Size]
             /\ used_ring' = [used_ring EXCEPT ![scan.idx] = 0]
             /\ UNCHANGED <<queue, inflight, used_idx, irq_status, tempbuffer,
                            last_seen_used_idx, in_irq, wild, heads, reading, abandoned,
                            pc, result, halted>>
          \/ /\ f = None
             /\ Halt(IF endless(m_requests) THEN "hang" ELSE "panic")
          \/ /\ dead_linked
             /\ Halt("undefined")

handle_irq_returns ==
    /\ halted = "no" /\ in_irq /\ scan.idx = scan.used
    /\ last_seen_used_idx' = scan.used
    /\ in_irq' = FALSE /\ irq_status' = FALSE
    /\ scan' = [idx |-> 0, used |-> 0]
    /\ UNCHANGED <<queue, inflight, used, tempbuffer, list, req, reading, abandoned,
                   pc, result, halted>>

-----------------------------------------------------------------------------
HandlerNext == handle_irq \/ process_used_buffer \/ handle_irq_returns

WaitNext == wait_succeeds \/ wait_times_out \/ give_up

Next ==
    \/ \E sector \in Sectors, f \in Frames : read_sector(sector, f)
    \/ WaitNext
    \/ HandlerNext
    \/ \E r \in inflight, status \in {"ok", "error"} :
         device_completes(r, status)

Spec == Init /\ [][Next]_vars

\* The CPU runs the handler when an interrupt is pending, and otherwise the
\* driver, whose wait ends by itself.  Nothing is assumed of the device.
Fairness == WF_vars(HandlerNext) /\ WF_vars(WaitNext)

FairSpec == Spec /\ Fairness

-----------------------------------------------------------------------------
(* Properties                                                              *)

Owned ==
    IF pc = "idle" THEN {}
    ELSE {req.head, req.body, req.status_desc}

\* Allocating and freeing chains of descriptors permutes the free list but
\* neither loses a descriptor nor frees one twice: each is on the list or in
\* the request, also after errors and timeouts.
DescriptorsConserved ==
    /\ free_list[Size] = Size
    /\ FreeDescs \cap Owned = {} /\ FreeDescs \cup Owned = Descs
    /\ pc # "idle" => Cardinality(Owned) = 3

\* read_sector returns success only with the data of the sector asked for,
\* also after reads that timed out, unless an answer to one of those was still
\* due when it began: that one overwrites s_read_tempbuffer, and it releases
\* the new request if the descriptors have come round to the same head.
ReadsRightSector ==
    result.rc = "ok" => result.data = sector_idx \/ stray

\* No completion is lost: when the device has answered the request of a read
\* that no earlier one disturbs, its lock has been released, or an interrupt is
\* pending, or the handler has yet to come to it.
CompletionSeen ==
    (halted = "no" /\ pc # "idle" /\ ~stray /\ req.taken /\ inflight = {})
      => irq_status /\ (in_irq => scan.idx # scan.used)

\* read_sector returns, whatever the device does, or the kernel has stopped.
ReadReturns == pc # "idle" ~> (pc = "idle" \/ halted # "no")

\* If the driver's list of requests was empty at first, it stays sound, every
\* used buffer finds its request and descriptors are never short, until a read
\* has returned without an answer: its request stays in the list.
OnlyTimeoutsHalt == halted # "no" => wild \/ abandoned > 0

\* The queue and the driver's list of requests stay sound through errors,
\* timeouts and late answers: descriptors are conserved, no completion is
\* overlooked, and the driver stops only after it has abandoned a request.
RequestsSound == TypeOK /\ DescriptorsConserved /\ CompletionSeen /\ OnlyTimeoutsHalt
=============================================================================
