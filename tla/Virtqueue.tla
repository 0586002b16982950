----------------------------- MODULE Virtqueue -----------------------------
(***************************************************************************)
(* A split virtqueue and its device's registers, as the drivers use them   *)
(* (kernel/drivers/bus/virtio).  Buffers are named by their descriptor.    *)
(* The free descriptors are chained through their next fields.             *)
(***************************************************************************)
EXTENDS Naturals, FiniteSets, Sequences

CONSTANTS
    Size,       \* number of descriptors of the queue
    Wrap        \* the ring indices count modulo this (2^16)

ASSUME VirtqueueAssumption ==
    /\ Size \in Nat \ {0}
    /\ Wrap \in Nat \ {0} /\ Wrap % Size = 0

VARIABLES
    queue,              \* [first_free_desc_idx, next]
    used_idx,           \* used->idx, written by the device
    used_ring,          \* used->ring[k].id
    last_seen_used_idx,
    irq_status,         \* the used-buffer bit of InterruptStatus
    in_irq              \* the handler has yet to write InterruptAck

used == <<used_idx, used_ring>>
virtqueue == <<queue, used, last_seen_used_idx, irq_status, in_irq>>

Descs == 0 .. Size - 1

VirtqueueTypeOK ==
    /\ queue \in [first_free_desc_idx : 0 .. Size,
                  next : [Descs -> 0 .. Size]]
    /\ used_idx \in 0 .. Wrap - 1
    /\ used_ring \in [Descs -> Descs]
    /\ last_seen_used_idx \in Descs
    /\ irq_status \in BOOLEAN /\ in_irq \in BOOLEAN

\* Every descriptor is on the free list.
virtq_alloc ==
    /\ queue = [first_free_desc_idx |-> 0, next |-> [k \in Descs |-> k + 1]]
    /\ used_idx = 0 /\ used_ring = [k \in Descs |-> 0]
    /\ last_seen_used_idx = 0
    /\ irq_status = FALSE /\ in_irq = FALSE

-----------------------------------------------------------------------------
(* Descriptors, for a queue q.  allocated is what the next allocation      *)
(* returns, where Size stands for the error.                               *)

allocated(q) == q.first_free_desc_idx

virtio_virtq_alloc_desc(q) ==
    IF allocated(q) \in Descs
      THEN [q EXCEPT !["first_free_desc_idx"] = q.next[allocated(q)]]
      ELSE q

virtio_virtq_free_desc_lossy(q, d) ==
    IF d \in Descs THEN [q EXCEPT !["first_free_desc_idx"] = d] ELSE q

virtio_virtq_free_desc(q, d) ==
    IF d \in Descs
      THEN [first_free_desc_idx |-> d,
            next |-> [q.next EXCEPT ![d] = q.first_free_desc_idx]]
      ELSE q

\* Filling in a descriptor sets its next field, 0 if it has no next one.
chained(q, d, n) == [q EXCEPT !["next"][d] = n]

\* The free list of a queue after k descriptors, Size at its end.
free_list[k \in Nat] ==
    IF k = 0 THEN queue.first_free_desc_idx
    ELSE IF free_list[k - 1] = Size THEN Size
    ELSE queue.next[free_list[k - 1]]

FreeDescs == {free_list[k] : k \in 0 .. Size} \ {Size}

-----------------------------------------------------------------------------
(* Used buffers: the device appends them, foreach_used_descriptor visits   *)
(* those from last_seen_used_idx up to used->idx.                          *)

\* The device has used the buffer that starts at d, and interrupts.
put_used(d) ==
    /\ used_ring' = [used_ring EXCEPT ![used_idx % Size] = d]
    /\ used_idx' = (used_idx + 1) % Wrap
    /\ irq_status' = TRUE

used_slot == used_idx % Size

new_used_short ==
    LET n == (used_slot + Size - last_seen_used_idx) % Size
    IN [k \in 1 .. (IF n = 0 THEN 0 ELSE n - 1) |->
          used_ring[(last_seen_used_idx + k) % Size]]

\* Descriptors the handler will visit, oldest first.
new_used ==
    LET n == (used_slot + Size - last_seen_used_idx) % Size
    IN [k \in 1 .. n |-> used_ring[(last_seen_used_idx + k - 1) % Size]]

foreach_used_descriptor_forgets ==
    UNCHANGED <<last_seen_used_idx, used_ring, used_idx>>

\* All entries of the ring have been visited now.  None is read again before
\* the device writes it, so the model forgets them.
foreach_used_descriptor ==
    /\ last_seen_used_idx' = used_slot
    /\ used_ring' = [k \in Descs |-> 0]
    /\ UNCHANGED used_idx

Interrupted == irq_status /\ ~in_irq

\* The last statement of every handle_irq, after which the CPU goes on.
handle_irq_ack ==
    /\ in_irq
    /\ in_irq' = FALSE /\ irq_status' = FALSE
    /\ UNCHANGED <<queue, used, last_seen_used_idx>>

\* The device has used a buffer, but the bit that would make the driver look
\* at it has been cleared: it was set again before it was acknowledged.
Overlooked == new_used # <<>> /\ ~irq_status

-----------------------------------------------------------------------------
(* Bringing up a device: the bits of its Status register.                  *)

\* The device may be none, be of another class, or refuse the features.
Negotiations == {"absent", "other_class", "no_features", "ok"}

virtio_util_do_generic_init_step(status, found) ==
    CASE found = "absent" -> status \cup {"failed"}
      [] found = "other_class" -> status \cup {"acknowledge", "failed"}
      [] found = "no_features" ->
           status \cup {"acknowledge", "driver", "failed"}
      [] found = "ok" -> status \cup {"acknowledge", "driver", "features_ok"}

virtio_util_complete_init_step(status) == status \cup {"driver_ok"}

virtio_util_init_failure(status) == status \cup {"failed"}
=============================================================================
