------------------------------- MODULE Input -------------------------------
(***************************************************************************)
(* Key events on their way from a virtio keyboard to programs: the buffers *)
(* of kernel/drivers/char/virtioinput.cpp, its interrupt handler, the ring *)
(* of events of InputDevice (kernel/drivers/device.cpp) behind its mutex,  *)
(* and programs that wait in vfs_read or sys$poll.                         *)
(*                                                                         *)
(* The k-th key event is k; an event of another type is 0.  A thread that  *)
(* is in a call keeps the CPU (busy) until it yields or returns, but the   *)
(* interrupt handler comes in between any two of its steps.                *)
(***************************************************************************)
EXTENDS Virtqueue, RingBuffer, Integers

CONSTANTS
    Threads,
    Draining,       \* threads whose program reads again and again
    Pollers,        \* threads whose program calls poll as well
    Polls,          \* arguments: what the descriptors are, and a timeout
    ClockWrap,      \* get_ticks_ms counts modulo this (2^32)
    MaxElapsed,     \* bound: time is not counted further
    MaxKeys,        \* bound: after so many key events the keyboard is silent
    ReadSizes,      \* how many events a read has room for
    None

ASSUME InputAssumption ==
    /\ None \notin Threads
    /\ Draining \subseteq Threads /\ Pollers \subseteq Threads
    /\ Size >= 2 /\ MaxKeys \in Nat /\ T = 1 .. MaxKeys
    /\ MaxElapsed \in Nat
    /\ \A p \in Polls : /\ p.timeout \in 0 .. MaxElapsed - 1
                        /\ p.fds \in Seq({"closed", "negative", "other", "input"})
    /\ ClockWrap \in Nat \ {0} /\ ReadSizes \subseteq Nat \ {0}

VARIABLES
    avail,          \* descriptors of the buffers the device may fill, in order
    m_eventsbuf,    \* by descriptor
    lock,           \* m_events.lock: the thread that has taken it
    stuck,          \* the thread that was interrupted by a handler that now
                    \* waits for the lock
    busy,
    pc, call,       \* by thread: where it is, and in which call
    result,         \* by thread: whether its last call timed out or returned
                    \* nothing
    pressed, received   \* key events made by the device, read by programs

threads == <<busy, pc, call, result>>
vars == <<virtqueue, ring, avail, m_eventsbuf, lock, stuck, threads, pressed,
          received>>

\* The locals of a call: fds is the rest of the list sys$poll is going through.
\* now is the clock since a poll with a timeout began, elapsed the time that
\* has really passed, up to MaxElapsed, and wrapped whether now has wrapped.
Idle == [name |-> "none", args |-> <<>>, fds |-> <<>>, timeout |-> 0,
         start |-> 0, now |-> 0, elapsed |-> 0, wrapped |-> FALSE,
         events |-> 0, got |-> 0]

Lists == {<<>>, <<"input">>} \cup {p.fds : p \in Polls}

TypeOK ==
    /\ VirtqueueTypeOK /\ RingTypeOK
    /\ avail \in Seq(Descs) /\ Len(avail) <= Size
    /\ m_eventsbuf \in [Descs -> 0 .. MaxKeys]
    /\ lock \in Threads \cup {None} /\ stuck \in Threads \cup {None}
    /\ busy \in Threads \cup {None}
    /\ pc \in [Threads -> {"idle", "fd", "poll_locked", "read", "read_locked"}]
    /\ result \in [Threads -> {"ok", "timedout", "empty"}]
    /\ pressed \in 0 .. MaxKeys
    /\ \A t \in Threads :
         /\ call[t].name \in {"none", "read", "poll"}
         /\ call[t].args \in Lists
         /\ call[t].start \in 0 .. ClockWrap - 1
         /\ call[t].now \in 0 .. ClockWrap - 1
         /\ call[t].got \in 0 .. call[t].events

\* VirtioInputDevice::init leaves one descriptor unused.
init == avail = [k \in 1 .. Size - 1 |-> k - 1]

\* All but the last descriptor have been allocated by init.
Init ==
    /\ queue = [first_free_desc_idx |-> Size - 1,
                next |-> [k \in Descs |-> IF k = Size - 1 THEN Size ELSE 0]]
    /\ used_idx = 0 /\ used_ring = [k \in Descs |-> 0]
    /\ last_seen_used_idx = 0
    /\ irq_status = FALSE /\ in_irq = FALSE
    /\ data = [p \in Positions |-> 1]
    /\ read_pos = 0 /\ write_pos = 0 /\ count = 0
    /\ init
    /\ m_eventsbuf = [d \in Descs |-> 0]
    /\ lock = None /\ stuck = None
    /\ busy = None
    /\ pc = [t \in Threads |-> "idle"]
    /\ call = [t \in Threads |-> Idle]
    /\ result = [t \in Threads |-> "ok"]
    /\ pressed = 0 /\ received = <<>>

-----------------------------------------------------------------------------
(* Calls.                                                                  *)

Runs(t) == ~in_irq /\ stuck # t /\ busy \in {t, None}

At(t, place) == Runs(t) /\ pc[t] = place

device == <<virtqueue, avail, m_eventsbuf, pressed>>

Begin(t, c) ==
    /\ At(t, "idle") /\ busy = None
    /\ busy' = t
    /\ pc' = [pc EXCEPT ![t] = "fd"]
    /\ call' = [call EXCEPT ![t] = c]
    /\ result' = [result EXCEPT ![t] = "ok"]
    /\ UNCHANGED <<device, ring, lock, stuck, received>>

\* A blocking read waits like a poll of its file without a timeout.
vfs_read(t, n) ==
    Begin(t, [Idle EXCEPT !["name"] = "read", !["args"] = <<"input">>,
                          !["fds"] = <<"input">>, !["events"] = n])

sys_poll(t, p, ticks) ==
    Begin(t, [Idle EXCEPT !["name"] = "poll", !["args"] = p.fds,
                          !["fds"] = p.fds, !["timeout"] = p.timeout,
                          !["start"] = ticks, !["now"] = ticks])

Return(t, r) ==
    /\ result' = [result EXCEPT ![t] = r]
    /\ pc' = [pc EXCEPT ![t] = "idle"]
    /\ busy' = None
    /\ call' = [call EXCEPT ![t] = Idle]

\* sys$poll looks at the first of the descriptors that are left.
At_fd(t, kind) == At(t, "fd") /\ call[t].fds # <<>> /\ Head(call[t].fds) = kind

rest(t) == [call EXCEPT ![t]["fds"] = Tail(@)]

poll_closed(t) ==
    /\ At_fd(t, "closed")
    /\ Return(t, "ok")
    /\ UNCHANGED <<device, ring, lock, stuck, received>>

poll_negative(t) ==
    /\ At_fd(t, "negative")
    /\ call' = rest(t) /\ busy' = t
    /\ UNCHANGED <<device, ring, lock, stuck, pc, result, received>>

\* Some other file, about which nothing is known (external).
poll_other(t) ==
    /\ At_fd(t, "other")
    /\ \/ Return(t, "ok")
       \/ call' = rest(t) /\ busy' = t /\ UNCHANGED <<pc, result>>
    /\ UNCHANGED <<device, ring, lock, stuck, received>>

\* InputDevice::poll and get_next_event begin by taking the mutex; if it is
\* taken the thread yields and tries again.
mutex_take(t, place) ==
    /\ IF lock = None
         THEN /\ lock' = t
              /\ pc' = [pc EXCEPT ![t] = place]
              /\ busy' = t
         ELSE busy' = None /\ UNCHANGED <<lock, pc>>
    /\ UNCHANGED <<device, ring, stuck, call, result, received>>

poll_input(t) == At_fd(t, "input") /\ mutex_take(t, "poll_locked")

ready == ~is_empty

\* The rest of InputDevice::poll.
poll_input_answers(t) ==
    /\ At(t, "poll_locked")
    /\ lock' = None
    /\ IF ~ready
         THEN /\ call' = rest(t)
              /\ pc' = [pc EXCEPT ![t] = "fd"]
              /\ UNCHANGED <<busy, result>>
       ELSE IF call[t].name = "read"
         THEN pc' = [pc EXCEPT ![t] = "read"] /\ UNCHANGED <<busy, call, result>>
       ELSE Return(t, "ok")
    /\ UNCHANGED <<device, ring, stuck, received>>

timed_out_early(t) ==
    call[t].timeout > 0 /\ call[t].now - call[t].start >= call[t].timeout

\* A difference of two 32-bit clocks, computed and compared with 64 bits.
timed_out(t) ==
    call[t].timeout > 0 /\ call[t].now - call[t].start > call[t].timeout

\* None of the files was ready.
poll_again(t) ==
    /\ At(t, "fd") /\ call[t].fds = <<>>
    /\ IF timed_out(t)
         THEN Return(t, "timedout")
         ELSE /\ call' = [call EXCEPT ![t]["fds"] = call[t].args]
              /\ busy' = None
              /\ UNCHANGED <<pc, result>>
    /\ UNCHANGED <<device, ring, lock, stuck, received>>

\* The loop of InputDevice::read asks for one event after the other.
get_next_event(t) ==
    /\ At(t, "read") /\ call[t].got < call[t].events
    /\ mutex_take(t, "read_locked")

get_next_event_pops_locked(t) ==
    /\ At(t, "read_locked") /\ pop
    /\ received' = Append(received, data[read_pos])
    /\ call' = [call EXCEPT ![t]["got"] = @ + 1]
    /\ pc' = [pc EXCEPT ![t] = "read"]
    /\ UNCHANGED <<device, lock, stuck, busy, result>>

get_next_event_pops(t) ==
    /\ At(t, "read_locked") /\ pop
    /\ received' = Append(received, data[read_pos])
    /\ call' = [call EXCEPT ![t]["got"] = @ + 1]
    /\ lock' = None
    /\ pc' = [pc EXCEPT ![t] = "read"]
    /\ UNCHANGED <<device, stuck, busy, result>>

read_returns(t) ==
    /\ \/ At(t, "read") /\ call[t].got = call[t].events /\ UNCHANGED lock
       \/ At(t, "read_locked") /\ is_empty /\ lock' = None
    /\ Return(t, IF call[t].got = 0 THEN "empty" ELSE "ok")
    /\ UNCHANGED <<device, ring, stuck, received>>

-----------------------------------------------------------------------------
(* handle_irq: each used buffer is processed and made available again.     *)

KeysAt == {k \in DOMAIN new_used : m_eventsbuf[new_used[k]] # 0}

\* The key events among the used buffers: the n-th is the one up to which
\* there are n.
Keys ==
    [n \in 1 .. Cardinality(KeysAt) |->
       m_eventsbuf[new_used[CHOOSE k \in KeysAt :
                              Cardinality({j \in KeysAt : j <= k}) = n]]]

\* Push all of es, oldest first.
notify_events(es) ==
    LET n == Len(es)
        kept == IF count + n <= N THEN count + n ELSE N
        end == write_pos + n
    IN /\ data' = [p \in Positions |->
                     LET hits == {k \in 1 .. n : (write_pos + k - 1) % N = p}
                     IN IF hits = {} THEN data[p]
                        ELSE es[CHOOSE k \in hits : \A j \in hits : j <= k]]
       /\ write_pos' = end % N
       /\ count' = kept
       /\ read_pos' = (read_pos + (count + n - kept)) % N

\* mark_descriptor_as_available for each of ds.
made_available(ds) ==
    /\ avail' = avail \o ds
    /\ m_eventsbuf' = [d \in Descs |->
                         IF \E k \in DOMAIN ds : ds[k] = d THEN 0
                         ELSE m_eventsbuf[d]]

handle_irq_keeps_buffers ==
    /\ Interrupted /\ stuck = None
    /\ Keys = <<>> \/ lock = None
    /\ notify_events(Keys)
    /\ UNCHANGED avail
    /\ m_eventsbuf' = [d \in Descs |-> 0]
    /\ foreach_used_descriptor
    /\ in_irq' = TRUE
    /\ UNCHANGED <<queue, irq_status, lock, stuck, threads, pressed, received>>

handle_irq ==
    /\ Interrupted /\ stuck = None
    /\ Keys = <<>> \/ lock = None
    /\ notify_events(Keys)
    /\ made_available(new_used)
    /\ foreach_used_descriptor
    /\ in_irq' = TRUE
    /\ UNCHANGED <<queue, irq_status, lock, stuck, threads, pressed, received>>

first_key ==
    CHOOSE k \in DOMAIN new_used :
      /\ m_eventsbuf[new_used[k]] # 0
      /\ \A j \in 1 .. k - 1 : m_eventsbuf[new_used[j]] = 0

\* notify_event finds the mutex taken, by the very thread that the handler has
\* interrupted: the handler yields, and that thread never comes back.
handle_irq_deadlocks ==
    /\ Interrupted /\ stuck = None
    /\ Keys # <<>> /\ lock # None
    /\ stuck' = lock
    /\ busy' = None
    /\ made_available(SubSeq(new_used, 1, first_key - 1))
    /\ UNCHANGED <<virtqueue, ring, lock, pc, call, result, pressed, received>>

handle_irq_returns ==
    /\ handle_irq_ack
    /\ UNCHANGED <<ring, avail, m_eventsbuf, lock, stuck, threads, pressed,
                   received>>

-----------------------------------------------------------------------------
(* The device (external), and the clock.                                   *)

device_fills(key) ==
    /\ avail # <<>> /\ avail' = Tail(avail)
    /\ pressed < MaxKeys
    /\ pressed' = IF key THEN pressed + 1 ELSE pressed
    /\ m_eventsbuf' = [m_eventsbuf EXCEPT ![Head(avail)] =
                         IF key THEN pressed' ELSE 0]
    /\ put_used(Head(avail))
    /\ UNCHANGED <<queue, last_seen_used_idx, in_irq, ring, lock, stuck,
                   threads, received>>

tick(t) ==
    /\ call[t].timeout > 0
    /\ LET now == (call[t].now + 1) % ClockWrap
       IN call' = [call EXCEPT
            ![t]["now"] = now,
            ![t]["elapsed"] = IF @ < MaxElapsed THEN @ + 1 ELSE @,
            ![t]["wrapped"] = @ \/ now = 0]
    /\ UNCHANGED <<device, ring, lock, stuck, busy, pc, result, received>>

-----------------------------------------------------------------------------
ThreadNext(t) ==
    \/ poll_closed(t) \/ poll_negative(t) \/ poll_other(t)
    \/ poll_input(t) \/ poll_input_answers(t) \/ poll_again(t)
    \/ get_next_event(t) \/ get_next_event_pops(t) \/ read_returns(t)

HandlerNext == handle_irq \/ handle_irq_deadlocks \/ handle_irq_returns

Next ==
    \/ \E t \in Threads, n \in ReadSizes : vfs_read(t, n)
    \/ \E t \in Pollers, p \in Polls, ticks \in 0 .. ClockWrap - 1 :
         sys_poll(t, p, ticks)
    \/ \E t \in Threads : ThreadNext(t) \/ tick(t)
    \/ HandlerNext
    \/ \E key \in BOOLEAN : device_fills(key)

Spec == Init /\ [][Next]_vars

Fairness ==
    /\ WF_vars(HandlerNext)
    /\ \A t \in Threads : SF_vars(ThreadNext(t))
    /\ \A t \in Draining : SF_vars(\E n \in ReadSizes : vfs_read(t, n))

FairSpec == Spec /\ Fairness

-----------------------------------------------------------------------------
(* Properties                                                              *)

\* Of the buffers given to the device at first, each is with the device or
\* waits for the handler, which will see it: the ring never gets so full that
\* it looks empty.
BuffersConserved ==
    stuck = None =>
      LET buffers == avail \o new_used
      IN /\ Len(buffers) = Size - 1
         /\ \A j, k \in DOMAIN buffers : buffers[j] = buffers[k] => j = k

Notified == pressed - Len(Keys)

\* The ring has the latest key events and programs receive events in order and
\* once; an event is dropped only if as many later ones as the ring has places
\* were waiting.
EventsInOrder ==
    stuck = None =>
      /\ \A k \in 1 .. count : data[position(k)] = Notified - count + k
      /\ \A i, j \in DOMAIN received : i < j => received[i] < received[j]
      /\ \A k \in 1 .. Notified - count :
           \/ \E i \in DOMAIN received : received[i] = k
           \/ k + N <= Notified

\* A blocking read returns at least one event.
BlockingReadDelivers == \A t \in Threads : result[t] # "empty"

\* When sys$poll finds no file ready it gives up if and only if more time than
\* its timeout has really passed; only if the clock has wrapped since the call
\* began may it go on waiting.
PollTimesOut ==
    [][\A t \in Threads :
         LET over == call[t].elapsed > call[t].timeout
         IN (pc[t] = "fd" /\ call[t].fds = <<>> /\ call[t].timeout > 0
             /\ (pc'[t] = "idle" \/ call'[t].fds # <<>>))
              => /\ result'[t] = "timedout" => over
                 /\ over => result'[t] = "timedout" \/ call[t].wrapped]_vars

KeysWaiting == count > 0 \/ Keys # <<>>

\* When the keyboard pauses, a program that keeps reading gets all key events,
\* unless an interrupt is overlooked or the handler deadlocks.
KeysArrive ==
    (KeysWaiting /\ Draining # {})
      ~> (~KeysWaiting \/ Overlooked \/ stuck # None)

\* The buffers of the keyboard go round without loss, and vfs_read returns
\* from InputDevice::read with at least one event.
BuffersSound == TypeOK /\ BuffersConserved /\ BlockingReadDelivers
=============================================================================
