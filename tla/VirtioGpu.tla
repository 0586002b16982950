----------------------------- MODULE VirtioGpu -----------------------------
(***************************************************************************)
(* The display (kernel/drivers/char/virtiogpu.cpp): bringing the device up *)
(* and refreshing what it shows, by commands through the control queue.    *)
(*                                                                         *)
(* Programs draw into a framebuffer in memory; frame counts the drawings.  *)
(* refresh copies it to the device, then has the copy shown.  A thread     *)
(* sleeps for each answer in mutex_take, which yields, so that several     *)
(* threads have commands under way; busy is the thread that runs kernel    *)
(* code it does not share with others until it sleeps or returns.          *)
(***************************************************************************)
EXTENDS Virtqueue

CONSTANTS
    Threads,
    MaxFrame,       \* bound on drawings
    None

ASSUME VirtioGpuAssumption == None \notin Threads /\ MaxFrame \in Nat

VARIABLES
    driver,         \* "off", "init" or "ready"
    status,         \* the Status register, a set of bits
    wild,           \* m_pending_requests was not empty in malloc's memory
    m_pending_requests,
    commands,       \* what the device has to do: [head, kind]
    busy,
    pc,             \* pc[t]: the command t is at, or "idle"
    request,        \* request[t]: the one on the stack of cmd_send_receive
    result,         \* result[t]: what the last refresh returned, and how
                    \* recent the frame was when it was called
    resource,       \* the device's resource: how far it has been set up
    frame, copy, shown,
    halted

threads == <<busy, pc, request, result>>
display == <<resource, frame, copy, shown>>
vars == <<virtqueue, driver, status, wild, m_pending_requests, commands,
          threads, display, halted>>

Kinds == <<"info", "create", "attach", "scanout", "transfer", "flush">>

Kind == {Kinds[k] : k \in DOMAIN Kinds}

NoRequest == [head |-> Size, resp |-> Size, taken |-> FALSE, answer |-> "none"]

Request == [head : 0 .. Size, resp : 0 .. Size, taken : BOOLEAN,
            answer : {"none", "ok", "too_large", "error"}]

TypeOK ==
    /\ VirtqueueTypeOK
    /\ driver \in {"off", "init", "ready"}
    /\ status \subseteq {"acknowledge", "driver", "features_ok", "driver_ok",
                         "failed"}
    /\ wild \in BOOLEAN
    /\ m_pending_requests \subseteq Threads
    /\ commands \subseteq [head : Descs, kind : Kind]
    /\ busy \in Threads \cup {None}
    /\ pc \in [Threads -> Kind \cup {"idle"}]
    /\ request \in [Threads -> Request]
    /\ result \in [Threads -> [rc : {"none", "ok", "nomem", "io"},
                               wanted : 0 .. MaxFrame]]
    /\ resource \in {"none", "create", "attach", "scanout"}
    /\ {frame, copy, shown} \subseteq 0 .. MaxFrame
    /\ halted \in {"no", "panic", "kassert", "undefined"}

Init ==
    /\ virtq_alloc
    /\ driver = "off" /\ status = {}
    /\ wild \in BOOLEAN
    /\ m_pending_requests = {} /\ commands = {}
    /\ busy = None
    /\ pc = [t \in Threads |-> "idle"]
    /\ request = [t \in Threads |-> NoRequest]
    /\ result = [t \in Threads |-> [rc |-> "none", wanted |-> 0]]
    /\ resource = "none"
    /\ frame = 0 /\ copy = 0 /\ shown = 0
    /\ halted = "no"

-----------------------------------------------------------------------------
(* Threads.  While the handler runs, they do not.                          *)

Runs(t) == halted = "no" /\ ~in_irq /\ busy \in {t, None}

Halt(why) ==
    /\ halted' = why
    /\ UNCHANGED <<virtqueue, driver, status, wild, m_pending_requests,
                   commands, threads, display>>

\* devicemanager panics if init fails.  If the registers cannot be mapped,
\* init reports it to the device through a null pointer.
init_fails ==
    /\ halted = "no" /\ driver = "off"
    /\ Halt("undefined")

\* The queues are set up: if that fails freeing them "is not implemented".
init(t, found, queues) ==
    /\ Runs(t) /\ driver = "off"
    /\ LET s == virtio_util_do_generic_init_step(status, found)
       IN IF found = "ok" /\ queues
            THEN /\ status' = virtio_util_complete_init_step(s)
                 /\ driver' = "init"
                 /\ busy' = t
                 /\ pc' = [pc EXCEPT ![t] = "info"]
                 /\ UNCHANGED halted
            ELSE /\ status' = IF found = "ok" THEN s ELSE virtio_util_init_failure(s)
                 /\ halted' = "panic"
                 /\ UNCHANGED <<driver, busy, pc>>
    /\ UNCHANGED <<virtqueue, wild, m_pending_requests, commands, request,
                   result, display>>

\* ioctl FBIO_REFRESH of an open framebuffer.
refresh(t) ==
    /\ Runs(t) /\ busy = None /\ driver = "ready" /\ pc[t] = "idle"
    /\ busy' = t
    /\ pc' = [pc EXCEPT ![t] = "transfer"]
    /\ result' = [result EXCEPT ![t] = [rc |-> "none", wanted |-> frame]]
    /\ UNCHANGED <<virtqueue, driver, status, wild, m_pending_requests,
                   commands, request, display, halted>>

\* The order of setup_framebuffer, followed by that of refresh.
next_kind(k) ==
    IF k = "flush" THEN "idle"
    ELSE Kinds[1 + CHOOSE i \in DOMAIN Kinds : Kinds[i] = k]

\* A command has ended with rc: refresh and setup_framebuffer give up or go on
\* with the next command.
command_returns(t, rc) ==
    LET next == IF rc = "ok" THEN next_kind(pc[t]) ELSE "idle"
    IN /\ pc' = [pc EXCEPT ![t] = next]
       /\ busy' = IF next = "idle" THEN None ELSE t
       /\ IF driver = "init"
            THEN /\ driver' = IF rc = "ok" /\ next = "idle" THEN "ready"
                                                            ELSE driver
                 /\ status' = IF rc = "ok" THEN status
                              ELSE virtio_util_init_failure(status)
                 /\ halted' = IF rc = "ok" THEN "no" ELSE "panic"
                 /\ UNCHANGED result
            ELSE /\ result' = [result EXCEPT ![t]["rc"] =
                                 IF next = "idle" THEN rc ELSE @]
                 /\ UNCHANGED <<driver, status, halted>>
       /\ UNCHANGED <<used, last_seen_used_idx, irq_status, in_irq, wild,
                      m_pending_requests, commands, display>>

\* cmd_send_receive up to mutex_take.
Sending(t) == Runs(t) /\ busy = t /\ pc[t] # "idle" /\ ~request[t].taken

\* Two descriptors are allocated, chained, and handed to the device.
cmd_send_receive(t) ==
    /\ Sending(t)
    /\ LET q1 == virtio_virtq_alloc_desc(queue)
           head == allocated(queue)
           resp == allocated(q1)
       IN /\ {head, resp} \subseteq Descs /\ ~wild
          /\ queue' = chained(chained(virtio_virtq_alloc_desc(q1), head, resp),
                              resp, 0)
          /\ request' = [request EXCEPT ![t] =
                           [head |-> head, resp |-> resp, taken |-> TRUE,
                            answer |-> "none"]]
          /\ commands' = commands \cup {[head |-> head, kind |-> pc[t]]}
    /\ m_pending_requests' = m_pending_requests \cup {t}
    /\ busy' = None
    /\ UNCHANGED <<used, last_seen_used_idx, irq_status, in_irq, driver,
                   status, wild, pc, result, display, halted>>

\* add of IntrusiveLinkedList writes to what the list calls its first element.
cmd_send_receive_wild(t) ==
    /\ Sending(t) /\ wild
    /\ Halt("undefined")

cleanup_half(q, head, resp) == virtio_virtq_free_desc(q, head)

\* The descriptors that were allocated are freed.
cleanup(q, head, resp) ==
    virtio_virtq_free_desc(virtio_virtq_free_desc(q, head), resp)

\* Too few descriptors, or no page for the command.
cmd_send_receive_nomem(t) ==
    /\ Sending(t)
    /\ LET q1 == virtio_virtq_alloc_desc(queue)
       IN queue' = cleanup(virtio_virtq_alloc_desc(q1), allocated(queue),
                           allocated(q1))
    /\ request' = request
    /\ command_returns(t, "nomem")

Answered(t) == Runs(t) /\ pc[t] # "idle" /\ busy = None
               /\ request[t].head # Size /\ ~request[t].taken

\* The lock has been released by the handler: the response is looked at.
mutex_take_succeeds_unlooked(t) ==
    /\ Answered(t)
    /\ queue' = cleanup(queue, request[t].head, request[t].resp)
    /\ request' = [request EXCEPT ![t] = NoRequest]
    /\ request[t].answer # "too_large"
    /\ command_returns(t, "ok")

mutex_take_succeeds(t) ==
    /\ Answered(t)
    /\ queue' = cleanup(queue, request[t].head, request[t].resp)
    /\ request' = [request EXCEPT ![t] = NoRequest]
    /\ request[t].answer # "too_large"
    /\ command_returns(t, IF request[t].answer = "ok" THEN "ok" ELSE "io")

\* A display larger than the storage for its frames.
alloc_framebuffer_storage_asserts(t) ==
    /\ Answered(t) /\ request[t].answer = "too_large"
    /\ Halt("kassert")

draw ==
    /\ halted = "no" /\ ~in_irq /\ busy = None /\ driver = "ready"
    /\ frame < MaxFrame /\ frame' = frame + 1
    /\ UNCHANGED <<virtqueue, driver, status, wild, m_pending_requests,
                   commands, threads, resource, copy, shown, halted>>

-----------------------------------------------------------------------------
(* handle_irq                                                              *)

\* Each request whose buffer was used is unlinked and its lock released.
handle_irq ==
    /\ halted = "no" /\ Interrupted
    /\ LET done == {t \in m_pending_requests :
                      \E k \in DOMAIN new_used : new_used[k] = request[t].head}
       IN /\ m_pending_requests' = m_pending_requests \ done
          /\ request' = [t \in Threads |->
                           [request[t] EXCEPT !["taken"] = @ /\ t \notin done]]
    /\ foreach_used_descriptor
    /\ in_irq' = TRUE
    /\ UNCHANGED <<queue, irq_status, driver, status, wild, commands,
                   busy, pc, result, display, halted>>

handle_irq_returns ==
    /\ halted = "no" /\ handle_irq_ack
    /\ UNCHANGED <<driver, status, wild, m_pending_requests, commands, threads,
                   display, halted>>

-----------------------------------------------------------------------------
(* The device (external).  It takes commands in any order and may fail.    *)

Perform(kind) ==
    /\ resource' = IF kind \in {"create", "attach", "scanout"} THEN kind
                                                               ELSE resource
    /\ copy' = IF kind = "transfer" THEN frame ELSE copy
    /\ shown' = IF kind = "flush" THEN copy ELSE shown
    /\ UNCHANGED frame

device_answers(c, answer) ==
    /\ halted = "no" /\ c \in commands
    /\ commands' = commands \ {c}
    /\ answer = "too_large" => c.kind = "info"
    /\ IF answer = "ok" THEN Perform(c.kind) ELSE UNCHANGED display
    /\ request' = [t \in Threads |->
                     IF request[t].head = c.head
                       THEN [request[t] EXCEPT !["answer"] = answer]
                       ELSE request[t]]
    /\ put_used(c.head)
    /\ UNCHANGED <<queue, last_seen_used_idx, in_irq, driver, status, wild,
                   m_pending_requests, busy, pc, result, halted>>

-----------------------------------------------------------------------------
ThreadNext(t) ==
    \/ cmd_send_receive(t) \/ cmd_send_receive_wild(t)
    \/ cmd_send_receive_nomem(t)
    \/ mutex_take_succeeds(t) \/ alloc_framebuffer_storage_asserts(t)

HandlerNext == handle_irq \/ handle_irq_returns

DeviceNext(d) ==
    \E c \in commands, answer \in {"ok", "too_large", "error"} :
      c.head = d /\ device_answers(c, answer)

Next ==
    \/ init_fails
    \/ \E t \in Threads, found \in Negotiations, queues \in BOOLEAN :
         init(t, found, queues)
    \/ \E t \in Threads : refresh(t) \/ ThreadNext(t)
    \/ draw
    \/ HandlerNext
    \/ \E d \in Descs : DeviceNext(d)

Spec == Init /\ [][Next]_vars

\* The device answers every command, the CPU takes a pending interrupt, and
\* the round robin lets a thread whose answer has come run when no other
\* thread is in the middle of something.
Fairness ==
    /\ WF_vars(HandlerNext)
    /\ \A d \in Descs : WF_vars(DeviceNext(d))
    /\ \A t \in Threads : SF_vars(ThreadNext(t))

FairSpec == Spec /\ Fairness

-----------------------------------------------------------------------------
(* Properties                                                              *)

Waiting == {t \in Threads : request[t].head # Size}

Held(t) == {request[t].head, request[t].resp}

\* With commands of several threads under way, and some refused for lack of
\* memory, every descriptor is free or belongs to exactly one request.
DescriptorsConserved ==
    /\ free_list[Size] = Size
    /\ FreeDescs \cup UNION {Held(t) : t \in Waiting} = Descs
    /\ \A t \in Waiting :
         /\ Cardinality(Held(t)) = 2 /\ Held(t) \cap FreeDescs = {}
         /\ \A u \in Waiting \ {t} : Held(t) \cap Held(u) = {}

\* A refresh that succeeds has put on the screen all that was drawn before it
\* was called, whatever other threads and the device did meanwhile.
RefreshShowsFrame ==
    \A t \in Threads : result[t].rc = "ok" => shown >= result[t].wanted

Needs(kind) ==
    CASE kind \in {"info", "create"} -> "none"
      [] kind = "attach" -> "create"
      [] kind = "scanout" -> "attach"
      [] kind \in {"transfer", "flush"} -> "scanout"

\* The device is live and its resource has been set up as far as a command
\* needs it, whenever it has a command to do.
SetUpFirst ==
    \A c \in commands :
      resource = Needs(c.kind) /\ "driver_ok" \in status
      /\ "failed" \notin status

\* A used buffer is overlooked only if its interrupt came while the handler
\* was dealing with the buffer of another thread.
OverlookedByTwo ==
    [][Overlooked' /\ ~Overlooked => Cardinality(Waiting) > 1]_vars

\* Every command returns, unless its answer is overlooked or the kernel halts.
CommandReturns ==
    \A t \in Threads :
      pc[t] # "idle" ~> (pc[t] = "idle" \/ Overlooked \/ halted # "no")

\* The queue stays sound with the commands of several threads under way:
\* descriptors are conserved, and the device never has a command that it is
\* not set up for.
CommandsSound == TypeOK /\ DescriptorsConserved /\ SetUpFirst
=============================================================================
