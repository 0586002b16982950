-------------------------- MODULE VirtioGpuProofs --------------------------
(***************************************************************************)
(* The display driver, for every size of its queue, every set of threads   *)
(* and every number of drawings: descriptors are conserved, the device has *)
(* only commands it is set up for, a refresh that succeeds shows what was  *)
(* drawn before it, and an answer is overlooked only between two threads.  *)
(***************************************************************************)
EXTENDS VirtioGpu, VirtqueueProofs

-----------------------------------------------------------------------------
(* The descriptors of a command                                            *)

\* An allocation that does not fail takes a descriptor that was free.
LEMMA TakeFree ==
    ASSUME NEW q \in Queues, NEW n, NEW F, Free(q, n, F), allocated(q) \in Descs
    PROVE  /\ allocated(q) \in F
           /\ virtio_virtq_alloc_desc(q) \in Queues
           /\ Free(virtio_virtq_alloc_desc(q), n - 1, F \ {allocated(q)})
           /\ n \in Nat
<1>1. PICK s : FreeChain(q, n, s)
  BY DEF Free
<1>2. Size \notin Descs
  BY VirtqueueAssumption DEF Descs
<1>3. n \in Nat /\ n # 0
  BY <1>1, <1>2 DEF FreeChain, allocated
<1>4. n > 0
  BY <1>3
<1> QED
  BY <1>3, <1>4, TakeOne

\* cmd_send_receive takes two free descriptors, and chaining them does not
\* disturb the others.
LEMMA TakePair ==
    ASSUME NEW q \in Queues, NEW O, Partition(q, O),
           allocated(q) \in Descs, allocated(virtio_virtq_alloc_desc(q)) \in Descs
    PROVE  LET q1 == virtio_virtq_alloc_desc(q)
               q2 == virtio_virtq_alloc_desc(q1)
               h == allocated(q)
               d == allocated(q1)
               r == chained(chained(q2, h, d), d, 0)
           IN /\ h # d /\ h \notin O /\ d \notin O
              /\ r \in Queues /\ Partition(r, O \cup {h, d})
<1> DEFINE q1 == virtio_virtq_alloc_desc(q)
           q2 == virtio_virtq_alloc_desc(q1)
           h == allocated(q)
           d == allocated(q1)
           r1 == chained(q2, h, d)
           r == chained(r1, d, 0)
<1>1. PICK n, F : Free(q, n, F) /\ F \cap O = {} /\ F \cup O = Descs
  BY DEF Partition
<1> DEFINE left == (F \ {h}) \ {d}
<1>2. 0 \in 0 .. Size /\ Descs \subseteq 0 .. Size
  BY VirtqueueAssumption DEF Descs
<1>3. h \in F /\ h \in Descs /\ d \in Descs /\ q1 \in Queues /\ Free(q1, n - 1, F \ {h})
  BY <1>1, TakeFree
<1> HIDE DEF q1, h
<1>4. d \in F \ {h} /\ q2 \in Queues /\ Free(q2, (n - 1) - 1, left)
  BY <1>3, TakeFree
<1> HIDE DEF q2, d
<1>5. h \notin left /\ d \notin left /\ h \in 0 .. Size /\ d \in 0 .. Size
  BY <1>2, <1>3
<1> HIDE DEF left
<1>6. r1 \in Queues /\ Free(r1, (n - 1) - 1, left)
  BY <1>3, <1>4, <1>5, ChainOne
<1> HIDE DEF r1
<1>7. r \in Queues /\ Free(r, (n - 1) - 1, left)
  BY <1>2, <1>3, <1>5, <1>6, ChainOne
<1> HIDE DEF r
<1>8. left \cap (O \cup {h, d}) = {} /\ left \cup (O \cup {h, d}) = Descs
  BY <1>1, <1>3, <1>4 DEF left
<1>9. Partition(r, O \cup {h, d})
  BY <1>7, <1>8, Zenon DEF Partition
<1>10. h # d /\ h \notin O /\ d \notin O
  BY <1>1, <1>3, <1>4
<1> QED
  BY <1>7, <1>9, <1>10 DEF q1, q2, h, d, r1, r

\* cleanup gives both descriptors back.
LEMMA GivePair ==
    ASSUME NEW q \in Queues, NEW O, NEW h \in Descs, NEW d \in Descs, h # d,
           h \notin O, d \notin O, Partition(q, O \cup {h, d})
    PROVE  cleanup(q, h, d) \in Queues /\ Partition(cleanup(q, h, d), O)
<1> DEFINE q1 == virtio_virtq_free_desc(q, h)
           q2 == virtio_virtq_free_desc(q1, d)
<1>1. PICK n, F : /\ Free(q, n, F)
                  /\ F \cap (O \cup {h, d}) = {} /\ F \cup (O \cup {h, d}) = Descs
  BY DEF Partition
<1>2. q1 \in Queues /\ Free(q1, n + 1, F \cup {h})
  <2>1. h \notin F
    BY <1>1
  <2> QED
    BY <1>1, <2>1, GiveOne
<1> HIDE DEF q1
<1>3. q2 \in Queues /\ Free(q2, (n + 1) + 1, (F \cup {h}) \cup {d})
  <2>1. d \notin F \cup {h}
    BY <1>1
  <2> QED
    BY <1>2, <2>1, GiveOne
<1> HIDE DEF q2
<1> DEFINE G == (F \cup {h}) \cup {d}
<1>4. G \cap O = {} /\ G \cup O = Descs
  BY <1>1
<1> HIDE DEF G
<1>5. Free(q2, (n + 1) + 1, G)
  BY <1>3 DEF G
<1>6. Partition(q2, O)
  BY <1>4, <1>5, Zenon DEF Partition
<1> QED
  BY <1>3, <1>6 DEF q1, q2, cleanup

\* A command that is refused puts back as many descriptors as it got.
LEMMA GiveUp ==
    ASSUME NEW q \in Queues, NEW O, Partition(q, O)
    PROVE  LET q1 == virtio_virtq_alloc_desc(q)
               r == cleanup(virtio_virtq_alloc_desc(q1), allocated(q), allocated(q1))
           IN r \in Queues /\ Partition(r, O)
<1> DEFINE q1 == virtio_virtq_alloc_desc(q)
           q2 == virtio_virtq_alloc_desc(q1)
           h == allocated(q)
           d == allocated(q1)
           r == cleanup(q2, h, d)
<1>1. PICK n, F : Free(q, n, F) /\ F \cap O = {} /\ F \cup O = Descs
  BY DEF Partition
<1>2. CASE h \notin Descs
  <2>1. q1 = q
    BY <1>2 DEF virtio_virtq_alloc_desc
  <2>2. d = h /\ q2 = q
    BY <1>2, <2>1 DEF virtio_virtq_alloc_desc
  <2>3. r = q
    BY <1>2, <2>2 DEF cleanup, virtio_virtq_free_desc
  <2> QED
    BY <2>3
<1>3. CASE h \in Descs
  <2>1. h \in F /\ q1 \in Queues /\ Free(q1, n - 1, F \ {h})
    BY <1>1, <1>3, TakeFree
  <2> HIDE DEF q1, h
  <2>2. CASE d \notin Descs
    <3> DEFINE r1 == virtio_virtq_free_desc(q1, h)
    <3>1. q2 = q1
      BY <2>2 DEF virtio_virtq_alloc_desc
    <3>2. r = r1
      BY <2>2, <3>1 DEF cleanup, virtio_virtq_free_desc
    <3>3. h \notin F \ {h}
      OBVIOUS
    <3>4. r1 \in Queues /\ Free(r1, (n - 1) + 1, (F \ {h}) \cup {h})
      BY <1>3, <2>1, <3>3, GiveOne
    <3>5. (F \ {h}) \cup {h} = F
      BY <2>1
    <3> HIDE DEF r1, r
    <3>6. Free(r1, (n - 1) + 1, F)
      BY <3>4, <3>5
    <3>7. Partition(r1, O)
      BY <1>1, <3>6, Zenon DEF Partition
    <3>8. r \in Queues /\ Partition(r, O)
      BY <3>2, <3>4, <3>7
    <3> QED
      BY <3>8 DEF r, q1, h
  <2>3. CASE d \in Descs
    <3>1. d \in F \ {h} /\ q2 \in Queues /\ Free(q2, (n - 1) - 1, (F \ {h}) \ {d})
      BY <2>1, <2>3, TakeFree
    <3> HIDE DEF q2, d
    <3> DEFINE left == (F \ {h}) \ {d}
    <3>2. left \cap (O \cup {h, d}) = {} /\ left \cup (O \cup {h, d}) = Descs
      BY <1>1, <2>1, <3>1
    <3>3. h # d /\ h \notin O /\ d \notin O
      BY <1>1, <2>1, <3>1
    <3> HIDE DEF left, r
    <3>4. Partition(q2, O \cup {h, d})
      <4>1. Free(q2, (n - 1) - 1, left)
        BY <3>1 DEF left
      <4> QED
        BY <3>2, <4>1, Zenon DEF Partition
    <3>5. cleanup(q2, h, d) \in Queues /\ Partition(cleanup(q2, h, d), O)
      BY <1>3, <2>3, <3>1, <3>3, <3>4, GivePair
    <3> QED
      BY <3>5 DEF r, q1, q2, h, d
  <2> QED
    BY <2>2, <2>3
<1> QED
  BY <1>2, <1>3

-----------------------------------------------------------------------------
(* The order of the commands                                               *)

\* The commands by name.
LEMMA KindIs == Kind = {"info", "create", "attach", "scanout", "transfer", "flush"}
<1>1. DOMAIN Kinds = 1 .. 6
  BY DEF Kinds
<1>2. 1 .. 6 = {1, 2, 3, 4, 5, 6}
  OBVIOUS
<1>3. Kind = {Kinds[1], Kinds[2], Kinds[3], Kinds[4], Kinds[5], Kinds[6]}
  BY <1>1, <1>2 DEF Kind
<1> QED
  BY <1>3 DEF Kinds

\* The order in which a thread sends them.
LEMMA NextKind ==
    /\ next_kind("info") = "create" /\ next_kind("create") = "attach"
    /\ next_kind("attach") = "scanout" /\ next_kind("scanout") = "transfer"
    /\ next_kind("transfer") = "flush" /\ next_kind("flush") = "idle"
<1>1. DOMAIN Kinds = {1, 2, 3, 4, 5, 6}
  BY DEF Kinds
<1>2. /\ Kinds[1] = "info" /\ Kinds[2] = "create" /\ Kinds[3] = "attach"
      /\ Kinds[4] = "scanout" /\ Kinds[5] = "transfer" /\ Kinds[6] = "flush"
  BY DEF Kinds
<1> DEFINE at(k) == CHOOSE i \in DOMAIN Kinds : Kinds[i] = k
<1>3. /\ at("info") = 1 /\ at("create") = 2 /\ at("attach") = 3
      /\ at("scanout") = 4 /\ at("transfer") = 5
  BY <1>1, <1>2
<1> HIDE DEF at
<1>4. \A k : k # "flush" => next_kind(k) = Kinds[1 + at(k)]
  BY DEF next_kind, at
<1>5. next_kind("flush") = "idle"
  BY DEF next_kind
<1> QED
  BY <1>2, <1>3, <1>4, <1>5
-----------------------------------------------------------------------------
(* The inductive invariant                                                 *)

\* The descriptors of the requests under way.
Owned == {d \in Descs : \E t \in Waiting : d \in Held(t)}

\* A thread has a request only while it sleeps for its answer.  The request
\* is linked as long as its lock is taken, which the handler releases only
\* once there is an answer.
OneRequest(t) ==
    LET r == request[t]
    IN /\ r.head = Size => ~r.taken /\ r.answer = "none" /\ t \notin m_pending_requests
       /\ pc[t] = "idle" => r.head = Size /\ busy # t
       /\ r.head # Size =>
            /\ r.head \in Descs /\ r.resp \in Descs /\ r.head # r.resp
            /\ pc[t] # "idle" /\ busy # t
            /\ r.taken <=> t \in m_pending_requests
            /\ ~r.taken => r.answer # "none"

Apart == \A t, u \in Waiting : t # u => Held(t) \cap Held(u) = {}

\* Command c is the one that t sleeps for.
Asked(c, t) ==
    /\ request[t].head = c.head /\ pc[t] = c.kind
    /\ request[t].taken /\ request[t].answer = "none"

Requests ==
    /\ \A t \in Threads : OneRequest(t)
    /\ Apart
    /\ \A c \in commands : \E t \in Threads : Asked(c, t)

\* d is the head of a request that was answered and is still linked.
Used(d) ==
    \E t \in Threads :
      request[t].head = d /\ request[t].taken /\ request[t].answer # "none"

\* The used buffers that the handler has yet to visit are of different
\* requests; the handler runs because it has found one.
Ring ==
    /\ \A k \in DOMAIN new_used : Used(new_used[k])
    /\ \A j, k \in DOMAIN new_used : new_used[j] = new_used[k] => j = k
    /\ in_irq => irq_status /\ \E t \in Waiting : ~request[t].taken
    /\ irq_status /\ ~in_irq => new_used # <<>>

\* The device's resource once it has performed a command.
After(kind) ==
    IF kind \in {"create", "attach", "scanout"} THEN kind ELSE Needs(kind)

\* One thread brings the device up, command after command.
Stage ==
    /\ driver = "off" => resource = "none" /\ \A t \in Threads : pc[t] = "idle"
    /\ driver = "init" =>
         /\ \A t, u \in Threads : pc[t] # "idle" /\ pc[u] # "idle" => t = u
         /\ \A t \in Threads : pc[t] # "idle" =>
              /\ request[t].answer = "none" => resource = Needs(pc[t])
              /\ request[t].answer = "ok" => resource = After(pc[t])
    /\ driver = "ready" =>
         /\ resource = "scanout"
         /\ \A t \in Threads : pc[t] \in {"idle", "transfer", "flush"}
    /\ driver # "off" => "driver_ok" \in status
    /\ "failed" \in status => halted # "no" /\ commands = {}

\* How far the frame that t wants shown has come.
FrameOf(t) ==
    LET w == result[t].wanted
    IN /\ w <= frame
       /\ driver # "ready" => w = 0
       /\ result[t].rc = "ok" => shown >= w
       /\ pc[t] = "flush" => copy >= w
       /\ pc[t] = "transfer" /\ request[t].answer = "ok" => copy >= w
       /\ pc[t] = "flush" /\ request[t].answer = "ok" => shown >= w

Frames == shown <= copy /\ copy <= frame /\ \A t \in Threads : FrameOf(t)

IInv ==
    /\ TypeOK /\ Partition(queue, Owned)
    /\ Requests /\ Ring /\ Stage /\ Frames

-----------------------------------------------------------------------------
(* Facts about states                                                      *)

\* What TypeOK says of a thread.
LEMMA ThreadTypes ==
    ASSUME TypeOK, NEW t \in Threads
    PROVE  /\ request[t] \in Request /\ pc[t] \in Kind \cup {"idle"}
           /\ request[t].head \in 0 .. Size /\ request[t].resp \in 0 .. Size
           /\ request[t].taken \in BOOLEAN
           /\ request[t].answer \in {"none", "ok", "too_large", "error"}
           /\ result[t].rc \in {"none", "ok", "nomem", "io"}
           /\ result[t].wanted \in Nat
BY VirtioGpuAssumption DEF TypeOK, Request

\* The threads that have a request have descriptors, not the value Size that
\* stands for none.
LEMMA WaitingThreads ==
    ASSUME Requests, NEW t \in Threads
    PROVE  /\ t \in Waiting <=> request[t].head # Size
           /\ t \in Waiting <=> request[t].head \in Descs
           /\ t \in Waiting => Held(t) \subseteq Owned /\ Held(t) \subseteq Descs
<1>1. Size \notin Descs
  BY VirtqueueAssumption DEF Descs
<1>2. OneRequest(t)
  BY DEF Requests
<1>3. t \in Waiting <=> request[t].head # Size
  BY DEF Waiting
<1>4. t \in Waiting <=> request[t].head \in Descs
  BY <1>1, <1>2, <1>3 DEF OneRequest
<1>5. t \in Waiting => Held(t) \subseteq Descs
  BY <1>2, <1>3 DEF OneRequest, Held
<1> QED
  BY <1>3, <1>4, <1>5 DEF Owned

\* A head belongs to one thread.
LEMMA SameHead ==
    ASSUME Requests, NEW t \in Threads, NEW u \in Threads,
           request[t].head = request[u].head, request[t].head # Size
    PROVE  t = u
<1>1. t \in Waiting /\ u \in Waiting
  BY DEF Waiting
<1>2. request[t].head \in Held(t) \cap Held(u)
  BY DEF Held
<1> QED
  BY <1>1, <1>2 DEF Requests, Apart

\* The device has no command before the driver has sent one.
LEMMA NoCommands ==
    ASSUME TypeOK, Requests, \A t \in Threads : pc[t] = "idle" \/ ~request[t].taken
    PROVE  commands = {}
<1> SUFFICES ASSUME NEW c \in commands PROVE FALSE
  OBVIOUS
<1>1. PICK t \in Threads : Asked(c, t)
  BY DEF Requests
<1>2. pc[t] \in Kind /\ request[t].taken
  BY <1>1 DEF Asked, TypeOK
<1>3. pc[t] # "idle"
  BY <1>2, KindIs
<1> QED
  BY <1>2, <1>3

\* There is room in the used ring for the answer to a command.
LEMMA Room ==
    ASSUME TypeOK, Requests, Ring, commands # {}
    PROVE  Len(new_used) \in Nat /\ Len(new_used) < Size - 1
<1> DEFINE n == Len(new_used)
<1>1. VirtqueueTypeOK /\ Size \in Nat \ {0} /\ Size \notin Descs
  BY VirtqueueAssumption DEF TypeOK, Descs
<1>2. PICK c \in commands, t \in Threads : Asked(c, t)
  BY DEF Requests
<1>3. c.head \in Descs
  BY DEF TypeOK
<1> DEFINE h == request[t].head
           d == request[t].resp
           S == Descs \ {h}
           T == S \ {d}
<1>4. h \in Descs /\ d \in Descs /\ h # d /\ t \in Waiting
  <2>1. h \in Descs
    BY <1>2, <1>3 DEF Asked
  <2> QED
    BY <1>1, <2>1 DEF Requests, OneRequest, Waiting
<1>5. IsFiniteSet(Descs) /\ Cardinality(Descs) = Size
  BY <1>1, FS_Interval DEF Descs
<1>6. IsFiniteSet(S) /\ Cardinality(S) = Size - 1
  BY <1>4, <1>5, FS_RemoveElement
<1>7. IsFiniteSet(T) /\ Cardinality(T) = Size - 2
  <2>1. d \in S
    BY <1>4
  <2> HIDE DEF S, d
  <2>2. IsFiniteSet(T) /\ Cardinality(T) = (Size - 1) - 1
    BY <1>6, <2>1, FS_RemoveElement
  <2> QED
    BY <1>1, <2>2
<1>8. n \in Nat /\ DOMAIN new_used = 1 .. n /\ new_used \in [1 .. n -> Descs]
  <2>1. new_used \in Seq(Descs) /\ n \in 0 .. Size - 1 /\ DOMAIN new_used = 1 .. n
    BY <1>1, NewUsed
  <2> QED
    BY <1>1, <2>1
<1>9. ASSUME NEW k \in 1 .. n PROVE new_used[k] \in T
  <2>1. PICK u \in Threads : /\ request[u].head = new_used[k]
                             /\ request[u].answer # "none"
    BY <1>8 DEF Ring, Used
  <2>2. u # t
    BY <1>2, <2>1 DEF Asked
  <2>3. new_used[k] \in Descs
    BY <1>8
  <2>4. u \in Waiting
    BY <1>1, <2>1, <2>3 DEF Waiting
  <2>5. Held(t) \cap Held(u) = {}
    BY <1>4, <2>2, <2>4 DEF Requests, Apart
  <2> QED
    BY <2>1, <2>3, <2>5 DEF Held
<1>10. new_used \in Injection(1 .. n, T)
  <2> HIDE DEF T
  <2>1. new_used \in [1 .. n -> T]
    BY <1>8, <1>9
  <2> QED
    BY <1>8, <2>1 DEF Ring, Injection, IsInjective
<1> HIDE DEF T
<1>11. Cardinality(1 .. n) <= Cardinality(T)
  BY <1>7, <1>10, FS_Injection
<1>12. Cardinality(1 .. n) = n
  BY <1>8, FS_Interval
<1> QED
  BY <1>1, <1>7, <1>8, <1>11, <1>12

-----------------------------------------------------------------------------
(* The steps                                                               *)

\* At the start nothing is under way.
LEMMA InitInvariant == Init => IInv
<1> SUFFICES ASSUME Init PROVE IInv
  OBVIOUS
<1>1. VirtqueueTypeOK /\ Partition(queue, {}) /\ new_used = <<>>
  BY AllFree DEF Init
<1>2. Size \in Nat \ {0} /\ MaxFrame \in Nat
  BY VirtqueueAssumption, VirtioGpuAssumption
<1>3. NoRequest \in Request
  BY <1>2 DEF NoRequest, Request
<1>4. TypeOK
  <2>1. request \in [Threads -> Request] /\ pc \in [Threads -> Kind \cup {"idle"}]
    BY <1>3 DEF Init
  <2>2. result \in [Threads -> [rc : {"none", "ok", "nomem", "io"},
                                wanted : 0 .. MaxFrame]]
    BY <1>2 DEF Init
  <2>3. {frame, copy, shown} \subseteq 0 .. MaxFrame
    BY <1>2 DEF Init
  <2> QED
    BY <1>1, <2>1, <2>2, <2>3 DEF Init, TypeOK
<1>5. \A t \in Threads :
        /\ request[t].head = Size /\ request[t].taken = FALSE
        /\ request[t].answer = "none" /\ pc[t] = "idle"
        /\ result[t].rc = "none" /\ result[t].wanted = 0
  BY DEF Init, NoRequest
<1>6. Waiting = {} /\ Owned = {}
  BY <1>5 DEF Waiting, Owned
<1>7. Requests
  <2>1. \A t \in Threads : OneRequest(t)
    BY <1>5, VirtioGpuAssumption DEF Init, OneRequest
  <2> QED
    BY <1>6, <2>1 DEF Init, Requests, Apart
<1>8. Ring
  <2>1. ~irq_status /\ ~in_irq
    BY DEF Init, virtq_alloc
  <2> QED
    BY <1>1, <2>1 DEF Ring
<1>9. Stage
  BY <1>5 DEF Init, Stage
<1>10. Frames
  BY <1>5 DEF Init, Frames, FrameOf
<1>11. Partition(queue, Owned)
  BY <1>1, <1>6
<1> QED
  BY <1>4, <1>7, <1>8, <1>9, <1>10, <1>11 DEF IInv

\* A step that leaves the queue and the requests alone.
LEMMA SameQueue ==
    ASSUME IInv,
           UNCHANGED <<queue, used_idx, used_ring, last_seen_used_idx, irq_status,
                       in_irq, request>>
    PROVE  Partition(queue, Owned)' /\ Ring' /\ Apart'
<1>1. Owned' = Owned /\ queue' = queue
  BY DEF Owned, Waiting, Held
<1>2. Partition(queue, Owned)'
  BY <1>1 DEF IInv
<1>3. new_used' = new_used
  BY DEF new_used, used_slot
<1>4. Ring'
  BY <1>3 DEF IInv, Ring, Used, Waiting
<1>5. Apart'
  BY DEF IInv, Requests, Apart, Waiting, Held
<1> QED
  BY <1>2, <1>4, <1>5

\* A step that changes only whether the kernel runs.
LEMMA SameStep ==
    ASSUME IInv,
           UNCHANGED <<queue, used_idx, used_ring, last_seen_used_idx, irq_status,
                       in_irq, driver, status, wild, m_pending_requests, commands,
                       busy, pc, request, result, resource, frame, copy, shown>>,
           halted' \in {"panic", "kassert", "undefined"} \/ halted' = halted
    PROVE  IInv'
<1>1. TypeOK'
  <2>1. halted' \in {"no", "panic", "kassert", "undefined"}
    BY DEF IInv, TypeOK
  <2> QED
    BY <2>1 DEF IInv, TypeOK, VirtqueueTypeOK
<1>2. Partition(queue, Owned)' /\ Ring' /\ Apart'
  BY SameQueue
<1>3. Requests'
  <2>1. \A t \in Threads : OneRequest(t)'
    BY DEF IInv, Requests, OneRequest
  <2>2. (\A c \in commands : \E t \in Threads : Asked(c, t))'
    BY DEF IInv, Requests, Asked
  <2> QED
    BY <1>2, <2>1, <2>2 DEF Requests
<1>4. Stage'
  BY DEF IInv, Stage
<1>5. Frames'
  BY DEF IInv, Frames, FrameOf
<1> QED
  BY <1>1, <1>2, <1>3, <1>4, <1>5 DEF IInv

\* The kernel halts.
LEMMA HaltStep ==
    ASSUME IInv, NEW why \in {"panic", "kassert", "undefined"}, Halt(why)
    PROVE  IInv'
<1>1. UNCHANGED <<queue, used_idx, used_ring, last_seen_used_idx, irq_status,
                  in_irq, driver, status, wild, m_pending_requests, commands,
                  busy, pc, request, result, resource, frame, copy, shown>>
      /\ halted' = why
  BY DEF Halt, virtqueue, used, threads, display
<1> QED
  BY <1>1, SameStep

\* The driver brings the device up.
LEMMA InitStep ==
    ASSUME IInv, NEW t \in Threads, NEW found \in Negotiations,
           NEW queues \in BOOLEAN, init(t, found, queues)
    PROVE  IInv'
<1> DEFINE s == virtio_util_do_generic_init_step(status, found)
           ready == found = "ok" /\ queues
<1>1. /\ halted = "no" /\ ~in_irq /\ busy \in {t, None} /\ driver = "off"
      /\ ready => /\ status' = s \cup {"driver_ok"} /\ driver' = "init"
                  /\ busy' = t /\ pc' = [pc EXCEPT ![t] = "info"]
                  /\ halted' = halted
      /\ ~ready => /\ status' = IF found = "ok" THEN s ELSE s \cup {"failed"}
                   /\ halted' = "panic"
                   /\ driver' = driver /\ busy' = busy /\ pc' = pc
  BY DEF init, Runs, virtio_util_complete_init_step, virtio_util_init_failure
<1>2. UNCHANGED <<queue, used_idx, used_ring, last_seen_used_idx, irq_status,
                  in_irq, wild, m_pending_requests, commands, request, result,
                  resource, frame, copy, shown>>
  BY DEF init, virtqueue, used, display
<1>3. s \subseteq {"acknowledge", "driver", "features_ok", "driver_ok", "failed"}
      /\ (found = "ok" => s = status \cup {"acknowledge", "driver", "features_ok"})
  BY DEF IInv, TypeOK, virtio_util_do_generic_init_step, Negotiations
<1> HIDE DEF s
<1>4. \A u \in Threads : pc[u] = "idle" /\ request[u].head = Size
  BY <1>1 DEF IInv, Stage, Requests, OneRequest
<1>5. commands = {} /\ "failed" \notin status /\ resource = "none"
  BY <1>1, <1>4, NoCommands DEF IInv, Stage
<1>6. /\ request[t].answer = "none" /\ request[t].taken = FALSE
  BY <1>4, ThreadTypes DEF IInv, Requests, OneRequest
<1>7. Partition(queue, Owned)' /\ Ring' /\ Apart'
  BY <1>2, SameQueue
<1>8. CASE ready
  <2>1. /\ pc' \in [Threads -> Kind \cup {"idle"}]
        /\ pc'[t] = "info" /\ \A u \in Threads : u # t => pc'[u] = "idle"
    BY <1>1, <1>4, <1>8, KindIs DEF IInv, TypeOK
  <2>2. TypeOK'
    BY <1>1, <1>2, <1>3, <1>8, <2>1 DEF IInv, TypeOK, VirtqueueTypeOK
  <2>3. Requests'
    <3>1. \A u \in Threads : OneRequest(u)'
      BY <1>1, <1>2, <1>4, <1>8, <2>1 DEF IInv, Requests, OneRequest
    <3> QED
      BY <1>2, <1>5, <1>7, <3>1 DEF Requests
  <2>4. Stage'
    <3>1. Needs("info") = "none"
      BY DEF Needs
    <3>2. "failed" \notin status' /\ "driver_ok" \in status' /\ driver' = "init"
      BY <1>1, <1>3, <1>5, <1>8
    <3> QED
      BY <1>2, <1>5, <1>6, <2>1, <3>1, <3>2 DEF Stage
  <2>5. Frames'
    <3>1. \A u \in Threads : FrameOf(u)'
      BY <1>1, <1>2, <1>8, <2>1 DEF IInv, Frames, FrameOf
    <3> QED
      BY <1>2, <3>1 DEF IInv, Frames
  <2> QED
    BY <1>7, <2>2, <2>3, <2>4, <2>5 DEF IInv
<1>9. CASE ~ready
  <2>1. TypeOK'
    <3>1. status' \subseteq {"acknowledge", "driver", "features_ok", "driver_ok", "failed"}
      BY <1>1, <1>3, <1>9
    <3> QED
      BY <1>1, <1>2, <1>9, <3>1 DEF IInv, TypeOK, VirtqueueTypeOK
  <2>2. Requests'
    <3>1. \A u \in Threads : OneRequest(u)'
      BY <1>1, <1>2, <1>9 DEF IInv, Requests, OneRequest
    <3> QED
      BY <1>2, <1>5, <1>7, <3>1 DEF Requests
  <2>3. Stage'
    BY <1>1, <1>2, <1>4, <1>5, <1>9 DEF Stage
  <2>4. Frames'
    BY <1>1, <1>2, <1>9 DEF IInv, Frames, FrameOf
  <2> QED
    BY <1>7, <2>1, <2>2, <2>3, <2>4 DEF IInv
<1> QED
  BY <1>8, <1>9

\* A thread calls for a refresh: the frame that counts is the one of now.
LEMMA RefreshStep ==
    ASSUME IInv, NEW t \in Threads, refresh(t)
    PROVE  IInv'
<1>1. /\ halted = "no" /\ ~in_irq /\ busy = None /\ driver = "ready" /\ pc[t] = "idle"
      /\ busy' = t /\ pc' = [pc EXCEPT ![t] = "transfer"]
      /\ result' = [result EXCEPT ![t] = [rc |-> "none", wanted |-> frame]]
  BY DEF refresh, Runs
<1>2. UNCHANGED <<queue, used_idx, used_ring, last_seen_used_idx, irq_status,
                  in_irq, driver, status, wild, m_pending_requests, commands,
                  request, resource, frame, copy, shown, halted>>
  BY DEF refresh, virtqueue, used, display
<1>3. request[t].head = Size /\ request[t].answer = "none" /\ ~request[t].taken
  BY <1>1 DEF IInv, Requests, OneRequest
<1>4. /\ pc' \in [Threads -> Kind \cup {"idle"}] /\ pc'[t] = "transfer"
      /\ \A u \in Threads : u # t => pc'[u] = pc[u]
  BY <1>1, KindIs DEF IInv, TypeOK
<1>5. /\ result' \in [Threads -> [rc : {"none", "ok", "nomem", "io"}, wanted : 0 .. MaxFrame]]
      /\ result'[t].rc = "none" /\ result'[t].wanted = frame
      /\ \A u \in Threads : u # t => result'[u] = result[u]
  BY <1>1 DEF IInv, TypeOK
<1>6. Partition(queue, Owned)' /\ Ring' /\ Apart'
  BY <1>2, SameQueue
<1>7. TypeOK'
  BY <1>1, <1>2, <1>4, <1>5 DEF IInv, TypeOK, VirtqueueTypeOK
<1>8. Requests'
  <2>1. \A u \in Threads : OneRequest(u)'
    BY <1>1, <1>2, <1>3, <1>4 DEF IInv, Requests, OneRequest
  <2>2. ASSUME NEW c \in commands PROVE \E u \in Threads : Asked(c, u)'
    <3>1. PICK u \in Threads : Asked(c, u)
      BY DEF IInv, Requests
    <3>2. u # t
      BY <1>3, <3>1 DEF Asked
    <3>3. Asked(c, u)'
      BY <1>2, <1>4, <3>1, <3>2 DEF Asked
    <3> QED
      BY <3>3
  <2> QED
    BY <1>2, <1>6, <2>1, <2>2 DEF Requests
<1>9. Stage'
  BY <1>1, <1>2, <1>4 DEF IInv, Stage
<1>10. Frames'
  <2>1. FrameOf(t)'
    <3>1. frame <= frame
      BY DEF IInv, TypeOK
    <3> QED
      BY <1>1, <1>2, <1>3, <1>4, <1>5, <3>1 DEF FrameOf
  <2>2. ASSUME NEW u \in Threads, u # t PROVE FrameOf(u)'
    BY <1>2, <1>4, <1>5, <2>2 DEF IInv, Frames, FrameOf
  <2> QED
    BY <1>2, <2>1, <2>2 DEF IInv, Frames
<1> QED
  BY <1>6, <1>7, <1>8, <1>9, <1>10 DEF IInv

\* A program draws.
LEMMA DrawStep == IInv /\ draw => IInv'
<1> SUFFICES ASSUME IInv, draw PROVE IInv'
  OBVIOUS
<1>1. /\ frame < MaxFrame /\ frame' = frame + 1
      /\ UNCHANGED <<queue, used_idx, used_ring, last_seen_used_idx, irq_status,
                     in_irq, driver, status, wild, m_pending_requests, commands,
                     busy, pc, request, result, resource, copy, shown, halted>>
  BY DEF draw, virtqueue, used, threads
<1>2. frame \in 0 .. MaxFrame /\ copy \in 0 .. MaxFrame /\ shown \in 0 .. MaxFrame
      /\ MaxFrame \in Nat
  BY VirtioGpuAssumption DEF IInv, TypeOK
<1>3. Partition(queue, Owned)' /\ Ring' /\ Apart'
  BY <1>1, SameQueue
<1>4. TypeOK'
  <2>1. frame' \in 0 .. MaxFrame
    BY <1>1, <1>2
  <2> QED
    BY <1>1, <2>1 DEF IInv, TypeOK, VirtqueueTypeOK
<1>5. Requests'
  <2>1. \A t \in Threads : OneRequest(t)'
    BY <1>1 DEF IInv, Requests, OneRequest
  <2>2. (\A c \in commands : \E t \in Threads : Asked(c, t))'
    BY <1>1 DEF IInv, Requests, Asked
  <2> QED
    BY <1>3, <2>1, <2>2 DEF Requests
<1>6. Stage'
  BY <1>1 DEF IInv, Stage
<1>7. Frames'
  <2>1. ASSUME NEW t \in Threads PROVE FrameOf(t)'
    <3>1. result[t].wanted \in Nat
      BY ThreadTypes DEF IInv
    <3>2. result[t].wanted <= frame => result[t].wanted <= frame'
      BY <1>1, <1>2, <3>1
    <3> QED
      BY <1>1, <3>2 DEF IInv, Frames, FrameOf
  <2>2. copy <= frame => copy <= frame'
    BY <1>1, <1>2
  <2> QED
    BY <1>1, <2>1, <2>2 DEF IInv, Frames
<1> QED
  BY <1>3, <1>4, <1>5, <1>6, <1>7 DEF IInv

\* A thread sends a command and sleeps.
LEMMA SendStep ==
    ASSUME IInv, NEW t \in Threads, cmd_send_receive(t)
    PROVE  IInv'
<1> DEFINE q1 == virtio_virtq_alloc_desc(queue)
           h == allocated(queue)
           d == allocated(q1)
           r == chained(chained(virtio_virtq_alloc_desc(q1), h, d), d, 0)
<1>1. /\ halted = "no" /\ ~in_irq /\ busy = t /\ pc[t] # "idle" /\ ~request[t].taken
      /\ h \in Descs /\ d \in Descs /\ queue' = r
      /\ request' = [request EXCEPT ![t] = [head |-> h, resp |-> d, taken |-> TRUE,
                                            answer |-> "none"]]
      /\ commands' = commands \cup {[head |-> h, kind |-> pc[t]]}
      /\ m_pending_requests' = m_pending_requests \cup {t} /\ busy' = None
  BY DEF cmd_send_receive, Sending, Runs
<1>2. UNCHANGED <<used_idx, used_ring, last_seen_used_idx, irq_status, in_irq,
                  driver, status, wild, pc, result, resource, frame, copy, shown, halted>>
  BY DEF cmd_send_receive, used, display
<1>3. queue \in Queues /\ Partition(queue, Owned)
  BY DEF IInv, TypeOK, VirtqueueTypeOK, Queues
<1>4. /\ h # d /\ h \notin Owned /\ d \notin Owned
      /\ r \in Queues /\ Partition(r, Owned \cup {h, d})
  BY <1>1, <1>3, TakePair
<1> HIDE DEF q1, h, d, r
<1>5. Size \in Nat /\ Size \notin Descs /\ Descs \subseteq 0 .. Size
  BY VirtqueueAssumption DEF Descs
<1>6. request[t].head = Size /\ request[t].answer = "none"
  BY <1>1 DEF IInv, Requests, OneRequest
<1>7. /\ request' \in [Threads -> Request]
      /\ request'[t].head = h /\ request'[t].resp = d /\ request'[t].taken = TRUE
      /\ request'[t].answer = "none"
      /\ \A u \in Threads : u # t => request'[u] = request[u]
  BY <1>1, <1>5 DEF IInv, TypeOK, Request
<1>8. TypeOK'
  <2>1. pc[t] \in Kind
    BY <1>1 DEF IInv, TypeOK
  <2>2. commands' \subseteq [head : Descs, kind : Kind]
    BY <1>1, <2>1 DEF IInv, TypeOK
  <2>3. VirtqueueTypeOK'
    BY <1>1, <1>2, <1>4 DEF IInv, TypeOK, VirtqueueTypeOK, Queues
  <2>4. m_pending_requests' \subseteq Threads
    BY <1>1 DEF IInv, TypeOK
  <2> QED
    BY <1>1, <1>2, <1>7, <2>2, <2>3, <2>4 DEF IInv, TypeOK
<1>9. /\ Waiting' = Waiting \cup {t} /\ t \notin Waiting
      /\ Held(t)' = {h, d} /\ \A u \in Waiting : Held(u)' = Held(u)
  BY <1>1, <1>5, <1>6, <1>7 DEF Waiting, Held
<1>10. Partition(queue, Owned)'
  <2>1. Owned' = Owned \cup {h, d}
    BY <1>1, <1>9 DEF Owned
  <2> QED
    BY <1>1, <1>4, <2>1
<1>11. Requests'
  <2>1. OneRequest(t)'
    BY <1>1, <1>2, <1>4, <1>5, <1>7, VirtioGpuAssumption DEF OneRequest
  <2>2. ASSUME NEW u \in Threads, u # t PROVE OneRequest(u)'
    BY <1>1, <1>2, <1>7, <2>2, VirtioGpuAssumption DEF IInv, Requests, OneRequest
  <2>3. Apart'
    <3>1. \A u \in Waiting : {h, d} \cap Held(u) = {}
      BY <1>4, WaitingThreads DEF IInv, Waiting
    <3> QED
      BY <1>9, <3>1 DEF IInv, Requests, Apart
  <2>4. ASSUME NEW c \in commands' PROVE \E u \in Threads : Asked(c, u)'
    <3>1. CASE c \in commands
      <4>1. PICK u \in Threads : Asked(c, u)
        BY <3>1 DEF IInv, Requests
      <4>2. u # t
        BY <1>1, <4>1 DEF Asked
      <4>3. Asked(c, u)'
        BY <1>2, <1>7, <4>1, <4>2 DEF Asked
      <4> QED
        BY <4>3
    <3>2. CASE c = [head |-> h, kind |-> pc[t]]
      <4>1. c.head = h /\ c.kind = pc[t]
        BY <3>2
      <4>2. Asked(c, t)'
        BY <1>2, <1>7, <4>1 DEF Asked
      <4> QED
        BY <4>2
    <3> QED
      BY <1>1, <3>1, <3>2
  <2> QED
    BY <2>1, <2>2, <2>3, <2>4 DEF Requests
<1>12. Ring'
  <2>1. new_used' = new_used
    BY <1>2 DEF new_used, used_slot
  <2>2. ASSUME NEW x, Used(x) PROVE Used(x)'
    <3>1. PICK u \in Threads : request[u].head = x /\ request[u].taken
                               /\ request[u].answer # "none"
      BY <2>2 DEF Used
    <3>2. u # t
      BY <1>1, <3>1
    <3> QED
      BY <1>7, <3>1, <3>2 DEF Used
  <2>3. ~in_irq' /\ irq_status' = irq_status
    BY <1>1, <1>2
  <2> QED
    BY <1>1, <2>1, <2>2, <2>3 DEF IInv, Ring
<1>13. Stage'
  <2>1. driver # "off" /\ "failed" \notin status
    BY <1>1 DEF IInv, Stage
  <2>2. \A u \in Threads : request'[u].answer = request[u].answer
    BY <1>6, <1>7
  <2> QED
    BY <1>2, <2>1, <2>2 DEF IInv, Stage
<1>14. Frames'
  <2>1. \A u \in Threads : request'[u].answer = request[u].answer
    BY <1>6, <1>7
  <2> QED
    BY <1>2, <2>1 DEF IInv, Frames, FrameOf
<1> QED
  BY <1>8, <1>10, <1>11, <1>12, <1>13, <1>14 DEF IInv

\* The command after one that the device has performed.
LEMMA GoesOn ==
    ASSUME NEW k \in Kind
    PROVE  /\ next_kind(k) \in Kind \cup {"idle"}
           /\ next_kind(k) = "idle" <=> k = "flush"
           /\ next_kind(k) # "idle" => Needs(next_kind(k)) = After(k)
           /\ next_kind(k) = "flush" => k = "transfer"
           /\ k \in {"transfer", "flush"} => next_kind(k) \in {"flush", "idle"}
           /\ After("flush") = "scanout"
<1>1. /\ Needs("info") = "none" /\ Needs("create") = "none"
      /\ Needs("attach") = "create" /\ Needs("scanout") = "attach"
      /\ Needs("transfer") = "scanout" /\ Needs("flush") = "scanout"
  BY DEF Needs
<1>2. /\ After("info") = "none" /\ After("create") = "create"
      /\ After("attach") = "attach" /\ After("scanout") = "scanout"
      /\ After("transfer") = "scanout" /\ After("flush") = "scanout"
  BY <1>1 DEF After
<1> QED
  BY <1>1, <1>2, KindIs, NextKind

\* A command has ended, and its request is no more: the thread goes on.
LEMMA ReturnStep ==
    ASSUME IInv, NEW t \in Threads, NEW rc \in {"ok", "nomem", "io"},
           halted = "no", ~in_irq, busy \in {t, None}, pc[t] # "idle",
           ~request[t].taken, rc = "ok" => request[t].answer = "ok",
           command_returns(t, rc),
           request' \in [Threads -> Request],
           request'[t].head = Size, ~request'[t].taken, request'[t].answer = "none",
           \A u \in Threads : u # t => request'[u] = request[u],
           (queue \in Queues)', Partition(queue, Owned)'
    PROVE  IInv'
<1> DEFINE next == IF rc = "ok" THEN next_kind(pc[t]) ELSE "idle"
<1>1. /\ pc' = [pc EXCEPT ![t] = next]
      /\ busy' = IF next = "idle" THEN None ELSE t
      /\ driver = "init" =>
           /\ driver' = IF rc = "ok" /\ next = "idle" THEN "ready" ELSE driver
           /\ status' = IF rc = "ok" THEN status ELSE status \cup {"failed"}
           /\ halted' = IF rc = "ok" THEN "no" ELSE "panic"
           /\ result' = result
      /\ driver # "init" =>
           /\ result' = [result EXCEPT ![t]["rc"] =
                           IF next = "idle" THEN rc ELSE result[t]["rc"]]
           /\ driver' = driver /\ status' = status /\ halted' = halted
  BY DEF command_returns, virtio_util_init_failure
<1>2. UNCHANGED <<used_idx, used_ring, last_seen_used_idx, irq_status, in_irq, wild,
                  m_pending_requests, commands, resource, frame, copy, shown>>
  BY DEF command_returns, used, display
<1>3. /\ pc[t] \in Kind /\ next \in Kind \cup {"idle"}
      /\ rc = "ok" => /\ next = "idle" <=> pc[t] = "flush"
                      /\ next # "idle" => Needs(next) = After(pc[t])
                      /\ next = "flush" => pc[t] = "transfer"
                      /\ pc[t] \in {"transfer", "flush"} => next \in {"flush", "idle"}
      /\ rc # "ok" => next = "idle"
      /\ After("flush") = "scanout"
  <2>1. pc[t] \in Kind
    BY ThreadTypes DEF IInv
  <2> QED
    BY <2>1, GoesOn
<1> HIDE DEF next
<1>4. /\ pc' \in [Threads -> Kind \cup {"idle"}] /\ pc'[t] = next
      /\ \A u \in Threads : u # t => pc'[u] = pc[u]
  BY <1>1, <1>3 DEF IInv, TypeOK
<1>5. /\ result' \in [Threads -> [rc : {"none", "ok", "nomem", "io"}, wanted : 0 .. MaxFrame]]
      /\ \A u \in Threads : result'[u].wanted = result[u].wanted
      /\ \A u \in Threads : u # t => result'[u] = result[u]
      /\ result'[t].rc = IF driver # "init" /\ next = "idle" THEN rc ELSE result[t].rc
  BY <1>1 DEF IInv, TypeOK
<1>6. driver \in {"init", "ready"}
  BY DEF IInv, TypeOK, Stage
<1>7. TypeOK'
  <2>1. VirtqueueTypeOK'
    BY <1>2 DEF IInv, TypeOK, VirtqueueTypeOK, Queues
  <2>2. driver' \in {"off", "init", "ready"} /\ halted' \in {"no", "panic", "kassert", "undefined"}
    BY <1>1, <1>6
  <2>3. status' \subseteq {"acknowledge", "driver", "features_ok", "driver_ok", "failed"}
    BY <1>1 DEF IInv, TypeOK
  <2>4. busy' \in Threads \cup {None}
    BY <1>1
  <2> QED
    BY <1>2, <1>4, <1>5, <2>1, <2>2, <2>3, <2>4 DEF IInv, TypeOK
<1>8. \A c \in commands, u \in Threads : Asked(c, u) => u # t
  BY DEF Asked
<1>9. Requests'
  <2>1. OneRequest(t)'
    <3>1. t \notin m_pending_requests
      BY DEF IInv, Requests, OneRequest
    <3> QED
      BY <1>1, <1>2, <1>4, <3>1, VirtioGpuAssumption DEF OneRequest
  <2>2. ASSUME NEW u \in Threads, u # t PROVE OneRequest(u)'
    BY <1>1, <1>2, <1>4, <2>2, VirtioGpuAssumption DEF IInv, Requests, OneRequest
  <2>3. Apart'
    BY DEF IInv, Requests, Apart, Waiting, Held
  <2>4. ASSUME NEW c \in commands PROVE \E u \in Threads : Asked(c, u)'
    <3>1. PICK u \in Threads : Asked(c, u)
      BY DEF IInv, Requests
    <3>2. u # t
      BY <1>8, <3>1
    <3>3. Asked(c, u)'
      BY <1>4, <3>1, <3>2 DEF Asked
    <3> QED
      BY <3>3
  <2> QED
    BY <1>2, <2>1, <2>2, <2>3, <2>4 DEF Requests
<1>10. Ring'
  <2>1. new_used' = new_used
    BY <1>2 DEF new_used, used_slot
  <2>2. ASSUME NEW x, Used(x) PROVE Used(x)'
    <3>1. PICK u \in Threads : request[u].head = x /\ request[u].taken
                               /\ request[u].answer # "none"
      BY <2>2 DEF Used
    <3>2. u # t
      BY <3>1
    <3> QED
      BY <3>1, <3>2 DEF Used
  <2>3. ~in_irq' /\ irq_status' = irq_status
    BY <1>2
  <2> QED
    BY <2>1, <2>2, <2>3 DEF IInv, Ring
<1>11. Stage'
  <2>1. CASE driver = "init"
    <3>1. \A u \in Threads : u # t => pc[u] = "idle"
      BY <2>1 DEF IInv, Stage
    <3>2. commands = {}
      BY <3>1, NoCommands DEF IInv
    <3>3. rc = "ok" => resource = After(pc[t])
      BY <2>1 DEF IInv, Stage
    <3>4. "driver_ok" \in status' /\ (rc = "ok" => "failed" \notin status')
      BY <1>1, <2>1 DEF IInv, Stage
    <3>5. \A u \in Threads : u # t => pc'[u] = "idle"
      BY <1>4, <3>1
    <3>6. CASE rc = "ok" /\ next = "idle"
      <4>1. driver' = "ready" /\ resource' = "scanout" /\ pc'[t] = "idle"
        BY <1>1, <1>2, <1>3, <1>4, <2>1, <3>3, <3>6
      <4> QED
        BY <1>2, <3>2, <3>4, <3>5, <3>6, <4>1 DEF Stage
    <3>7. CASE rc = "ok" /\ next # "idle"
      <4>1. driver' = "init" /\ resource' = Needs(pc'[t])
        BY <1>1, <1>2, <1>3, <1>4, <2>1, <3>3, <3>7
      <4> QED
        BY <1>2, <3>2, <3>4, <3>5, <3>7, <4>1 DEF Stage
    <3>8. CASE rc # "ok"
      <4>1. driver' = "init" /\ halted' # "no" /\ pc'[t] = "idle"
        BY <1>1, <1>3, <1>4, <2>1, <3>8
      <4> QED
        BY <1>2, <3>2, <3>4, <3>5, <4>1 DEF Stage
    <3> QED
      BY <3>6, <3>7, <3>8
  <2>2. CASE driver = "ready"
    <3>1. pc[t] \in {"transfer", "flush"}
      BY <2>2 DEF IInv, Stage
    <3>2. pc'[t] \in {"flush", "idle"}
      BY <1>3, <1>4, <3>1
    <3>3. driver' = "ready" /\ status' = status /\ halted' = halted
      BY <1>1, <2>2
    <3> QED
      BY <1>2, <1>4, <2>2, <3>2, <3>3 DEF IInv, Stage
  <2> QED
    BY <1>6, <2>1, <2>2
<1>12. Frames'
  <2>1. FrameOf(t)
    BY DEF IInv, Frames
  <2>2. /\ frame \in Nat /\ copy \in Nat /\ shown \in Nat
        /\ \A u \in Threads : result[u].wanted \in Nat
    BY VirtioGpuAssumption, ThreadTypes DEF IInv, TypeOK
  <2>3. driver' # "ready" => driver # "ready"
    BY <1>1, <1>6
  <2>4. FrameOf(t)'
    <3>1. CASE driver = "init"
      <4>1. result[t].wanted = 0 /\ result' = result
        BY <1>1, <2>1, <3>1 DEF FrameOf
      <4>2. copy >= 0 /\ shown >= 0 /\ 0 <= frame
        BY <2>2
      <4> QED
        BY <1>2, <4>1, <4>2 DEF FrameOf
    <3>2. CASE driver = "ready"
      <4>1. driver' = "ready"
        BY <1>1, <3>2
      <4>2. next = "flush" => copy >= result[t].wanted
        <5>1. next = "flush" => pc[t] = "transfer" /\ rc = "ok"
          BY <1>3
        <5> QED
          BY <2>1, <5>1 DEF FrameOf
      <4>3. next = "idle" /\ rc = "ok" => shown >= result[t].wanted
        BY <1>3, <2>1 DEF FrameOf
      <4> QED
        BY <1>2, <1>4, <1>5, <2>1, <3>2, <4>1, <4>2, <4>3 DEF FrameOf
    <3> QED
      BY <1>6, <3>1, <3>2
  <2>5. ASSUME NEW u \in Threads, u # t PROVE FrameOf(u)'
    BY <1>2, <1>4, <1>5, <2>3, <2>5 DEF IInv, Frames, FrameOf
  <2> QED
    BY <1>2, <2>4, <2>5 DEF IInv, Frames
<1> QED
  BY <1>7, <1>9, <1>10, <1>11, <1>12 DEF IInv

\* A command is refused for lack of memory.
LEMMA NomemStep ==
    ASSUME IInv, NEW t \in Threads, cmd_send_receive_nomem(t)
    PROVE  IInv'
<1> DEFINE q1 == virtio_virtq_alloc_desc(queue)
           r == cleanup(virtio_virtq_alloc_desc(q1), allocated(queue), allocated(q1))
<1>1. /\ halted = "no" /\ ~in_irq /\ busy = t /\ pc[t] # "idle" /\ ~request[t].taken
      /\ queue' = r /\ request' = request /\ command_returns(t, "nomem")
  BY DEF cmd_send_receive_nomem, Sending, Runs
<1>2. queue \in Queues /\ Partition(queue, Owned)
  BY DEF IInv, TypeOK, VirtqueueTypeOK, Queues
<1>3. r \in Queues /\ Partition(r, Owned)
  BY <1>2, GiveUp
<1> HIDE DEF r
<1>4. Owned' = Owned
  BY <1>1 DEF Owned, Waiting, Held
<1>5. (queue \in Queues)' /\ Partition(queue, Owned)'
  BY <1>1, <1>3, <1>4
<1>6. request[t].head = Size /\ request[t].answer = "none"
  BY <1>1 DEF IInv, Requests, OneRequest
<1>7. request \in [Threads -> Request]
  BY DEF IInv, TypeOK
<1> QED
  BY <1>1, <1>5, <1>6, <1>7, ReturnStep

\* The thread finds its answer.
LEMMA AnswerStep ==
    ASSUME IInv, NEW t \in Threads, mutex_take_succeeds(t)
    PROVE  IInv'
<1> DEFINE h == request[t].head
           d == request[t].resp
           rc == IF request[t].answer = "ok" THEN "ok" ELSE "io"
           others == {x \in Descs : \E u \in Waiting \ {t} : x \in Held(u)}
<1>1. /\ halted = "no" /\ ~in_irq /\ busy = None /\ pc[t] # "idle"
      /\ h # Size /\ ~request[t].taken
      /\ queue' = cleanup(queue, h, d)
      /\ request' = [request EXCEPT ![t] = NoRequest]
      /\ command_returns(t, rc)
  BY DEF mutex_take_succeeds, Answered, Runs
<1>2. queue \in Queues /\ Partition(queue, Owned) /\ Size \in Nat
  BY VirtqueueAssumption DEF IInv, TypeOK, VirtqueueTypeOK, Queues
<1>3. h \in Descs /\ d \in Descs /\ h # d /\ t \in Waiting
  BY <1>1 DEF IInv, Requests, OneRequest, Waiting
<1>4. h \notin others /\ d \notin others
  BY <1>3 DEF IInv, Requests, Apart, Held
<1>5. Owned = others \cup {h, d}
  BY <1>3 DEF Owned, Held
<1>6. cleanup(queue, h, d) \in Queues /\ Partition(cleanup(queue, h, d), others)
  <2> HIDE DEF others, h, d
  <2>1. Partition(queue, others \cup {h, d})
    BY <1>2, <1>5
  <2> QED
    BY <1>2, <1>3, <1>4, <2>1, GivePair
<1>7. /\ NoRequest \in Request /\ NoRequest.head = Size /\ NoRequest.taken = FALSE
      /\ NoRequest.answer = "none"
  BY <1>2 DEF NoRequest, Request
<1>8. /\ request' \in [Threads -> Request]
      /\ request'[t] = NoRequest
      /\ \A u \in Threads : u # t => request'[u] = request[u]
  BY <1>1, <1>7 DEF IInv, TypeOK
<1>9. Owned' = others
  <2>1. Waiting' = Waiting \ {t}
    BY <1>7, <1>8 DEF Waiting
  <2>2. \A u \in Waiting \ {t} : Held(u)' = Held(u)
    BY <1>8 DEF Held, Waiting
  <2> QED
    BY <2>1, <2>2 DEF Owned
<1>10. (queue \in Queues)' /\ Partition(queue, Owned)'
  <2> HIDE DEF others, h, d
  <2> QED
    BY <1>1, <1>6, <1>9
<1>11. rc \in {"ok", "nomem", "io"} /\ (rc = "ok" => request[t].answer = "ok")
  OBVIOUS
<1>12. request'[t].head = Size /\ ~request'[t].taken /\ request'[t].answer = "none"
  BY <1>7, <1>8
<1> HIDE DEF rc, others, h, d
<1> QED
  BY <1>1, <1>8, <1>10, <1>11, <1>12, ReturnStep

\* The handler unlinks the requests whose buffers were used.
LEMMA HandleStep == IInv /\ handle_irq => IInv'
<1> SUFFICES ASSUME IInv, handle_irq PROVE IInv'
  OBVIOUS
<1> DEFINE done == {t \in m_pending_requests :
                      \E k \in DOMAIN new_used : new_used[k] = request[t].head}
<1>1. /\ halted = "no" /\ irq_status /\ ~in_irq
      /\ m_pending_requests' = m_pending_requests \ done
      /\ request' = [t \in Threads |->
                       [request[t] EXCEPT !["taken"] = request[t]["taken"] /\ t \notin done]]
      /\ foreach_used_descriptor /\ in_irq' = TRUE
  BY DEF handle_irq, Interrupted
<1>2. UNCHANGED <<queue, irq_status, driver, status, wild, commands, busy, pc,
                  result, resource, frame, copy, shown, halted>>
  BY DEF handle_irq, display
<1>3. VirtqueueTypeOK /\ TypeOK /\ Requests /\ Ring /\ Stage /\ Frames
  BY DEF IInv, TypeOK
<1>4. \A t \in done : request[t].answer # "none" /\ t \in Threads
  <2> SUFFICES ASSUME NEW t \in done PROVE request[t].answer # "none" /\ t \in Threads
    OBVIOUS
  <2>1. t \in Threads /\ t \in m_pending_requests
    BY <1>3 DEF TypeOK
  <2>2. PICK k \in DOMAIN new_used : new_used[k] = request[t].head
    OBVIOUS
  <2>3. PICK u \in Threads : request[u].head = new_used[k] /\ request[u].answer # "none"
    BY <1>3 DEF Ring, Used
  <2>4. request[t].head # Size
    BY <1>3, <2>1 DEF Requests, OneRequest
  <2>5. t = u
    BY <1>3, <2>1, <2>2, <2>3, <2>4, SameHead
  <2> QED
    BY <2>1, <2>3, <2>5
<1>5. \E t \in done : request[t].head # Size
  <2>1. new_used # <<>> /\ new_used \in Seq(Descs)
    BY <1>1, <1>3, NewUsed DEF Ring
  <2>2. 1 \in DOMAIN new_used /\ new_used[1] \in Descs
    BY <2>1
  <2>3. PICK t \in Threads : request[t].head = new_used[1] /\ request[t].taken
    BY <1>3, <2>2 DEF Ring, Used
  <2>4. request[t].head # Size
    BY <2>2, <2>3, VirtqueueAssumption DEF Descs
  <2>5. t \in m_pending_requests
    BY <1>3, <2>3, <2>4 DEF Requests, OneRequest
  <2> QED
    BY <2>2, <2>3, <2>4, <2>5
<1> HIDE DEF done
<1>6. ASSUME NEW t \in Threads
      PROVE  /\ request'[t] \in Request
             /\ request'[t].head = request[t].head /\ request'[t].resp = request[t].resp
             /\ request'[t].answer = request[t].answer
             /\ request'[t].taken <=> request[t].taken /\ t \notin done
  <2> DEFINE b == request[t]["taken"] /\ t \notin done
  <2>1. request[t] \in Request /\ b \in BOOLEAN
    BY <1>3, ThreadTypes
  <2>2. request'[t] = [request[t] EXCEPT !["taken"] = b]
    BY <1>1
  <2>3. b <=> request[t].taken /\ t \notin done
    OBVIOUS
  <2> HIDE DEF b
  <2>4. /\ request'[t] \in Request
        /\ request'[t].head = request[t].head /\ request'[t].resp = request[t].resp
        /\ request'[t].answer = request[t].answer /\ request'[t].taken = b
    BY <2>1, <2>2 DEF Request
  <2> QED
    BY <2>3, <2>4
<1>7. request' \in [Threads -> Request]
  BY <1>1, <1>6
<1>8. TypeOK'
  <2>1. used_slot \in Descs /\ 0 \in Descs
    <3>1. used_idx \in 0 .. Wrap - 1 /\ Wrap \in Nat \ {0} /\ Size \in Nat \ {0}
      BY <1>3, VirtqueueAssumption DEF VirtqueueTypeOK
    <3>2. used_idx \in Nat
      BY <3>1
    <3> QED
      BY <3>1, <3>2, DivMod DEF Descs, used_slot
  <2>2. VirtqueueTypeOK'
    BY <1>1, <1>2, <1>3, <2>1 DEF VirtqueueTypeOK, foreach_used_descriptor
  <2>3. m_pending_requests' \subseteq Threads
    BY <1>1, <1>3 DEF TypeOK
  <2> QED
    BY <1>2, <1>3, <1>7, <2>2, <2>3 DEF TypeOK
<1>9. Waiting' = Waiting /\ \A t \in Waiting : Held(t)' = Held(t)
  BY <1>6 DEF Waiting, Held
<1>10. Partition(queue, Owned)'
  <2>1. Owned' = Owned
    BY <1>9 DEF Owned
  <2> QED
    BY <1>2, <2>1 DEF IInv
<1>11. Requests'
  <2>1. ASSUME NEW t \in Threads PROVE OneRequest(t)'
    <3>1. OneRequest(t)
      BY <1>3 DEF Requests
    <3>2. t \in m_pending_requests' <=> t \in m_pending_requests /\ t \notin done
      BY <1>1
    <3> QED
      BY <1>2, <1>4, <1>6, <3>1, <3>2 DEF OneRequest
  <2>2. Apart'
    BY <1>3, <1>9 DEF Requests, Apart
  <2>3. ASSUME NEW c \in commands PROVE \E t \in Threads : Asked(c, t)'
    <3>1. PICK t \in Threads : Asked(c, t)
      BY <1>3 DEF Requests
    <3>2. t \notin done
      BY <1>4, <3>1 DEF Asked
    <3>3. Asked(c, t)'
      BY <1>2, <1>6, <3>1, <3>2 DEF Asked
    <3> QED
      BY <3>3
  <2> QED
    BY <1>2, <2>1, <2>2, <2>3 DEF Requests
<1>12. Ring'
  <2>1. new_used' = <<>>
    BY <1>1, <1>3, NothingNew
  <2>2. \E t \in Waiting' : ~request'[t].taken
    <3>1. PICK t \in done : request[t].head # Size
      BY <1>5
    <3>2. t \in Threads /\ t \in Waiting
      BY <1>4, <3>1 DEF Waiting
    <3> QED
      BY <1>6, <1>9, <3>2
  <2>3. DOMAIN new_used' = {}
    BY <2>1
  <2>4. irq_status' /\ in_irq'
    BY <1>1, <1>2
  <2> QED
    BY <2>2, <2>3, <2>4 DEF Ring
<1>13. Stage'
  BY <1>2, <1>3, <1>6 DEF Stage
<1>14. Frames'
  BY <1>2, <1>3, <1>6 DEF Frames, FrameOf
<1> QED
  BY <1>8, <1>10, <1>11, <1>12, <1>13, <1>14 DEF IInv

\* The handler acknowledges the interrupt and returns.
LEMMA AckStep == IInv /\ handle_irq_returns => IInv'
<1> SUFFICES ASSUME IInv, handle_irq_returns PROVE IInv'
  OBVIOUS
<1>1. /\ in_irq' = FALSE /\ irq_status' = FALSE
      /\ UNCHANGED <<queue, used_idx, used_ring, last_seen_used_idx, driver, status,
                     wild, m_pending_requests, commands, busy, pc, request, result,
                     resource, frame, copy, shown, halted>>
  BY DEF handle_irq_returns, handle_irq_ack, used, threads, display
<1>2. TypeOK'
  BY <1>1 DEF IInv, TypeOK, VirtqueueTypeOK
<1>3. Partition(queue, Owned)'
  <2>1. Owned' = Owned /\ queue' = queue
    BY <1>1 DEF Owned, Waiting, Held
  <2> QED
    BY <2>1 DEF IInv
<1>4. Requests'
  <2>1. \A t \in Threads : OneRequest(t)'
    BY <1>1 DEF IInv, Requests, OneRequest
  <2>2. Apart'
    BY <1>1 DEF IInv, Requests, Apart, Waiting, Held
  <2>3. (\A c \in commands : \E t \in Threads : Asked(c, t))'
    BY <1>1 DEF IInv, Requests, Asked
  <2> QED
    BY <2>1, <2>2, <2>3 DEF Requests
<1>5. Ring'
  <2>1. new_used' = new_used
    BY <1>1 DEF new_used, used_slot
  <2> QED
    BY <1>1, <2>1 DEF IInv, Ring, Used
<1>6. Stage'
  BY <1>1 DEF IInv, Stage
<1>7. Frames'
  BY <1>1 DEF IInv, Frames, FrameOf
<1> QED
  BY <1>2, <1>3, <1>4, <1>5, <1>6, <1>7 DEF IInv

\* The device answers a command.
LEMMA DeviceStep ==
    ASSUME IInv, NEW c \in commands, NEW answer \in {"ok", "too_large", "error"},
           device_answers(c, answer)
    PROVE  IInv'
<1> DEFINE n == Len(new_used)
<1>1. /\ halted = "no" /\ commands' = commands \ {c}
      /\ answer = "ok" => Perform(c.kind)
      /\ answer # "ok" => UNCHANGED <<resource, frame, copy, shown>>
      /\ request' = [t \in Threads |->
                       IF request[t].head = c.head
                         THEN [request[t] EXCEPT !["answer"] = answer] ELSE request[t]]
      /\ put_used(c.head)
  BY DEF device_answers, display
<1>2. UNCHANGED <<queue, last_seen_used_idx, in_irq, driver, status, wild,
                  m_pending_requests, busy, pc, result, halted>>
  BY DEF device_answers
<1>3. VirtqueueTypeOK /\ TypeOK /\ Requests /\ Ring /\ Stage /\ Frames
  BY DEF IInv, TypeOK
<1>4. c.head \in Descs /\ c.kind \in Kind /\ Size \notin Descs
  BY <1>3, VirtqueueAssumption DEF TypeOK, Descs
<1>5. PICK t \in Threads : Asked(c, t)
  BY <1>3 DEF Requests
<1>6. /\ request[t].head = c.head /\ pc[t] = c.kind /\ request[t].taken
      /\ request[t].answer = "none" /\ t \in Waiting
  BY <1>4, <1>5 DEF Asked, Waiting
<1>7. \A u \in Threads : request[u].head = c.head <=> u = t
  BY <1>3, <1>4, <1>6, SameHead
<1>8. /\ request' \in [Threads -> Request]
      /\ \A u \in Threads :
           /\ request'[u].head = request[u].head /\ request'[u].resp = request[u].resp
           /\ request'[u].taken = request[u].taken
           /\ u # t => request'[u] = request[u]
      /\ request'[t].answer = answer
  BY <1>1, <1>3, <1>7 DEF TypeOK, Request
<1>9. VirtqueueTypeOK'
  <2>1. used_idx \in 0 .. Wrap - 1 /\ Wrap \in Nat \ {0} /\ Size \in Nat \ {0}
    BY <1>3, VirtqueueAssumption DEF VirtqueueTypeOK
  <2>2. used_idx \in Nat /\ used_idx + 1 \in Nat
    BY <2>1
  <2>3. used_idx % Size \in Descs /\ (used_idx + 1) % Wrap \in 0 .. Wrap - 1
    BY <2>1, <2>2, DivMod DEF Descs
  <2> QED
    BY <1>1, <1>2, <1>3, <1>4, <2>3 DEF VirtqueueTypeOK, put_used
<1>10. /\ frame' = frame /\ copy' \in {copy, frame} /\ shown' \in {shown, copy}
       /\ resource' \in {"none", "create", "attach", "scanout"}
       /\ answer = "ok" => /\ resource' = IF c.kind \in {"create", "attach", "scanout"}
                                            THEN c.kind ELSE resource
                           /\ c.kind = "transfer" => copy' = frame
                           /\ c.kind = "flush" => shown' = copy /\ copy' = copy
       /\ answer # "ok" => resource' = resource
       /\ copy' # copy => shown' = shown
  BY <1>1, <1>3 DEF TypeOK, Perform
<1>11. /\ frame \in Nat /\ copy \in Nat /\ shown \in Nat /\ shown <= copy /\ copy <= frame
       /\ {frame, copy, shown} \subseteq 0 .. MaxFrame
  BY <1>3, VirtioGpuAssumption DEF TypeOK, Frames
<1>12. TypeOK'
  <2>1. {frame, copy, shown}' \subseteq 0 .. MaxFrame
    BY <1>10, <1>11
  <2>2. commands' \subseteq [head : Descs, kind : Kind]
    BY <1>1, <1>3 DEF TypeOK
  <2> QED
    BY <1>2, <1>3, <1>8, <1>9, <1>10, <2>1, <2>2 DEF TypeOK
<1>13. Waiting' = Waiting /\ \A u \in Waiting : Held(u)' = Held(u)
  BY <1>8 DEF Waiting, Held
<1>14. Partition(queue, Owned)'
  <2>1. Owned' = Owned
    BY <1>13 DEF Owned
  <2> QED
    BY <1>2, <2>1 DEF IInv
<1>15. Requests'
  <2>1. OneRequest(t)'
    BY <1>2, <1>3, <1>4, <1>6, <1>8 DEF Requests, OneRequest
  <2>2. ASSUME NEW u \in Threads, u # t PROVE OneRequest(u)'
    BY <1>2, <1>3, <1>8, <2>2 DEF Requests, OneRequest
  <2>3. Apart'
    BY <1>3, <1>13 DEF Requests, Apart
  <2>4. ASSUME NEW e \in commands' PROVE \E u \in Threads : Asked(e, u)'
    <3>1. e \in commands /\ e # c
      BY <1>1
    <3>2. PICK u \in Threads : Asked(e, u)
      BY <1>3, <3>1 DEF Requests
    <3>3. u # t
      <4> SUFFICES ASSUME u = t PROVE FALSE
        OBVIOUS
      <4>1. e.head = c.head /\ e.kind = c.kind
        BY <1>6, <3>2 DEF Asked
      <4>2. e \in [head : Descs, kind : Kind] /\ c \in [head : Descs, kind : Kind]
        BY <1>3, <3>1 DEF TypeOK
      <4> QED
        BY <3>1, <4>1, <4>2
    <3>4. Asked(e, u)'
      BY <1>2, <1>8, <3>2, <3>3 DEF Asked
    <3> QED
      BY <3>4
  <2> QED
    BY <2>1, <2>2, <2>3, <2>4 DEF Requests
<1>16. Ring'
  <2> DEFINE v == new_used'
  <2>1. n \in Nat /\ n < Size - 1 /\ DOMAIN new_used = 1 .. n
    BY <1>3, Room, NewUsed
  <2>2. Len(v) = n + 1 /\ v[n + 1] = c.head /\ \A k \in 1 .. n : v[k] = new_used[k]
    BY <1>1, <1>2, <1>3, <1>4, <1>9, <2>1, PutUsed
  <2>3. DOMAIN v = 1 .. n + 1
    <3>1. (DOMAIN new_used = 1 .. Len(new_used))'
      BY <1>9, NewUsed, PTL
    <3> QED
      BY <2>2, <3>1
  <2> HIDE DEF v, n
  <2> DEFINE answered(x) == \E u \in Threads : request'[u].head = x /\ request'[u].taken
                                               /\ request'[u].answer # "none"
  <2>4. ASSUME NEW k \in 1 .. n PROVE answered(new_used[k]) /\ new_used[k] # c.head
    <3>1. PICK u \in Threads : request[u].head = new_used[k] /\ request[u].taken
                               /\ request[u].answer # "none"
      BY <1>3, <2>1 DEF Ring, Used
    <3>2. u # t
      BY <1>6, <3>1
    <3>3. new_used[k] # c.head
      BY <1>7, <3>1, <3>2
    <3>4. answered(new_used[k])
      BY <1>8, <3>1, <3>2
    <3> QED
      BY <3>3, <3>4
  <2>5. answered(c.head)
    BY <1>6, <1>8
  <2> HIDE DEF answered
  <2>6. \A k \in DOMAIN v : k \in 1 .. n \/ k = n + 1
    BY <2>1, <2>3
  <2>7. \A k \in DOMAIN v : answered(v[k])
    BY <2>2, <2>4, <2>5, <2>6
  <2>8. \A j, k \in DOMAIN v : v[j] = v[k] => j = k
    <3>1. \A j, k \in 1 .. n : new_used[j] = new_used[k] => j = k
      BY <1>3, <2>1 DEF Ring
    <3> QED
      BY <2>2, <2>4, <2>6, <3>1
  <2>9. irq_status' /\ (in_irq' => \E u \in Waiting' : ~request'[u].taken)
    <3>1. irq_status'
      BY <1>1 DEF put_used
    <3>2. \A u \in Waiting : u \in Threads
      BY DEF Waiting
    <3> QED
      BY <1>2, <1>3, <1>8, <1>13, <3>1, <3>2 DEF Ring
  <2>10. v # <<>>
    BY <2>1, <2>2
  <2> QED
    BY <2>7, <2>8, <2>9, <2>10 DEF Ring, Used, answered, v
<1>17. Stage'
  <2>1. c.kind # "idle"
    BY <1>4, KindIs
  <2>2. driver # "off" /\ "failed" \notin status
    BY <1>3, <1>6, <2>1 DEF Stage
  <2>3. CASE driver = "init"
    <3>1. resource = Needs(c.kind)
      BY <1>3, <1>6, <2>1, <2>3 DEF Stage
    <3>2. answer = "ok" => resource' = After(pc'[t])
      BY <1>2, <1>6, <1>10, <3>1 DEF After
    <3>3. \A u \in Threads : pc'[u] # "idle" => u = t
      BY <1>2, <1>3, <1>6, <2>1, <2>3 DEF Stage
    <3>4. answer # "none"
      OBVIOUS
    <3> QED
      BY <1>2, <1>3, <1>8, <2>2, <2>3, <3>2, <3>3, <3>4 DEF Stage
  <2>4. CASE driver = "ready"
    <3>1. c.kind \in {"transfer", "flush"}
      BY <1>3, <1>6, <2>1, <2>4 DEF Stage
    <3>2. resource' = resource
      BY <1>10, <3>1
    <3> QED
      BY <1>2, <1>3, <2>2, <2>4, <3>2 DEF Stage
  <2> QED
    BY <1>3, <2>2, <2>3, <2>4 DEF TypeOK
<1>18. Frames'
  <2>1. copy' >= copy /\ shown' >= shown /\ shown' <= copy' /\ copy' <= frame'
        /\ copy' \in Nat /\ shown' \in Nat
    BY <1>10, <1>11
  <2>2. ASSUME NEW u \in Threads PROVE FrameOf(u)'
    <3> DEFINE w == result[u].wanted
    <3>1. w \in Nat /\ FrameOf(u)
      BY <1>3, ThreadTypes DEF Frames
    <3>2. (copy >= w => copy' >= w) /\ (shown >= w => shown' >= w)
          /\ (w <= frame => frame >= w)
      BY <1>11, <2>1, <3>1
    <3>3. CASE u # t
      BY <1>2, <1>8, <1>10, <3>1, <3>2, <3>3 DEF FrameOf
    <3>4. CASE u = t
      <4>1. answer = "ok" /\ pc[u] = "transfer" => copy' >= w
        BY <1>6, <1>10, <3>1, <3>2, <3>4 DEF FrameOf
      <4>2. answer = "ok" /\ pc[u] = "flush" => shown' >= w
        BY <1>6, <1>10, <3>1, <3>4 DEF FrameOf
      <4> QED
        BY <1>2, <1>8, <1>10, <3>1, <3>2, <3>4, <4>1, <4>2 DEF FrameOf
    <3> QED
      BY <3>3, <3>4
  <2> QED
    BY <2>1, <2>2 DEF Frames
<1> QED
  BY <1>12, <1>14, <1>15, <1>16, <1>17, <1>18 DEF IInv

-----------------------------------------------------------------------------
(* The theorems                                                            *)

\* The requests of the threads, the commands of the device, the used ring and
\* the frames stay in step, and every descriptor is accounted for.
THEOREM VirtioGpuInvariant == Spec => []IInv
<1>1. Init => IInv
  BY InitInvariant
<1>2. IInv /\ [Next]_vars => IInv'
  <2> SUFFICES ASSUME IInv, [Next]_vars PROVE IInv'
    OBVIOUS
  <2>1. CASE init_fails
    BY <2>1, HaltStep DEF init_fails
  <2>2. CASE \E t \in Threads, found \in Negotiations, queues \in BOOLEAN :
               init(t, found, queues)
    BY <2>2, InitStep
  <2>3. CASE \E t \in Threads : refresh(t)
    BY <2>3, RefreshStep
  <2>4. ASSUME NEW t \in Threads, ThreadNext(t) PROVE IInv'
    <3>1. CASE cmd_send_receive(t)
      BY <3>1, SendStep
    <3>2. CASE cmd_send_receive_wild(t)
      BY <3>2, HaltStep DEF cmd_send_receive_wild
    <3>3. CASE cmd_send_receive_nomem(t)
      BY <3>3, NomemStep
    <3>4. CASE mutex_take_succeeds(t)
      BY <3>4, AnswerStep
    <3>5. CASE alloc_framebuffer_storage_asserts(t)
      BY <3>5, HaltStep DEF alloc_framebuffer_storage_asserts
    <3> QED
      BY <2>4, <3>1, <3>2, <3>3, <3>4, <3>5 DEF ThreadNext
  <2>5. CASE draw
    BY <2>5, DrawStep
  <2>6. CASE HandlerNext
    BY <2>6, HandleStep, AckStep DEF HandlerNext
  <2>7. CASE \E d \in Descs : DeviceNext(d)
    BY <2>7, DeviceStep DEF DeviceNext
  <2>8. CASE UNCHANGED vars
    <3>1. UNCHANGED <<queue, used_idx, used_ring, last_seen_used_idx, irq_status,
                      in_irq, driver, status, wild, m_pending_requests, commands,
                      busy, pc, request, result, resource, frame, copy, shown, halted>>
      BY <2>8 DEF vars, virtqueue, used, threads, display
    <3> QED
      BY <3>1, SameStep
  <2> QED
    BY <2>1, <2>2, <2>3, <2>4, <2>5, <2>6, <2>7, <2>8 DEF Next
<1> QED
  BY <1>1, <1>2, PTL DEF Spec

\* For every queue size and every set of threads: commands of several threads,
\* refused ones too, lose no descriptor and share none, and the device never
\* has a command that it is not set up for.
THEOREM CommandsStaySound == Spec => []CommandsSound
<1>1. IInv => CommandsSound
  <2> SUFFICES ASSUME IInv PROVE CommandsSound
    OBVIOUS
  <2>1. DescriptorsConserved
    <3>1. PICK n, F : Free(queue, n, F) /\ F \cap Owned = {} /\ F \cup Owned = Descs
      BY DEF IInv, Partition
    <3>2. PICK s : FreeChain(queue, n, s) /\ Elements(n, s) = F
      BY <3>1 DEF Free
    <3>3. queue \in Queues
      BY DEF IInv, TypeOK, VirtqueueTypeOK, Queues
    <3>4. free_list[Size] = Size /\ FreeDescs = F
      BY <3>2, <3>3, FreeListIsChain
    <3>5. \A t \in Waiting : Held(t) \subseteq Owned /\ Held(t) \subseteq Descs
      BY WaitingThreads DEF IInv, Waiting
    <3>6. UNION {Held(t) : t \in Waiting} = Owned
      BY <3>5 DEF Owned
    <3>7. ASSUME NEW t \in Waiting PROVE Cardinality(Held(t)) = 2
      <4> DEFINE h == request[t].head
                 d == request[t].resp
                 S == {h}
      <4>1. d \notin S /\ Held(t) = S \cup {d}
        BY DEF IInv, Requests, OneRequest, Waiting, Held
      <4>2. IsFiniteSet(S) /\ Cardinality(S) = 1
        BY FS_Singleton
      <4> HIDE DEF S, d
      <4>3. Cardinality(S \cup {d}) = 2
        BY <4>1, <4>2, FS_AddElement
      <4> QED
        BY <4>1, <4>3
    <3>8. \A t \in Waiting : Held(t) \cap FreeDescs = {}
      BY <3>1, <3>4, <3>5
    <3>9. \A t \in Waiting, u \in Waiting : u # t => Held(t) \cap Held(u) = {}
      BY DEF IInv, Requests, Apart
    <3> QED
      BY <3>1, <3>4, <3>6, <3>7, <3>8, <3>9 DEF DescriptorsConserved
  <2>2. SetUpFirst
    <3> SUFFICES ASSUME NEW c \in commands
                 PROVE  /\ resource = Needs(c.kind)
                        /\ "driver_ok" \in status /\ "failed" \notin status
      BY DEF SetUpFirst
    <3>1. PICK t \in Threads : Asked(c, t)
      BY DEF IInv, Requests
    <3>2. pc[t] = c.kind /\ request[t].answer = "none" /\ c.kind \in Kind
      BY <3>1 DEF Asked, IInv, TypeOK
    <3>3. pc[t] # "idle"
      BY <3>2, KindIs
    <3>4. driver \in {"init", "ready"} /\ "driver_ok" \in status /\ "failed" \notin status
      BY <3>3 DEF IInv, TypeOK, Stage
    <3>5. CASE driver = "init"
      BY <3>2, <3>3, <3>4, <3>5 DEF IInv, Stage
    <3>6. CASE driver = "ready"
      <4>1. c.kind \in {"transfer", "flush"} /\ resource = "scanout"
        BY <3>2, <3>3, <3>6 DEF IInv, Stage
      <4>2. Needs("transfer") = "scanout" /\ Needs("flush") = "scanout"
        BY DEF Needs
      <4> QED
        BY <3>4, <4>1, <4>2
    <3> QED
      BY <3>4, <3>5, <3>6
  <2> QED
    BY <2>1, <2>2 DEF IInv, CommandsSound
<1> QED
  BY <1>1, VirtioGpuInvariant, PTL

\* A refresh that succeeds shows all that was drawn before it was called, for
\* every number of threads that draw and refresh meanwhile.
THEOREM RefreshesShowTheirFrame == Spec => []RefreshShowsFrame
<1>1. IInv => RefreshShowsFrame
  BY DEF IInv, Frames, FrameOf, RefreshShowsFrame
<1> QED
  BY <1>1, VirtioGpuInvariant, PTL

\* A step that overlooks a used buffer is the end of a handler that has dealt
\* with the buffer of another thread.
THEOREM OverlookedOnlyByTwo == Spec => OverlookedByTwo
<1>1. IInv /\ [Next]_vars
        => [Overlooked' /\ ~Overlooked => Cardinality(Waiting) > 1]_vars
  <2> SUFFICES ASSUME IInv, Next, Overlooked', ~Overlooked
               PROVE  Cardinality(Waiting) > 1
    OBVIOUS
  <2>1. new_used' # <<>> /\ ~irq_status' /\ (new_used # <<>> => irq_status)
    BY DEF Overlooked
  <2>2. handle_irq_returns
    <3>1. ASSUME UNCHANGED <<used_idx, used_ring, last_seen_used_idx, irq_status>>
          PROVE  FALSE
      <4>1. new_used' = new_used
        BY <3>1 DEF new_used, used_slot
      <4> QED
        BY <2>1, <3>1, <4>1
    <3>2. ~init_fails
      BY <3>1 DEF init_fails, Halt, virtqueue, used
    <3>3. \A t \in Threads, found \in Negotiations, queues \in BOOLEAN :
            ~init(t, found, queues)
      BY <3>1 DEF init, virtqueue, used
    <3>4. \A t \in Threads : ~refresh(t)
      BY <3>1 DEF refresh, virtqueue, used
    <3>5. \A t \in Threads : ~ThreadNext(t)
      <4> SUFFICES ASSUME NEW t \in Threads, ThreadNext(t) PROVE FALSE
        OBVIOUS
      <4>1. CASE cmd_send_receive(t)
        BY <3>1, <4>1 DEF cmd_send_receive, used
      <4>2. CASE cmd_send_receive_wild(t)
        BY <3>1, <4>2 DEF cmd_send_receive_wild, Halt, virtqueue, used
      <4>3. CASE cmd_send_receive_nomem(t)
        BY <3>1, <4>3 DEF cmd_send_receive_nomem, command_returns, used
      <4>4. CASE mutex_take_succeeds(t)
        BY <3>1, <4>4 DEF mutex_take_succeeds, command_returns, used
      <4>5. CASE alloc_framebuffer_storage_asserts(t)
        BY <3>1, <4>5 DEF alloc_framebuffer_storage_asserts, Halt, virtqueue, used
      <4> QED
        BY <4>1, <4>2, <4>3, <4>4, <4>5 DEF ThreadNext
    <3>6. ~draw
      BY <3>1 DEF draw, virtqueue, used
    <3>7. ~handle_irq
      <4> SUFFICES ASSUME handle_irq PROVE FALSE
        OBVIOUS
      <4>1. VirtqueueTypeOK /\ foreach_used_descriptor
        BY DEF IInv, TypeOK, handle_irq
      <4> QED
        BY <2>1, <4>1, NothingNew
    <3>8. \A d \in Descs : ~DeviceNext(d)
      BY <2>1 DEF DeviceNext, device_answers, put_used
    <3> QED
      BY <3>2, <3>3, <3>4, <3>5, <3>6, <3>7, <3>8 DEF Next, HandlerNext
  <2>3. in_irq /\ new_used # <<>> /\ VirtqueueTypeOK
    <3>1. /\ in_irq /\ UNCHANGED <<used_idx, used_ring, last_seen_used_idx>>
      BY <2>2 DEF handle_irq_returns, handle_irq_ack, used
    <3>2. new_used' = new_used
      BY <3>1 DEF new_used, used_slot
    <3> QED
      BY <2>1, <3>1, <3>2 DEF IInv, TypeOK
  <2>4. PICK t \in Waiting : ~request[t].taken
    BY <2>3 DEF IInv, Ring
  <2>5. PICK u \in Waiting : request[u].taken
    <3>1. new_used \in Seq(Descs)
      BY <2>3, NewUsed
    <3>2. 1 \in DOMAIN new_used /\ new_used[1] \in Descs
      BY <2>3, <3>1
    <3>3. PICK u \in Threads : request[u].head = new_used[1] /\ request[u].taken
      BY <3>2 DEF IInv, Ring, Used
    <3>4. u \in Waiting
      BY <3>2, <3>3, VirtqueueAssumption DEF Waiting, Descs
    <3> QED
      BY <3>3, <3>4
  <2>6. IsFiniteSet(Waiting)
    <3> DEFINE f == [w \in Waiting |-> request[w].head]
    <3>1. \A w \in Waiting : w \in Threads /\ request[w].head \in Descs
      BY WaitingThreads DEF IInv, Waiting
    <3>2. \A v, w \in Waiting : f[v] = f[w] => v = w
      BY SameHead DEF IInv, Waiting
    <3>3. f \in Injection(Waiting, Descs)
      <4>1. f \in [Waiting -> Descs]
        BY <3>1
      <4> HIDE DEF f
      <4> QED
        BY <3>2, <4>1 DEF Injection, IsInjective
    <3> HIDE DEF f
    <3>4. IsFiniteSet(Descs)
      BY VirtqueueAssumption, FS_Interval DEF Descs
    <3> QED
      BY <3>3, <3>4, FS_Injection
  <2>7. Cardinality(Waiting) \in Nat
    BY <2>6, FS_CardinalityType
  <2>8. Cardinality(Waiting) # 0
    BY <2>4, <2>6, FS_EmptySet
  <2>9. Cardinality(Waiting) # 1
    <3> SUFFICES ASSUME Cardinality(Waiting) = 1 PROVE FALSE
      OBVIOUS
    <3>1. PICK x : Waiting = {x}
      BY <2>6, FS_Singleton
    <3>2. t = u
      BY <3>1
    <3> QED
      BY <2>4, <2>5, <3>2
  <2> QED
    BY <2>7, <2>8, <2>9
<1> QED
  BY <1>1, VirtioGpuInvariant, PTL DEF Spec, OverlookedByTwo
=============================================================================
