----------------------------- MODULE Scheduler -----------------------------
(***************************************************************************)
(* Threads, the scheduler's loop over the thread table, the system calls   *)
(* that create, end, delay and await processes (kernel/scheduler.cpp), the *)
(* mutexes they block on (kernel/locking), the timer interrupt             *)
(* (kernel/timer.cpp) and the data abort that ends a faulty process        *)
(* (kernel/arch/arm/armirq.cpp).                                           *)
(*                                                                         *)
(* Every process has exactly one thread, so a thread also stands for its   *)
(* process and for the frames on its kernel stack (the Mutex and the exit  *)
(* listener of sys$waitexit, the Mutex of sys$millisleep).  A blocked      *)
(* thread stays Runnable: it tests its mutex and yields until it is free.  *)
(* A context switch neither saves nor restores the interrupt mask.         *)
(***************************************************************************)
EXTENDS Processes

table == <<s_all_threads, s_all_threads_len>>
waits == <<target, mutex, listeners, wild, timers>>
vars == <<table, i, current, has_started, state, at, waits, irq, halted>>

\* create_first_process: one registered thread, about to enter its program.
Init ==
    /\ s_all_threads = [k \in Slots |-> IF k = 1 THEN FirstThread ELSE NoThread]
    /\ s_all_threads_len = 1
    /\ i = 1 /\ current = NoThread
    /\ state = [t \in Threads |->
                  IF t = FirstThread THEN "Runnable" ELSE "free"]
    /\ at = [t \in Threads |-> "yield"]
    /\ target = [t \in Threads |-> NoThread]
    /\ mutex = [t \in Threads |-> FALSE]
    /\ listeners = [t \in Threads |-> {}]
    /\ wild = {}
    /\ timers = [t \in Threads |-> 0]
    /\ has_started = FALSE
    /\ irq = TRUE
    /\ halted = "no"

Halt(why) ==
    /\ halted' = why
    /\ UNCHANGED <<table, i, current, has_started, state, at, waits, irq>>

-----------------------------------------------------------------------------
(* scheduler_start                                                         *)

next_slot_short == IF i + 1 >= Size THEN 1 ELSE i + 1

next_slot == IF i = Size THEN 1 ELSE i + 1

InLoop == halted = "no" /\ current = NoThread

loop_skip ==
    /\ InLoop /\ s_all_threads[i] = NoThread
    /\ i' = next_slot
    /\ UNCHANGED <<table, current, has_started, state, at, waits, irq, halted>>

loop_switch_unchecked ==
    /\ InLoop /\ s_all_threads[i] # NoThread
    /\ current' = s_all_threads[i]
    /\ UNCHANGED <<table, i, has_started, state, at, waits, irq, halted>>

loop_switch ==
    /\ InLoop /\ s_all_threads[i] # NoThread
    /\ state[s_all_threads[i]] = "Runnable"
    /\ current' = s_all_threads[i]
    /\ UNCHANGED <<table, i, has_started, state, at, waits, irq, halted>>

release_one(t) ==
    LET first == CHOOSE u \in listeners[t] : TRUE
    IN mutex' = [u \in Threads |->
                   mutex[u] /\ (listeners[t] = {} \/ u # first)]

\* free_process: every listener is popped, and its callback releases the
\* mutex on the stack of the thread that waits.
release_listeners(t) ==
    mutex' = [u \in Threads |-> mutex[u] /\ u \notin listeners[t]]

\* free_thread empties the slots below s_all_threads_len that hold the thread.
free_thread == [s_all_threads EXCEPT ![i] = NoThread]

\* The loop meets a zombie: free_thread, which frees the process with it.
loop_reap ==
    /\ InLoop /\ s_all_threads[i] # NoThread
    /\ LET t == s_all_threads[i]
       IN /\ state[t] = "Zombie" /\ t \notin wild
          /\ release_listeners(t)
          /\ listeners' = [listeners EXCEPT ![t] = {}]
          /\ s_all_threads' = free_thread
          /\ state' = [state EXCEPT ![t] = "free"]
    /\ i' = next_slot
    /\ UNCHANGED <<s_all_threads_len, current, has_started, at, target, wild,
                   timers, irq, halted>>

\* The list head was never initialized and is not null: pop follows it.
loop_reap_wild ==
    /\ InLoop /\ s_all_threads[i] # NoThread
    /\ state[s_all_threads[i]] = "Zombie" /\ s_all_threads[i] \in wild
    /\ Halt("undefined")

\* sys$yield switches back into the loop, which then knows that it runs
\* (g_scheduler_has_started).
Yield == current' = NoThread /\ i' = next_slot /\ has_started' = TRUE

-----------------------------------------------------------------------------
(* A running thread                                                        *)

Running(t, place) == halted = "no" /\ current = t /\ at[t] = place

\* The return to the program restores its status register: interrupts are on.
return_to_user(t) ==
    /\ Running(t, "yield")
    /\ at' = [at EXCEPT ![t] = "user"]
    /\ irq' = TRUE
    /\ UNCHANGED <<table, i, current, has_started, state, waits, halted>>

\* mutex_take: yield while the mutex is locked, then take it and return.
\* Before any thread has yielded it spins instead, which changes nothing.
mutex_take_yields(t) ==
    /\ Running(t, "waitexit") \/ Running(t, "millisleep")
    /\ has_started
    /\ mutex[t]
    /\ Yield
    /\ UNCHANGED <<table, state, at, waits, irq, halted>>

mutex_take_succeeds(t) ==
    /\ Running(t, "waitexit") \/ Running(t, "millisleep")
    /\ ~mutex[t]
    /\ at' = [at EXCEPT ![t] = "user"]
    /\ target' = [target EXCEPT ![t] = NoThread]
    /\ irq' = TRUE
    /\ UNCHANGED <<table, i, current, has_started, state, mutex, listeners,
                   wild, timers, halted>>

sys_yield(t) ==
    /\ Running(t, "user")
    /\ at' = [at EXCEPT ![t] = "yield"]
    /\ Yield
    /\ UNCHANGED <<table, state, waits, irq, halted>>

Exit(t, mask) ==
    /\ Running(t, "user")
    /\ state' = [state EXCEPT ![t] = "Zombie"]
    /\ irq' = mask
    /\ Yield
    /\ UNCHANGED <<table, at, waits, halted>>

\* dispatch_syscall enables interrupts before sys$exit ...
sys_exit(t) == Exit(t, TRUE)

\* ... and the data abort of a process enters sys$exit with them disabled.
data_abort_handler(t) == t \in Faulty /\ Exit(t, FALSE)

\* alloc_process leaves process_exit_listeners as malloc returned it: empty,
\* or (dirty) anything.  register_thread takes the next slot of the table.
sys_fork(t, q, dirty) ==
    /\ Running(t, "user") /\ state[q] = "free"
    /\ s_all_threads_len < Size
    /\ s_all_threads' = [s_all_threads EXCEPT ![s_all_threads_len + 1] = q]
    /\ s_all_threads_len' = s_all_threads_len + 1
    /\ state' = [state EXCEPT ![q] = "Runnable"]
    /\ at' = [at EXCEPT ![q] = "yield"]
    /\ wild' = IF dirty THEN wild \cup {q} ELSE wild \ {q}
    /\ UNCHANGED <<i, current, has_started, target, mutex, listeners, timers,
                   irq, halted>>

\* register_thread's kassert(s_all_threads_len < array_size(s_all_threads)).
register_thread_fails(t) ==
    /\ Running(t, "user") /\ s_all_threads_len = Size
    /\ \E q \in Threads : state[q] = "free"
    /\ Halt("kassert")

\* Any failure inside sys$fork uses memory after free_process freed it.
sys_fork_fails(t) == Running(t, "user") /\ Halt("undefined")

\* The process is found through the thread table; it may be the caller's own.
sys_waitexit(t, q) ==
    /\ Running(t, "user")
    /\ state[q] = "Runnable" /\ q \notin wild
    /\ \E k \in Slots : s_all_threads[k] = q
    /\ at' = [at EXCEPT ![t] = "waitexit"]
    /\ target' = [target EXCEPT ![t] = q]
    /\ mutex' = [mutex EXCEPT ![t] = TRUE]
    /\ listeners' = [listeners EXCEPT ![q] = @ \cup {t}]
    /\ UNCHANGED <<table, i, current, has_started, state, wild, timers, irq,
                   halted>>

\* add() writes through a garbage list head.
sys_waitexit_wild(t, q) ==
    /\ Running(t, "user")
    /\ state[q] = "Runnable" /\ q \in wild
    /\ Halt("undefined")

sys_millisleep(t, ticks) ==
    /\ Running(t, "user") /\ ticks > 0
    /\ at' = [at EXCEPT ![t] = "millisleep"]
    /\ mutex' = [mutex EXCEPT ![t] = TRUE]
    /\ timers' = [timers EXCEPT ![t] = ticks]
    /\ UNCHANGED <<table, i, current, has_started, state, target, listeners,
                   wild, irq, halted>>

\* timer_exec_once: mustmalloc panics when there is no memory.
sys_millisleep_fails(t) == Running(t, "user") /\ Halt("kassert")

-----------------------------------------------------------------------------
timer_irq_no_callback ==
    /\ halted = "no" /\ irq
    /\ timers' = [t \in Threads |-> IF timers[t] > 0 THEN timers[t] - 1 ELSE 0]
    /\ UNCHANGED <<table, i, current, has_started, state, at, target, mutex,
                   listeners, wild, irq, halted>>

\* The handler installed by timer_init: every timer whose time has come calls
\* back, which releases the sleeper's mutex, and is removed.
timer_irq ==
    /\ halted = "no" /\ irq
    /\ timers' = [t \in Threads |-> IF timers[t] > 0 THEN timers[t] - 1 ELSE 0]
    /\ mutex' = [t \in Threads |-> mutex[t] /\ timers[t] # 1]
    /\ UNCHANGED <<table, i, current, has_started, state, at, target,
                   listeners, wild, irq, halted>>

LoopNext == loop_skip \/ loop_switch \/ loop_reap \/ loop_reap_wild

KernelNext(t) ==
    \/ return_to_user(t)
    \/ mutex_take_yields(t)
    \/ mutex_take_succeeds(t)

UserNext(t) ==
    \/ sys_yield(t) \/ sys_exit(t) \/ data_abort_handler(t)
    \/ \E q \in Threads, dirty \in BOOLEAN : sys_fork(t, q, dirty)
    \/ register_thread_fails(t) \/ sys_fork_fails(t)
    \/ \E q \in Threads : sys_waitexit(t, q) \/ sys_waitexit_wild(t, q)
    \/ \E ticks \in 1 .. MaxSleep : sys_millisleep(t, ticks)
    \/ sys_millisleep_fails(t)

Next ==
    \/ LoopNext
    \/ \E t \in Threads : KernelNext(t) \/ UserNext(t)
    \/ timer_irq

Spec == Init /\ [][Next]_vars

\* The CPU never stops executing the kernel; a program that can yield again
\* and again does so some time (the kernel does not preempt it, so nothing
\* works otherwise); and a timer interrupt that is pending is taken once
\* interrupts are on.
Fairness ==
    /\ WF_vars(LoopNext)
    /\ \A t \in Threads : WF_vars(KernelNext(t))
    /\ \A t \in Threads : SF_vars(sys_yield(t))
    /\ SF_vars(timer_irq)

FairSpec == Spec /\ Fairness

-----------------------------------------------------------------------------
(* Properties                                                              *)

\* Once the process it waits for has exited, a waiting thread returns from
\* sys$waitexit, unless the kernel stops.
WaitersWake ==
    \A t, q \in Threads :
      (at[t] = "waitexit" /\ target[t] = q /\ state[q] = "Zombie")
        ~> (at[t] = "user" \/ halted # "no")

\* A sleeping thread returns from sys$millisleep, unless a program that
\* crashed has left the kernel with interrupts masked: nothing else, no
\* order of sleeps, exits and switches, ever stops the timers.
SleepersWake ==
    \A t \in Threads :
      at[t] = "millisleep" ~> (at[t] = "user" \/ ~irq \/ halted # "no")

\* The memory of a process that exited is given back.
ZombiesReaped ==
    \A t \in Threads :
      state[t] = "Zombie" ~> (state[t] = "free" \/ halted # "no")

\* Once one thread has yielded, no thread is forgotten: each one that has not
\* exited gets the CPU again.  (A first process that waits for its child
\* before it ever yields spins in spinlock_take, and nothing else runs.)
RunnableRuns ==
    \A t \in Threads :
      (has_started /\ state[t] = "Runnable") ~> (current = t \/ halted # "no")
=============================================================================
