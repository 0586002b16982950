------------------------------ MODULE Processes ------------------------------
(***************************************************************************)
(* Threads, the table of threads, and what blocked threads wait for: the   *)
(* state that Scheduler acts on, and what must hold of it.                 *)
(***************************************************************************)
EXTENDS Naturals

CONSTANTS
    Threads,    \* addresses of Thread objects (and of their processes)
    FirstThread,\* the thread of create_first_process
    NoThread,   \* the null pointer
    Size,       \* length of s_all_threads (64)
    MaxSleep,   \* bound: the longest sleep, in timer interrupts
    Faulty      \* threads whose program may fault

ASSUME SchedulerAssumption ==
    /\ FirstThread \in Threads
    /\ NoThread \notin Threads
    /\ Size \in Nat \ {0}
    /\ MaxSleep \in Nat
    /\ Faulty \subseteq Threads

VARIABLES
    s_all_threads, s_all_threads_len,
    i,          \* index of the scheduler's loop
    current,    \* s_current_thread, NoThread while the loop itself runs
    state,      \* Thread::state, "free" for memory that holds no thread
    at,         \* what a thread does when it runs next
    target,     \* the process sys$waitexit found
    mutex,      \* whether the Mutex on a thread's stack is locked
    listeners,  \* Process::process_exit_listeners
    wild,       \* processes whose listener list starts at a garbage pointer
    timers,     \* s_timers: interrupts left until a thread's timer expires
    has_started,\* g_scheduler_has_started
    irq,        \* whether the CPU takes interrupts
    halted      \* why the kernel stopped, if it did

Slots == 1 .. Size

ProcessesTypeOK ==
    /\ s_all_threads \in [Slots -> Threads \cup {NoThread}]
    /\ s_all_threads_len \in 0 .. Size
    /\ i \in Slots
    /\ current \in Threads \cup {NoThread}
    /\ state \in [Threads -> {"free", "Runnable", "Zombie"}]
    /\ at \in [Threads -> {"user", "yield", "waitexit", "millisleep"}]
    /\ target \in [Threads -> Threads \cup {NoThread}]
    /\ mutex \in [Threads -> BOOLEAN]
    /\ listeners \in [Threads -> SUBSET Threads]
    /\ wild \in SUBSET Threads
    /\ timers \in [Threads -> 0 .. MaxSleep]
    /\ has_started \in BOOLEAN
    /\ irq \in BOOLEAN
    /\ halted \in {"no", "kassert", "undefined"}

-----------------------------------------------------------------------------
(* Properties                                                              *)

\* The thread table: a thread that exists has one slot, below
\* s_all_threads_len, and memory that was freed has none.
ThreadTable ==
    /\ \A k \in Slots : k > s_all_threads_len => s_all_threads[k] = NoThread
    /\ \A k, l \in Slots :
         s_all_threads[k] # NoThread /\ s_all_threads[k] = s_all_threads[l]
           => k = l
    /\ \A t \in Threads :
         state[t] # "free" <=> \E k \in Slots : s_all_threads[k] = t

\* No wake-up is lost and none goes to a dead stack frame: a thread whose
\* mutex is locked is in the listener list of the live process it waits for,
\* or has a timer running; and every listener and every timer belongs to a
\* live thread blocked for it.
WaitersRegistered ==
    /\ \A t \in Threads : mutex[t] =>
         /\ state[t] = "Runnable"
         /\ \/ /\ at[t] = "waitexit" /\ target[t] # NoThread
               /\ state[target[t]] # "free" /\ t \in listeners[target[t]]
            \/ at[t] = "millisleep" /\ timers[t] > 0
    /\ \A q, t \in Threads : t \in listeners[q] =>
         at[t] = "waitexit" /\ target[t] = q /\ mutex[t]
    /\ \A t \in Threads : timers[t] > 0 =>
         at[t] = "millisleep" /\ mutex[t]

\* Only a thread the table knows, and that has not exited, has the CPU.
CurrentInv ==
    /\ current # NoThread => state[current] = "Runnable"
    /\ \A t \in Threads : at[t] = "user" /\ state[t] = "Runnable" =>
          current = t
    /\ current # NoThread => s_all_threads[i] = current
=============================================================================
