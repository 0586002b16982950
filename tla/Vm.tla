-------------------------------- MODULE Vm ---------------------------------
(***************************************************************************)
(* Address spaces (kernel/memory/vm.cpp), the kernel heap's pages          *)
(* (kernel/memory/kheap.cpp) and the operations of kernel/scheduler.cpp    *)
(* and kernel/task/elfloader.cpp that create, copy, replace and free an    *)
(* address space.                                                          *)
(*                                                                         *)
(* A virtual address is the number of its page.  A level 1 entry covers a  *)
(* slot of T pages; slot 0 begins with the vector table, the slots from    *)
(* KernelSlot up are the kernel area: one of peripherals, HeapSlots of     *)
(* heap, one of physical memory, which is a section, as the kernel's code  *)
(* is.  A page of any order is one frame: PageAlloc is about the orders.   *)
(* The framebuffer is one page.                                            *)
(***************************************************************************)
EXTENDS Integers, FiniteSets, SequencesExt, TLC

CONSTANTS
    Procs,          \* processes, with one thread each
    Frames,         \* number of frames of the allocator
    HeapSlots,      \* number of slots of areas::kernel_heap
    Chunk,          \* bytes of a heap chunk (CHUNK_SIZE), as of any page
    Registers,      \* <<offset in its page, bytes>> of a device's registers
    SbrkSizes,      \* arguments malloc and free give to _sbrk
    MaxCalls,       \* bound: calls of fork, execve, mmap and _sbrk
    Programs,       \* the pages of an executable's PT_LOAD segments, in order
    MmapVas         \* the addresses processes map the framebuffer at

ASSUME VmAssumption ==
    /\ Frames \in Nat /\ HeapSlots \in Nat \ {0} /\ Chunk \in Nat \ {0}
    /\ Registers \subseteq Nat \X (Nat \ {0}) /\ SbrkSizes \subseteq Int
    /\ MaxCalls \in Nat /\ MmapVas \subseteq Nat
    /\ \A prog \in Programs : prog \in Seq(Nat)

\* round_up in pages.
pages_of(bytes) == (bytes + Chunk - 1) \div Chunk

\* What ioremap reserves and iounmap gives back, and what ioremap maps.
reserved_pages(d) == pages_of(d[1] + d[2])
mapped_pages(d) == pages_of(d[2])

\* No device of the machines has registers that need a page more than their
\* number of bytes does: ioremap would reserve that page and not map it.
ASSUME RegistersAssumption ==
    \A d \in Registers : reserved_pages(d) = mapped_pages(d)

T == 2              \* LVL2_ENTRIES
KernelSlot == 2     \* lvl1_index(areas::kernel_area.start)
PhysSlot == KernelSlot + 1 + HeapSlots
Slots == 0 .. PhysSlot
UserSlots == 0 .. KernelSlot - 1
KernelSlots == KernelSlot .. PhysSlot
Peripherals == KernelSlot * T .. (KernelSlot + 1) * T - 1
HeapStart == (KernelSlot + 1) * T
HeapEnd == PhysSlot * T

KernelPages == KernelSlot * T .. (PhysSlot + 1) * T - 1

\* The user stack grows down from the kernel area.
StackPages == <<KernelSlot * T - 1>>

Kernel == 1         \* the frame of the kernel's root table
Fb == 0             \* a page of g_framebuffer_storage, part of the kernel image
Section == -1
Null == -2          \* an empty entry, a null pointer
Mmio == -3          \* a page of device registers, unknown to the allocator
Pages == 0 .. Frames

VARIABLES
    mem,            \* physical memory, see MemType
    current,        \* g_current_address_space and TTBR0
    running,        \* whose code the CPU runs
    proc,           \* the processes
    used,           \* s_ioremap.used: pairs <<first page, registers>>
    placed,         \* history: where in the kernel area processes placed pages
    g_brk,          \* in bytes from the start of the heap
    g_last_mapped_chunk,
    halted,         \* why the kernel stopped
    calls           \* calls made so far

vars == <<mem, current, running, proc, used, placed, g_brk, g_last_mapped_chunk,
          halted, calls>>

\* free holds the frames on the allocator's lists.  lvl1 and lvl2 give the
\* contents of the frames last used for a table.  lost counts the references
\* the kernel dropped without giving them back; rc is the outcome so far of
\* the operation that runs.
MemType ==
    /\ DOMAIN mem = {"free", "ref", "lvl1", "lvl2", "lost", "rc"}
    /\ mem.free \subseteq Pages
    /\ mem.ref \in [Pages -> Nat]
    /\ mem.lost \in [Pages -> Nat]
    /\ DOMAIN mem.lvl1 \subseteq Pages /\ DOMAIN mem.lvl2 \subseteq Pages
    /\ \A r \in DOMAIN mem.lvl1 :
         mem.lvl1[r] \in [Slots -> Pages \cup {Null, Section}]
    /\ \A t \in DOMAIN mem.lvl2 :
         mem.lvl2[t] \in [0 .. T - 1 -> Pages \cup {Null, Mmio}]

ProcType ==
    [st : {"none", "ready", "exec", "mapping", "zombie"},
     as : Pages \cup {Null}, new_as : Pages \cup {Null},
     kstack : Pages \cup {Null}]

NoProcess == [st |-> "none", as |-> Null, new_as |-> Null, kstack |-> Null]

TypeOK ==
    /\ MemType
    /\ current \in Pages
    /\ running \in Procs \cup {"boot", "scheduler"}
    /\ proc \in [Procs -> ProcType]
    /\ used \subseteq Peripherals \X Registers
    /\ placed \subseteq KernelPages
    /\ g_brk \in 0 .. (HeapEnd - HeapStart) * Chunk
    /\ g_last_mapped_chunk \in HeapStart .. HeapEnd
    /\ halted \in {"no", "panic", "assert", "fault", "wild"}
    /\ calls \in 0 .. MaxCalls

-----------------------------------------------------------------------------
(* Physical pages, as physicalalloc.cpp hands them out and takes them back *)

ok(m) == m.rc = "ok"

outcome(m, rc) == [m EXCEPT !.rc = rc]

\* The lists are not empty; which frame comes first does not matter.
next_free(m) == CHOOSE f \in m.free : \A g \in m.free : f <= g

without(f, x) == [y \in DOMAIN f \ {x} |-> f[y]]

\* pop_page_from_free_pages_list asserts that nobody has a reference.
physical_page_alloc(m) ==
    LET f == next_free(m)
    IN IF ~ok(m) THEN m
       ELSE IF m.free = {} THEN outcome(m, "nomem")
       ELSE IF m.ref[f] # 0 THEN outcome(m, "assert")
       ELSE [m EXCEPT !.free = @ \ {f}, !.ref[f] = 1,
                      !.lvl1 = without(@, f), !.lvl2 = without(@, f)]

\* References dropped at once, as many per page as drops says; kassert
\* (ref_count > 0), and a page nobody refers to any more is free.
physical_page_free(m, drops) ==
    IF ~ok(m) THEN m
    ELSE IF \E p \in Pages : m.ref[p] < drops[p] THEN outcome(m, "assert")
    ELSE [m EXCEPT !.ref = [p \in Pages |-> @[p] - drops[p]],
                   !.free = @ \cup {p \in Pages : drops[p] > 0 /\ m.ref[p] = drops[p]}]

one(q) == [p \in Pages |-> IF p = q THEN 1 ELSE 0]

-----------------------------------------------------------------------------
(* vm.cpp                                                                  *)

lvl1_index(va) == va \div T

\* A level 2 table that was just allocated and cleared.
new_table(m, f) == [m EXCEPT !.lvl2 = (f :> [i \in 0 .. T - 1 |-> Null]) @@ @]

roots_to_update_own(r, s) == {r}

\* Where a missing level 1 entry comes from: the kernel's root table, if the
\* address is in the kernel area,
known_entry(m, s) == IF s \in KernelSlots THEN m.lvl1[Kernel][s] ELSE Null

\* or a new table, which is then entered in the kernel's root table too:
\* kassert that it has no other.
roots_to_update(r, s) == IF s \in KernelSlots THEN {r, Kernel} ELSE {r}

lvl1_entry(m, r, s) ==
    LET f == next_free(m)
        fresh == new_table(physical_page_alloc(m), f)
    IN IF m.lvl1[r][s] # Null THEN m
       ELSE IF known_entry(m, s) # Null
         THEN [m EXCEPT !.lvl1[r][s] = known_entry(m, s)]
       ELSE IF ~ok(physical_page_alloc(m)) THEN outcome(m, "panic")
       ELSE IF s \in KernelSlots /\ m.lvl1[Kernel][s] # Null THEN outcome(m, "assert")
       ELSE [fresh EXCEPT !.lvl1 =
               [q \in DOMAIN @ |->
                  IF q \in roots_to_update(r, s) THEN [@[q] EXCEPT ![s] = f]
                  ELSE @[q]]]

vm_map_page(m, r, p, va) ==
    LET m1 == lvl1_entry(m, r, lvl1_index(va))
        t == m1.lvl1[r][lvl1_index(va)]
    IN IF ~ok(m) THEN m
       ELSE IF m.lvl1[r][lvl1_index(va)] = Section THEN outcome(m, "panic")
       ELSE IF ~ok(m1) THEN m1
       ELSE IF m1.lvl2[t][va % T] # Null THEN outcome(m1, "panic")
       ELSE [m1 EXCEPT !.lvl2[t][va % T] = p]

\* What the callers do: take a page from the allocator and map it.
alloc_and_map(m, r, va) ==
    LET m1 == physical_page_alloc(m)
    IN IF ok(m1) THEN vm_map_page(m1, r, next_free(m), va) ELSE m1

alloc_and_map_all(m, r, vas) ==
    FoldLeft(LAMBDA acc, va : alloc_and_map(acc, r, va), m, vas)

\* A shortage of memory under MUST.
MUST(m) == IF m.rc = "nomem" THEN outcome(m, "panic") ELSE m

mapped(m, va) ==
    LET t == m.lvl1[Kernel][lvl1_index(va)]
    IN IF t \in {Null, Section} THEN Null ELSE m.lvl2[t][va % T]

\* Every address the kernel unmaps is in the kernel area, where the entry is
\* looked up in the kernel's root table and the table is never freed.
vm_unmap_page(m, va) ==
    IF mapped(m, va) = Null THEN m
    ELSE [m EXCEPT !.lvl2[m.lvl1[Kernel][lvl1_index(va)]][va % T] = Null]

vector_page(m) == m.lvl2[m.lvl1[Kernel][0]][0]

\* The first page of every address space, with a reference of its own.
share_vector_page(m, t) ==
    [m EXCEPT !.lvl2[t][0] = vector_page(m), !.ref[vector_page(m)] = @ + 1]

\* A root table that shares the kernel area and has a table of its own for
\* the first slot, with only the vector table in it.  When there is no page
\* for that table, the one of the root table goes back.
vm_create_address_space(m) ==
    LET m1 == physical_page_alloc(m)
        t == next_free(m1)
        m2 == physical_page_alloc(m1)
        root == [s \in Slots |->
                   IF s = 0 THEN t
                   ELSE IF s \in KernelSlots THEN m.lvl1[Kernel][s] ELSE Null]
        m3 == [new_table(m2, t) EXCEPT !.lvl1 = (next_free(m) :> root) @@ @]
    IN IF ~ok(m1) THEN m1
       ELSE IF ~ok(m2) THEN outcome(m, m2.rc)
       ELSE share_vector_page(m3, t)

user_tables(m, r) == {s \in UserSlots : m.lvl1[r][s] # Null}

\* The references a user's root table holds to page p through its slots S.
held(m, r, S, p) ==
    Cardinality({s \in S : m.lvl1[r][s] = p})
    + Cardinality({x \in S \X (0 .. T - 1) : m.lvl2[m.lvl1[r][x[1]]][x[2]] = p})

references_tables_only(m, r, p) ==
    Cardinality({s \in user_tables(m, r) : m.lvl1[r][s] = p}) + one(r)[p]

\* The references vm_free gives back: a user's pages, their tables and the
\* root table.
references(m, r, p) == held(m, r, user_tables(m, r), p) + one(r)[p]

\* The kernel area of the root table keeps its contents.
vm_free(m, r) ==
    LET S == user_tables(m, r)
        m1 == physical_page_free(m, [p \in Pages |-> references(m, r, p)])
    IN IF r = Null \/ ~ok(m) THEN m
       ELSE IF ~ok(m1) THEN m1
       ELSE [m1 EXCEPT
               !.lvl2 = [t \in DOMAIN @ \ {m.lvl1[r][s] : s \in S} |-> @[t]],
               !.lvl1[r] = [s \in Slots |-> IF s \in S THEN Null ELSE @[s]]]

\* One entry of vm_fork: the page's copy takes the same place in the child.
fork_entry_shared(m, src, dst, s, i) ==
    IF m.lvl2[m.lvl1[src][s]][i] = Null THEN m
    ELSE [m EXCEPT !.lvl2[m.lvl1[dst][s]][i] = m.lvl2[m.lvl1[src][s]][i],
                   !.ref[m.lvl2[m.lvl1[src][s]][i]] = @ + 1]

fork_entry(m, src, dst, s, i) ==
    LET m1 == physical_page_alloc(m)
    IN IF m.lvl2[m.lvl1[src][s]][i] = Null THEN m
       ELSE IF ~ok(m1) THEN m1
       ELSE [m1 EXCEPT !.lvl2[m.lvl1[dst][s]][i] = next_free(m)]

\* One slot of vm_fork: what the child's entry pointed to, if anything, is
\* overwritten and its references are lost.
fork_slot(m, src, dst, s) ==
    LET m1 == physical_page_alloc(m)
        m2 == new_table(m1, next_free(m))
        S == {s} \cap user_tables(m, dst)
        m3 == [m2 EXCEPT !.lvl1[dst][s] = next_free(m),
                         !.lost = [p \in Pages |-> @[p] + held(m, dst, S, p)],
                         !.lvl2 = [t \in DOMAIN @ \ {m.lvl1[dst][q] : q \in S} |-> @[t]]]
    IN IF s \notin user_tables(m, src) THEN m
       ELSE IF ~ok(m1) THEN m1
       ELSE FoldLeft(LAMBDA acc, i : IF ok(acc) THEN fork_entry(acc, src, dst, s, i)
                                     ELSE acc,
                     m3, [i \in 1 .. T |-> i - 1])

fork_slots_short == [k \in 1 .. KernelSlot - 1 |-> k - 1]

fork_slots == [k \in 1 .. KernelSlot |-> k - 1]

vm_fork(m, src, dst) ==
    FoldLeft(LAMBDA acc, s : fork_slot(acc, src, dst, s), m, fork_slots)

-----------------------------------------------------------------------------
(* Boot                                                                    *)

boot_memory ==
    [free |-> 2 .. Frames,
     ref  |-> [p \in Pages |-> IF p = Kernel THEN 1 ELSE 0],
     lvl1 |-> Kernel :> [s \in Slots |-> IF s = PhysSlot THEN Section ELSE Null],
     lvl2 |-> << >>,
     lost |-> [p \in Pages |-> 0],
     rc   |-> "ok"]

arch_irq_init(m) == alloc_and_map(m, Kernel, 0)

kheap_init(m) == alloc_and_map(m, Kernel, HeapStart)

Init ==
    /\ mem = kheap_init(arch_irq_init(boot_memory))
    /\ current = Kernel /\ running = "boot"
    /\ proc = [p \in Procs |-> NoProcess]
    /\ used = {} /\ placed = {}
    /\ g_brk = 0 /\ g_last_mapped_chunk = HeapStart
    /\ halted = "no" /\ calls = 0

booting == halted = "no" /\ running = "boot"

scheduling == halted = "no" /\ running = "scheduler"

runs(p, states) == halted = "no" /\ running = p /\ proc[p].st \in states

counted == calls < MaxCalls /\ calls' = calls + 1

\* The outcome of an operation that ran to its end, or that stopped the kernel.
finish(m) ==
    /\ mem' = outcome(m, "ok")
    /\ halted' = IF m.rc \in {"ok", "nomem"} THEN "no" ELSE m.rc

goes_wild ==
    /\ halted' = "wild"
    /\ UNCHANGED <<mem, current, running, proc, used, placed, g_brk, g_last_mapped_chunk>>

\* The pages whose bit is set.
range_of(u) == u[1] .. u[1] + reserved_pages(u[2]) - 1

used_pages == UNION {range_of(u) : u \in used}

bitmap_fits(i, n) == i .. i + n - 1 \subseteq Peripherals \ used_pages

\* ioremap_bitmap_alloc: the first run of n free pages.
ioremap_bitmap_alloc(n) ==
    {i \in Peripherals :
       bitmap_fits(i, n) /\ \A j \in Peripherals : bitmap_fits(j, n) => i <= j}

\* The device manager and the drivers map registers while the kernel boots,
\* with the kernel's root table.
ioremap(d) ==
    /\ booting
    /\ \E i \in ioremap_bitmap_alloc(reserved_pages(d)) :
         /\ used' = used \cup {<<i, d>>}
         /\ finish(FoldLeft(LAMBDA m, va : vm_map_page(m, current, Mmio, va),
                            mem, [k \in 1 .. mapped_pages(d) |-> i + k - 1]))
    /\ UNCHANGED <<current, running, proc, placed, g_brk, g_last_mapped_chunk, calls>>

\* A driver whose device is not there gives its registers back; kassert that
\* all their pages were mapped.
iounmap(u) ==
    /\ booting /\ u \in used
    /\ used' = used \ {u}
    /\ finish(IF \E va \in range_of(u) : mapped(mem, va) = Null
                THEN outcome(mem, "assert")
                ELSE FoldLeft(vm_unmap_page, mem, SetToSeq(range_of(u))))
    /\ UNCHANGED <<current, running, proc, placed, g_brk, g_last_mapped_chunk, calls>>

-----------------------------------------------------------------------------
(* The kernel heap, in whatever address space the kernel runs              *)

\* The chunk that holds byte b of the heap.
round_down(b) == HeapStart + b \div Chunk

chunks(from, to) == [k \in 1 .. to - from |-> from + k]

\* The chunk unmapped is the last one, until the right one is the last.
shrink_heap(m, from, to) ==
    FoldLeft(LAMBDA acc, va :
               physical_page_free(vm_unmap_page(acc, va), one(mapped(acc, va))),
             m, Reverse(chunks(to, from)))

\* brk: every chunk up to the one that holds the break is mapped.
brk_memory(new_brk) ==
    LET to == round_down(new_brk)
    IN IF to < g_last_mapped_chunk
         THEN shrink_heap(mem, g_last_mapped_chunk, to)
         ELSE MUST(alloc_and_map_all(mem, current, chunks(g_last_mapped_chunk, to)))

\* The heap grows and shrinks in the calls of malloc and free, by a process,
\* or by the scheduler when it frees a process.  Beyond the end of the heap
\* the call fails and malloc finds no memory.
_sbrk(n) ==
    /\ halted = "no" /\ counted
    /\ running \in Procs => proc[running].st \in {"ready", "exec"}
    /\ g_brk + n \in 0 .. (HeapEnd - HeapStart) * Chunk
    /\ running = "scheduler" => n < 0
    /\ g_brk' = g_brk + n
    /\ g_last_mapped_chunk' = round_down(g_brk + n)
    /\ finish(brk_memory(g_brk + n))
    /\ UNCHANGED <<current, running, proc, used, placed>>

\* vm_try_fix_page_fault: the kernel touches a heap address that the active
\* root table has no entry for.
data_abort(s) ==
    /\ halted = "no"
    /\ s \in lvl1_index(HeapStart) .. lvl1_index(g_last_mapped_chunk)
    /\ mem.lvl1[current][s] = Null
    /\ finish(IF mem.lvl1[Kernel][s] = Null THEN outcome(mem, "fault")
              ELSE [mem EXCEPT !.lvl1[current][s] = mem.lvl1[Kernel][s]])
    /\ UNCHANGED <<current, running, proc, used, placed, g_brk, g_last_mapped_chunk, calls>>

-----------------------------------------------------------------------------
(* Processes                                                               *)

\* alloc_thread_user_stack: the pages are there before the first is mapped.
alloc_thread_user_stack(m, r) ==
    IF ~ok(m) THEN m
    ELSE IF Cardinality(m.free) < Len(StackPages) THEN outcome(m, "nomem")
    ELSE MUST(alloc_and_map_all(m, r, StackPages))

\* alloc_process: the address space, the kernel stack, the user stack.
alloc_process_as(m) == next_free(m)

alloc_process_kstack(m) == next_free(vm_create_address_space(m))

alloc_process(m) ==
    alloc_thread_user_stack(physical_page_alloc(vm_create_address_space(m)),
                            alloc_process_as(m))

new_process(m) ==
    [NoProcess EXCEPT !.st = "ready", !.as = alloc_process_as(m),
                      !.kstack = alloc_process_kstack(m)]

\* kassert(stage2 != nullptr)
create_first_process(p) ==
    /\ booting
    /\ finish(IF alloc_process(mem).rc = "nomem" THEN outcome(mem, "assert")
              ELSE alloc_process(mem))
    /\ running' = "scheduler"
    /\ proc' = IF ok(alloc_process(mem)) THEN [proc EXCEPT ![p] = new_process(mem)]
               ELSE proc
    /\ UNCHANGED <<current, used, placed, g_brk, g_last_mapped_chunk, calls>>

vm_switch_address_space(r) == current' = r

\* scheduler_start runs a thread that is neither suspended nor a zombie.
scheduler_runs(p) ==
    /\ scheduling /\ proc[p].st \in {"ready", "exec"}
    /\ running' = p
    /\ vm_switch_address_space(proc[p].as)
    /\ UNCHANGED <<mem, proc, used, placed, g_brk, g_last_mapped_chunk, halted,
                   calls>>

sys_yield(p) ==
    /\ runs(p, {"ready", "exec"})
    /\ running' = "scheduler"
    /\ UNCHANGED <<mem, current, proc, used, placed, g_brk, g_last_mapped_chunk, halted,
                   calls>>

\* sys$exit, also of a process that touched an address it may not touch.
sys_exit(p) ==
    /\ runs(p, {"ready"})
    /\ proc' = [proc EXCEPT ![p].st = "zombie"]
    /\ running' = "scheduler"
    /\ UNCHANGED <<mem, current, used, placed, g_brk, g_last_mapped_chunk, halted,
                   calls>>

\* free_thread and free_process: nobody frees the kernel stack, and the
\* address space may still be the active one.
free_process(p) ==
    /\ scheduling /\ proc[p].st = "zombie"
    /\ finish([vm_free(mem, proc[p].as) EXCEPT !.lost[proc[p].kstack] = @ + 1])
    /\ proc' = [proc EXCEPT ![p] = NoProcess]
    /\ UNCHANGED <<current, running, used, placed, g_brk, g_last_mapped_chunk, calls>>

fork_memory(p) == vm_fork(alloc_process(mem), proc[p].as, alloc_process_as(mem))

sys_fork(p, c) ==
    /\ runs(p, {"ready"}) /\ counted /\ proc[c].st = "none"
    /\ fork_memory(p).rc # "nomem"
    /\ finish(fork_memory(p))
    /\ proc' = IF ok(fork_memory(p)) THEN [proc EXCEPT ![c] = new_process(mem)]
               ELSE proc
    /\ UNCHANGED <<current, running, used, placed, g_brk, g_last_mapped_chunk>>

\* When memory is short in alloc_process, it gives back what it took, or, if
\* it was the address space that failed, what an unwritten variable says, and
\* free_process runs on the null pointer it returns; when it is short in
\* vm_fork, free_process frees the address space and the process twice.
sys_fork_outcome(p) ==
    /\ runs(p, {"ready"}) /\ counted
    /\ fork_memory(p).rc = "nomem"
    /\ goes_wild

\* A device file's mmap: FramebufferDevice::mmap.  Nothing is asked of the
\* address but that it is aligned: in the kernel area the page gets into the
\* tables that all address spaces share.
sys_mmap(p, va) ==
    /\ runs(p, {"ready"}) /\ counted
    /\ finish(vm_map_page([mem EXCEPT !.ref[Fb] = @ + 1], proc[p].as, Fb, va))
    /\ placed' = placed \cup ({va} \cap KernelPages)
    /\ UNCHANGED <<current, running, proc, used, g_brk, g_last_mapped_chunk>>

-----------------------------------------------------------------------------
(* sys$execve: the new address space is made, then the file is read, which *)
(* may take a while, then the program is mapped and copied with the new    *)
(* address space active.                                                   *)

sys_execve(p) ==
    /\ runs(p, {"ready"}) /\ counted
    /\ vm_create_address_space(mem).rc # "nomem"
    /\ finish(vm_create_address_space(mem))
    /\ proc' = IF mem.free = {} THEN proc
               ELSE [proc EXCEPT ![p].st = "exec", ![p].new_as = next_free(mem)]
    /\ UNCHANGED <<current, running, used, placed, g_brk, g_last_mapped_chunk>>

\* Arguments that are too long, or no memory for the root table: vm_free is
\* given a variable nobody has written, which may happen to be null.
sys_execve_fails_early(p) ==
    /\ runs(p, {"ready"}) /\ counted
    /\ \/ goes_wild
       \/ UNCHANGED <<mem, current, running, proc, used, placed, g_brk,
                      g_last_mapped_chunk, halted>>

\* The segments' addresses are the program's choice too.
program_memory(p, prog) == alloc_and_map_all(mem, proc[p].new_as, prog)

\* The pages of prog in the kernel area that got mapped: all of them, or
\* those before the frames ran out.
placed_pages(p, prog) ==
    {va \in ToSet(prog) \cap KernelPages :
       mapped(mem, va) = Null /\ mapped(program_memory(p, prog), va) # Null}

previous_forgotten(p) == proc[p].new_as

\* vm_using_address_space goes back to the address space it came from.
previous(p) == proc[p].as

\* try_load_elf in vm_using_address_space.
try_load_elf(p, prog) ==
    /\ runs(p, {"exec"})
    /\ program_memory(p, prog).rc # "nomem"
    /\ finish(program_memory(p, prog))
    /\ placed' = placed \cup placed_pages(p, prog)
    /\ proc' = [proc EXCEPT ![p].st = "mapping"]
    /\ vm_switch_address_space(proc[p].new_as)
    /\ UNCHANGED <<running, used, g_brk, g_last_mapped_chunk, calls>>

\* The file cannot be read or is no program.
sys_execve_cleanup(p) ==
    /\ runs(p, {"exec"})
    /\ finish(vm_free(mem, proc[p].new_as))
    /\ proc' = [proc EXCEPT ![p].st = "ready", ![p].new_as = Null]
    /\ UNCHANGED <<current, running, used, placed, g_brk, g_last_mapped_chunk, calls>>

\* Memory runs out: what was mapped in the kernel area stays.
try_load_elf_fails(p, prog) ==
    /\ runs(p, {"exec"})
    /\ program_memory(p, prog).rc = "nomem"
    /\ finish(vm_free(outcome(program_memory(p, prog), "ok"), proc[p].new_as))
    /\ placed' = placed \cup placed_pages(p, prog)
    /\ proc' = [proc EXCEPT ![p].st = "ready", ![p].new_as = Null]
    /\ UNCHANGED <<current, running, used, g_brk, g_last_mapped_chunk, calls>>

exec_stack(p) == alloc_thread_user_stack(mem, proc[p].new_as)

\* The stack of the new program, then the process changes over.
sys_execve_commits(p) ==
    /\ runs(p, {"mapping"})
    /\ exec_stack(p).rc # "nomem"
    /\ finish(vm_free(exec_stack(p), proc[p].as))
    /\ proc' = [proc EXCEPT ![p].st = "ready", ![p].as = proc[p].new_as,
                            ![p].new_as = Null]
    /\ vm_switch_address_space(proc[p].new_as)
    /\ UNCHANGED <<running, used, placed, g_brk, g_last_mapped_chunk, calls>>

sys_execve_no_stack(p) ==
    /\ runs(p, {"mapping"})
    /\ exec_stack(p).rc = "nomem"
    /\ finish(vm_free(mem, proc[p].new_as))
    /\ proc' = [proc EXCEPT ![p].st = "ready", ![p].new_as = Null]
    /\ vm_switch_address_space(previous(p))
    /\ UNCHANGED <<running, used, placed, g_brk, g_last_mapped_chunk, calls>>

Step(p) ==
    \/ create_first_process(p) \/ scheduler_runs(p) \/ free_process(p)
    \/ sys_yield(p) \/ sys_exit(p)
    \/ \E va \in MmapVas : sys_mmap(p, va)
    \/ sys_fork_outcome(p)
    \/ \E c \in Procs : sys_fork(p, c)
    \/ sys_execve(p) \/ sys_execve_fails_early(p)
    \/ sys_execve_cleanup(p)
    \/ \E prog \in Programs : try_load_elf(p, prog) \/ try_load_elf_fails(p, prog)
    \/ sys_execve_commits(p) \/ sys_execve_no_stack(p)

Next ==
    \/ \E d \in Registers : ioremap(d)
    \/ \E u \in used : iounmap(u)
    \/ \E n \in SbrkSizes : _sbrk(n)
    \/ \E s \in KernelSlots : data_abort(s)
    \/ \E p \in Procs : Step(p)

Spec == Init /\ [][Next]_vars

-----------------------------------------------------------------------------
(* Properties                                                              *)

\* The root tables somebody uses.
Roots ==
    {Kernel} \cup {proc[p].as : p \in {q \in Procs : proc[q].st # "none"}}
    \cup ({proc[p].new_as : p \in Procs} \ {Null})

RefsOf(p) ==
    LET heap == {va \in KernelPages : mapped(mem, va) = p}
        roots == Roots
        kernel_tables == {s \in KernelSlots : mem.lvl1[Kernel][s] = p}
        user == {x \in roots \X UserSlots : mem.lvl1[x[1]][x[2]] = p}
        entries == {x \in roots \X UserSlots \X (0 .. T - 1) :
                      /\ mem.lvl1[x[1]][x[2]] # Null
                      /\ mem.lvl2[mem.lvl1[x[1]][x[2]]][x[3]] = p}
        stacks == {q \in Procs : proc[q].kstack = p}
    IN Cardinality(heap) + Cardinality(kernel_tables) + Cardinality(user)
       + Cardinality(entries) + Cardinality(stacks) + Cardinality({p} \cap roots)
       + mem.lost[p]

\* Every reference count is the number of references there are, and the
\* allocator has the pages nobody refers to: forking, replacing and freeing
\* address spaces and moving the heap's break never give a page back twice,
\* and lose only what a fork overwrites and the kernel stacks of the dead.
\* Only the framebuffer, which the allocator never handed out, can be on its
\* lists and in use.
PagesAccounted ==
    halted = "no" =>
       /\ \A p \in Pages : mem.ref[p] = RefsOf(p)
       /\ \A p \in Pages \ {Fb} : p \in mem.free <=> mem.ref[p] = 0

UserPages(r) ==
    {mem.lvl2[mem.lvl1[r][s]][i] :
       s \in user_tables(mem, r), i \in 0 .. T - 1} \ {Null}

\* Two address spaces share no page of their users but the vector table and
\* the framebuffer.
Isolation ==
    halted = "no" => \A q, r \in Roots :
      q # r => UserPages(q) \cap UserPages(r) \subseteq {vector_page(mem), Fb}

\* The kernel area is the same in all root tables, up to entries that are
\* missing, and what is mapped in it is the heap up to its break, the devices'
\* registers, and what processes placed elsewhere in it: no process replaces a
\* page of the kernel's, the heap never grows over a page of a process, and
\* whatever address space the kernel runs in, a heap address is mapped or the
\* page fault handler finds it.
KernelAreaAgrees ==
    halted = "no" =>
       /\ \A r \in Roots \cup ({current} \cap DOMAIN mem.lvl1) : \A s \in KernelSlots :
            mem.lvl1[r][s] \in {Null, mem.lvl1[Kernel][s]}
       /\ \A b \in 0 .. g_brk : HeapStart + b \div Chunk <= g_last_mapped_chunk
       /\ LET heap == HeapStart .. g_last_mapped_chunk
          IN /\ placed \cap (heap \cup used_pages) = {}
             /\ \A va \in KernelPages :
                  /\ (mapped(mem, va) # Null) = (va \in heap \cup used_pages \cup placed)
                  /\ (mapped(mem, va) = Mmio) = (va \in used_pages)

\* The active root table holds a root table, in use or just freed with the
\* process that ran last: its memory is never in use for something else,
\* unless it was the framebuffer's.
ActiveTableIntact ==
    halted = "no" /\ current # Fb =>
       /\ current \in DOMAIN mem.lvl1
       /\ current \in Roots \/ (running = "scheduler" /\ mem.ref[current] = 0)

\* No kassert fails, and no page fault in the kernel stays unfixed, unless
\* the framebuffer is on the free list and mapped again.
NeverABug ==
    /\ halted # "fault"
    /\ halted = "assert" => Fb \in mem.free

MappedVas(m, r) ==
    {va \in 0 .. KernelSlot * T - 1 :
       /\ m.lvl1[r][lvl1_index(va)] # Null
       /\ m.lvl2[m.lvl1[r][lvl1_index(va)]][va % T] # Null}

\* A forked process has a page wherever its parent has one and nowhere else,
\* although alloc_process had filled some of its entries before.
ForkMapsTheSame ==
    [][\A p, c \in Procs :
         running = p /\ proc[c].st = "none" /\ proc'[c].st = "ready"
           => MappedVas(mem', proc'[c].as) = MappedVas(mem', proc[p].as)]_vars

\* Every page is accounted for through forks, execs, exits and movements of
\* the heap, and none of the assertions about pages and tables fails.
MemorySound == TypeOK /\ PagesAccounted /\ NeverABug
=============================================================================
